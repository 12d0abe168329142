------------------------------ MODULE Contract ------------------------------
(***************************************************************************)
(* The trade contract of offer.go and the transaction of trade.go that     *)
(* fulfills it.  Everything here is a pure definition.                     *)
(*                                                                         *)
(* Terms of an order: [trader, input, output], where input is what the     *)
(* trader deposits and output what the trader is to receive, each an       *)
(* [asset, amount].  A script that inspects output 0 of the transaction    *)
(* that spends the deposit is represented by the one output it accepts.    *)
(***************************************************************************)
EXTENDS Integers, FiniteSetsExt

CONSTANTS
    LBTC,          \* the asset in which the network's fees are paid
    FEE_AMOUNT     \* fee of a fulfill transaction, also the dust threshold

ASSUME FeeAmountAssumption == FEE_AMOUNT \in Nat \ {0}

Value(asset, amount) == [asset |-> asset, amount |-> amount]

Output(asset, amount, script) ==
    [asset |-> asset, amount |-> amount, script |-> script]

-----------------------------------------------------------------------------
(***************************************************************************)
(* The two leaves of the contract: output 0 pays what the order promises   *)
(* (fulfill), or gives the deposit back (refund), always to the trader's   *)
(* script.  The key path is unspendable, and a taproot branch hashes its   *)
(* two leaves in sorted order, so the address is the set of the leaves.    *)
(***************************************************************************)
FulfillScript(recipient, outputAmount, outputAsset) ==
    Output(outputAsset, outputAmount, recipient)

RefundScript(recipient, inputAmount, inputAsset) ==
    Output(inputAsset, inputAmount, recipient)

CreateFundingOutput(fulfillScript, refundScript) == {fulfillScript, refundScript}

\* The scripts and the address NewOrder stores in an order with these terms.
FulfillLeaf(terms) ==
    FulfillScript(terms.trader, terms.output.amount, terms.output.asset)

\* Mutant: the refund clause is compiled with the amount of the output.
RefundLeafOfOutputAmount(terms) ==
    RefundScript(terms.trader, terms.output.amount, terms.input.asset)

RefundLeaf(terms) ==
    RefundScript(terms.trader, terms.input.amount, terms.input.asset)

Address(terms) == CreateFundingOutput(FulfillLeaf(terms), RefundLeaf(terms))

-----------------------------------------------------------------------------
(***************************************************************************)
(* PrepareFulfillTransaction: output 0 is the trader's payout, output 1    *)
(* the provider's proceeds, then the two changes and the fee.  An output   *)
(* that the code does not add has amount 0 here.  An L-BTC change below    *)
(* FEE_AMOUNT would be dust, so it is given to the fee.                    *)
(***************************************************************************)
Provider == "provider"

Outputs == {"payout", "proceeds", "tradeChange", "feeChange", "fee"}

\* Mutant: the dust of the payout's change is not added to the fee.
PrepareLosingDust(terms, tradeChange, feeChange) ==
    LET kept(dust, change) == IF dust THEN 0 ELSE change
    IN [ payout      |-> Output(terms.output.asset, terms.output.amount, terms.trader),
         proceeds    |-> Output(terms.input.asset, terms.input.amount, Provider),
         tradeChange |-> Output(terms.output.asset,
                                kept(terms.output.asset = LBTC /\ tradeChange < FEE_AMOUNT,
                                     tradeChange), Provider),
         feeChange   |-> Output(LBTC, kept(feeChange < FEE_AMOUNT, feeChange), Provider),
         fee         |-> Output(LBTC, FEE_AMOUNT + (IF feeChange < FEE_AMOUNT
                                                    THEN feeChange ELSE 0), "fee") ]

\* Mutant: the change of the fee's coins is never kept.
PrepareKeepingNoChange(terms, tradeChange, feeChange) ==
    [ payout      |-> Output(terms.output.asset, terms.output.amount, terms.trader),
      proceeds    |-> Output(terms.input.asset, terms.input.amount, Provider),
      tradeChange |-> Output(terms.output.asset, tradeChange, Provider),
      feeChange   |-> Output(LBTC, 0, Provider),
      fee         |-> Output(LBTC, FEE_AMOUNT + feeChange, "fee") ]

PrepareFulfillTransaction(terms, tradeChange, feeChange) ==
    LET tradeDust == terms.output.asset = LBTC /\ tradeChange < FEE_AMOUNT
        feeDust   == feeChange < FEE_AMOUNT
        kept(dust, change)   == IF dust THEN 0 ELSE change
        folded(dust, change) == IF dust THEN change ELSE 0
    IN [ payout      |-> Output(terms.output.asset, terms.output.amount, terms.trader),
         proceeds    |-> Output(terms.input.asset, terms.input.amount, Provider),
         tradeChange |-> Output(terms.output.asset, kept(tradeDust, tradeChange), Provider),
         feeChange   |-> Output(LBTC, kept(feeDust, feeChange), Provider),
         fee         |-> Output(LBTC,
                                FEE_AMOUNT + folded(tradeDust, tradeChange)
                                           + folded(feeDust, feeChange),
                                "fee") ]

\* Amount of one asset in an output or a value.
AmountOf(asset, out) == IF out.asset = asset THEN out.amount ELSE 0

\* A network accepts only a transaction that creates as much of every asset as
\* it consumes: the deposit, the coins funding the payout, those for the fee.
Balanced(deposit, tradeIn, feeIn, tx) ==
    \A asset \in {deposit.asset, tradeIn.asset, feeIn.asset}
                 \cup {tx[o].asset : o \in Outputs} :
        AmountOf(asset, deposit) + AmountOf(asset, tradeIn) + AmountOf(asset, feeIn)
          = AmountOf(asset, tx.payout) + AmountOf(asset, tx.proceeds)
            + AmountOf(asset, tx.tradeChange) + AmountOf(asset, tx.feeChange)
            + AmountOf(asset, tx.fee)

-----------------------------------------------------------------------------
\* Total amount of a finite set of coins or deposits (each has an amount).
TotalAmount(coins) ==
    IF coins = {} THEN 0
    ELSE MapThenSumSet(LAMBDA c : c.amount, coins)
=============================================================================
