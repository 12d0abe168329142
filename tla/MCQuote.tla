------------------------------ MODULE MCQuote -------------------------------
(* Small instances of Quote for TLC. *)
EXTENDS Quote

\* In hundredths of a satoshi: nothing; one satoshi, almost two, whose values are
\* less than their fee is worth; and 350, whose values are above the last digit shown.
EdgeAmounts == {0, 100, 199, 35000}

\* In hundredths: a price so near to 1 that a Sell passes the check, and one where
\* the satoshi of one asset is worth more than that of the other.
FractionalPrices == {102, 150}

\* One satoshi, in satoshis, at a whole price.
OneAmount == {1}
PriceThree == {3}
=============================================================================
