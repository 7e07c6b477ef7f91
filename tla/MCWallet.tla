------------------------------ MODULE MCWallet ------------------------------
(***************************************************************************)
(* Instances of Wallet for TLC.                                            *)
(***************************************************************************)
EXTENDS Wallet, TLC

CONSTANTS w1, w2, k1, k2, k3, k4, inr, usd

Of(via, move, ws, key, amount, currency) ==
    [via |-> via, move |-> move, ws |-> ws, key |-> key, amount |-> amount,
     currency |-> currency]

MCDefaultCurrency == [w \in Workspaces |-> inr]

\* Two wallets, the second with little traffic: keys that several calls share, also
\* across the wallets, where no row lock keeps two INSERTs of one key apart; a manual
\* key of staff's, a read that may have to create the wallet, a call in the wrong
\* currency, amounts that pass, breach either floor, overflow the column or are not
\* positive.
MixedCalls ==
    {Of("caller", "credit",  w1, k1, 2, inr),
     Of("caller", "hold",    w1, k2, 2, inr),
     Of("caller", "release", w1, k3, 1, inr),
     Of("caller", "credit",  w1, k1, 0, inr),
     Of("caller", "refund",  w2, k1, 1, inr),
     Of("caller", "credit",  w2, k1, 1, usd),
     Of("staff",  "credit",  w1, k4, 2, inr),
     Of("read",   "credit",  w2, k2, 1, usd)}

\* Two requests that race for one key.
RaceCalls ==
    {Of("caller", "credit", w1, k1, 2, inr),
     Of("caller", "debit",  w1, k2, 1, inr)}
=============================================================================
