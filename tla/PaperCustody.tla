---------------------------- MODULE PaperCustody ----------------------------
(***************************************************************************)
(* What the paper runner promises of the account, without its control       *)
(* flow: every client order id lives one life (unused, prepared, sent,      *)
(* over), a trade has one sell in preparation or at the broker at a time,   *)
(* shares move only on ids the ledger holds as sent, and no sale takes a    *)
(* share the account does not hold.                                         *)
(***************************************************************************)
EXTENDS Integers

CONSTANTS Symbols, Trades, Sells, None

Ids == Trades \X ({0} \cup Sells)

VARIABLES
    phase,    \* of each client order id
    symbol,   \* what each trade trades, once it is prepared
    held      \* shares of each symbol at the broker

cvars == <<phase, symbol, held>>

Live(id) == phase[id] \in {"prepared", "sent"}

Init ==
    /\ phase = [id \in Ids |-> "unused"]
    /\ symbol = [t \in Trades |-> None]
    /\ held = [s \in Symbols |-> 0]

PrepareBuy(t, s) ==
    /\ phase[<<t, 0>>] = "unused"
    /\ phase' = [phase EXCEPT ![<<t, 0>>] = "prepared"]
    /\ symbol' = [symbol EXCEPT ![t] = s]
    /\ UNCHANGED held

(* A sell is prepared when the buy is over and no other sell is live.      *)
PrepareSell(t, k) ==
    /\ phase[<<t, 0>>] = "over"
    /\ phase[<<t, k>>] = "unused"
    /\ \A j \in Sells : ~Live(<<t, j>>)
    /\ phase' = [phase EXCEPT ![<<t, k>>] = "prepared"]
    /\ UNCHANGED <<symbol, held>>

Send(id) ==
    /\ phase[id] = "prepared"
    /\ phase' = [phase EXCEPT ![id] = "sent"]
    /\ UNCHANGED <<symbol, held>>

End(id) ==
    /\ Live(id)
    /\ phase' = [phase EXCEPT ![id] = "over"]
    /\ UNCHANGED <<symbol, held>>

Bought(id) ==
    /\ phase[id] = "sent" /\ id[2] = 0
    /\ held' = [held EXCEPT ![symbol[id[1]]] = @ + 1]
    /\ UNCHANGED <<phase, symbol>>

Sold(id) ==
    /\ phase[id] = "sent" /\ id[2] # 0
    /\ held[symbol[id[1]]] > 0
    /\ held' = [held EXCEPT ![symbol[id[1]]] = @ - 1]
    /\ UNCHANGED <<phase, symbol>>

Next ==
    \/ \E t \in Trades, s \in Symbols : PrepareBuy(t, s)
    \/ \E t \in Trades, k \in Sells : PrepareSell(t, k)
    \/ \E id \in Ids : Send(id) \/ End(id) \/ Bought(id) \/ Sold(id)

Spec == Init /\ [][Next]_cvars

=============================================================================
