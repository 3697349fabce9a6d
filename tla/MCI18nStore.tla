----------------------------- MODULE MCI18nStore -----------------------------
(***************************************************************************)
(* Instances of I18nStore for TLC: the hosts of the writers and small      *)
(* sets of values.                                                         *)
(***************************************************************************)
EXTENDS I18nStoreInv, TLC

CONSTANTS w1, w2, p1, p2

\* Both requests are served by one process: the gate is all that orders them.
OneProcess == (w1 :> p1) @@ (w2 :> p1)

\* Each process serves one request: only the folder is shared.
TwoProcesses == (w1 :> p1) @@ (w2 :> p2)

\* A configuration that lists the one locale and one that lists none.
Plain == [enabled |-> TRUE, fallback |-> NoLocale]
ListsAllOrNone ==
  {[default |-> l, settings |-> [x \in listed |-> Plain]] : listed \in {Locale, {}}, l \in Locale}
NoConfigs == {}

\* Two processes that run the same program, each with its request: exchanging
\* both processes and both requests changes nothing.
Alike ==
  {f \in Permutations({w1, w2, p1, p2}) :
     /\ \A w \in {w1, w2} : f[w] \in {w1, w2}
     /\ \A w \in {w1, w2} : TwoProcesses[f[w]] = f[TwoProcesses[w]]}
=============================================================================
