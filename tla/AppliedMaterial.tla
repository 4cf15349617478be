--------------------------- MODULE AppliedMaterial ---------------------------
(***************************************************************************)
(* What the owner of a persona is promised about its material: one draft,  *)
(* edited freely, becomes as a whole the material that answers are drawn   *)
(* from, and nothing else ever changes that material.  Indexing, its       *)
(* failures, crashes and restarts do not appear: they are not visible.     *)
(***************************************************************************)
CONSTANTS
  Persona,
  Piece        \* pieces of material

\* Both map a persona to the set of the materials it has: none or one.
VARIABLES
  written,     \* the draft
  served       \* the material answers are drawn from

vars == <<written, served>>

Init ==
  /\ written = [p \in Persona |-> {}]
  /\ served = [p \in Persona |-> {}]

\* A draft starts empty or as a copy of the applied material.
Begin(p) ==
  /\ written[p] = {}
  /\ \E m \in {{}} \cup served[p] : written' = [written EXCEPT ![p] = {m}]
  /\ UNCHANGED served

Edit(p) ==
  /\ written[p] # {}
  /\ \E m \in written'[p] : m \subseteq Piece /\ written' = [written EXCEPT ![p] = {m}]
  /\ UNCHANGED served

\* The draft, all of it and nothing but it, is what is served from now on.
Apply(p) ==
  /\ \E m \in written[p] : m # {}
  /\ served' = [served EXCEPT ![p] = written[p]]
  /\ written' = [written EXCEPT ![p] = {}]

Drop(p) ==
  /\ written[p] # {}
  /\ written' = [written EXCEPT ![p] = {}]
  /\ UNCHANGED served

Delete(p) ==
  /\ written' = [written EXCEPT ![p] = {}]
  /\ served' = [served EXCEPT ![p] = {}]

Next == \E p \in Persona : Begin(p) \/ Edit(p) \/ Apply(p) \/ Drop(p) \/ Delete(p)

Spec == Init /\ [][Next]_vars

=============================================================================
