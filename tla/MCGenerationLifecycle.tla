----------------------- MODULE MCGenerationLifecycle -----------------------
(* Instances of GenerationLifecycle that TLC can check.                    *)
EXTENDS GenerationLifecycle, TLC

CONSTANTS i1, i2, r1, r2, k1, k2, c1, c2, u1

OneUser == [c \in Conversation |-> u1]

InstancesAlike == Permutations(Instance)
Interchangeable ==
  InstancesAlike \cup Permutations(Request) \cup Permutations(Conversation)

\* Nothing more happens once the last id is in use: the generations before it have
\* left the slot by then, and a result that is final stays (TerminalStays).
UntilLastId == ~Exists(MaxGen)

=============================================================================
