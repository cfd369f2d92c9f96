---------------------------- MODULE MCTargetApi ----------------------------
(* Small instances of TargetApi for TLC: cfg files give the sets as model  *)
(* values.  Requests are interchangeable, and so are IDs.                  *)
EXTENDS TargetApi, TLC

Symmetry == Permutations(Clients) \cup Permutations(Ids)

(* What TargetApi takes a valid body for, with a value or two on each side *)
(* of every rule of TargetRules.  TLC evaluates the rules when it starts.  *)
Rules == INSTANCE TargetRules WITH
           Words <- {"api"}, Urls <- {"no host", "web"}, WebUrls <- {"web"},
           Methods <- {"GET", "TRACE"}, Durations <- {0, 1},
           Codes <- {0, 99, 100, 599, 600}, Omitted <- None, Unparsable <- Garbage

ASSUME RulesInstance == Rules!RulesConstants

ASSUME RulesHold ==
  \A b \in Rules!Bodies :
    Rules!StoresNormal(b) /\ Rules!PostAndPutAgree(b) /\ Rules!AcceptsLegal(b)

ASSUME EditsHold ==
  \A t \in {Rules!Updated(b) : b \in {c \in Rules!Bodies : Rules!Decodes(c)}} :
    Rules!Valid(t) =>
      \A f \in Rules!Fields : \A v \in {b[f] : b \in Rules!Bodies} : Rules!EditIsLocal(t, f, v)
=============================================================================
