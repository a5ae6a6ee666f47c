--------------------------- MODULE MCPickRotation ---------------------------
\* Instances of PickRotation: two jobs of a capped kind and a preview job; or one job of each kind.
EXTENDS PickRotation

MCJobs == 1..3
MCKinds == {"previews", "intro_credits", "loudness"}
MCCapped == {"intro_credits", "loudness"}
MCKindOf == <<"intro_credits", "previews", "intro_credits">>
MCKindOfAll == <<"intro_credits", "loudness", "previews">>

\* The jobs start at one priority; an operator may raise or lower one.
EqualPriorities == Init /\ \A j \in Jobs : prio[j] = 1
EqualSpec == EqualPriorities /\ [][Next]_vars /\ Fairness
=============================================================================
