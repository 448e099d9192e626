-------------------------- MODULE MCAlertLifecycle --------------------------
(* Instances of AlertLifecycle: one entry; the channel of target t1 allows *)
(* one retry, fewer than MAX_RETRY_COUNT, that of t2 more than it; the     *)
(* levels are an expired entry and the threshold itself.                   *)
EXTENDS AlertLifecycle

CONSTANTS e1, c1, t1, t2

BothTargets == {t1, t2}
OnlyTarget == {t2}
OneConfig == {c1}
Ten == [c \in Configs |-> 10]
Limits == [t \in Targets |-> IF t = t1 THEN 1 ELSE 3]
AllTargets == [c \in Configs |-> Targets]
OneTarget == [c \in Configs |-> {t2}]

TwoLevels == {-3, 10}
=============================================================================
