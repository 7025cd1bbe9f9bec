------------------------------- MODULE Builder -------------------------------
(***************************************************************************)
(* builder.rs: a log object becomes a set of labels, a timestamp and a     *)
(* line, and a batch of them the streams of one push request.              *)
(*                                                                         *)
(* A log is its properties, a function from names to JSON values, which    *)
(* are strings here, the falsy ones included.  JSON text, and              *)
(* convert_arrays, which rewrites it, are left out.  The time of a log is  *)
(* what its property of that name is read as: the whole part of a positive *)
(* number, so 0 for one below 1, and NoTime for anything else.             *)
(***************************************************************************)
EXTENDS Integers, Sequences, SequencesExt

CONSTANTS
  ExtraLabels,          \* extra_labels, a function
  PropsToLabels,        \* props_to_labels, a sequence of names
  ReplaceTimestamp,     \* replace_timestamp
  structured_meta_key,  \* a name, or "" for None
  TsDigits,             \* digits of a timestamp in nanoseconds: 19
  NowNs                 \* now_ns()

ASSUME BuilderAssumption == TsDigits \in 1 .. 39

NoTime == -1

\* A u128 has up to 39 digits.
Pow10[d \in 0 .. 39] == IF d = 0 THEN 1 ELSE 10 * Pow10[d - 1]

IsTime(n) == n \in Nat /\ \E d \in 1 .. 39 : n < Pow10[d]

Digits(n) ==
  CHOOSE d \in 1 .. 39 : n < Pow10[d] /\ (d = 1 \/ Pow10[d - 1] <= n)

\* Mutant: the digits are not counted, every time is taken for milliseconds.
AssumeMillis(time) ==
  IF ReplaceTimestamp \/ time = NoTime THEN NowNs ELSE time * 10
timestamp_ns(time) ==
  IF ReplaceTimestamp \/ time = NoTime THEN NowNs
  ELSE IF Digits(time) >= TsDigits THEN time
       ELSE time * Pow10[TsDigits - Digits(time)]

level_label(props) ==
  LET level == IF "level" \in DOMAIN props THEN props["level"] ELSE ""
  IN CASE level \in {"10", "20"} -> "debug"
       [] level = "40" -> "warning"
       [] level = "50" -> "error"
       [] level = "60" -> "critical"
       [] OTHER -> "info"

truthy(value) == value \notin {"null", "false", "0", ""}

\* What a log leaves behind once hostname has been taken out.
Remaining(props) == [name \in DOMAIN props \ {"hostname"} |-> props[name]]

Hostname(props) ==
  IF "hostname" \in DOMAIN props /\ props["hostname"] # "null"
  THEN "hostname" :> props["hostname"] ELSE <<>>

\* The inserts in their order: a later one replaces an earlier one.
Labels(props) ==
  LET insert(labels, name) ==
        IF name \in DOMAIN Remaining(props) /\ truthy(props[name])
        THEN (name :> props[name]) @@ labels ELSE labels
  IN FoldLeft(insert,
              ExtraLabels @@ Hostname(props) @@ ("level" :> level_label(props)),
              PropsToLabels)

build(log) ==
  [labels |-> Labels(log.props), ts_ns |-> timestamp_ns(log.time),
   line   |-> Remaining(log.props),
   meta   |-> IF structured_meta_key \in DOMAIN Remaining(log.props)
              THEN {log.props[structured_meta_key]} ELSE {}]

\* One element of a stream's values.
Entry(built) == [ts_ns |-> built.ts_ns, line |-> built.line, meta |-> built.meta]

\* payload's loop: groups by labels, order remembers which came first.
\* Mutant: a log with the labels of an earlier one replaces what is there.
GroupOne(acc, built) ==
  [order  |-> IF built.labels \in DOMAIN acc.groups THEN acc.order
              ELSE Append(acc.order, built.labels),
   groups |-> (built.labels :> <<Entry(built)>>) @@ acc.groups]
Group(acc, built) ==
  LET labels == built.labels
      known  == labels \in DOMAIN acc.groups
  IN [order  |-> IF known THEN acc.order ELSE Append(acc.order, labels),
      groups |-> [l \in DOMAIN acc.groups \cup {labels} |->
                    IF l # labels THEN acc.groups[l]
                    ELSE IF known THEN Append(acc.groups[l], Entry(built))
                         ELSE <<Entry(built)>>]]

payload(batch) ==
  LET grouped == FoldLeft(Group, [order |-> <<>>, groups |-> <<>>], batch)
  IN [k \in DOMAIN grouped.order |->
        [stream |-> grouped.order[k], values |-> grouped.groups[grouped.order[k]]]]

=============================================================================
