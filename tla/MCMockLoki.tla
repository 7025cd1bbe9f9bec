----------------------------- MODULE MCMockLoki -----------------------------
(***************************************************************************)
(* MockLoki on a small instance.  Timestamps have 5 digits, u64 is 4 bits  *)
(* wide and a second has 4 milliseconds.                                   *)
(***************************************************************************)
EXTENDS MockLoki

CONSTANT t1   \* a push task

\* One instant in two units, a time below one and no time at all; hostnames that are
\* strings, empty, null or not there; two logs with the same labels that differ.
Logs == {
  [time |-> 123,    props |-> [time |-> "123", level |-> "30"]],
  [time |-> 1230,   props |-> [time |-> "1230", level |-> "50", hostname |-> "",
                               reqId |-> "r"]],
  [time |-> 0,      props |-> [time |-> "0.5", level |-> "30", hostname |-> "null",
                               reqId |-> "0"]],
  [time |-> NoTime, props |-> [hostname |-> "h", app |-> "b"]] }

\* Two logs, the same or not, and the first of them again.
MCBatches == [t \in {t1} |-> {<<a, b, a>> : a, b \in Logs}]
MCExtraLabels == "app" :> "a"
MCProps == <<"reqId", "app">>

=============================================================================
