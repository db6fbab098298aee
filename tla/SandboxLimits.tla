--------------------------- MODULE SandboxLimits ---------------------------
(***************************************************************************)
(* The pure parts of the sandbox: timeouts per language and their clamp,   *)
(* the output cap, the mapping of an outcome to a status, and the reaper's *)
(* reading of the ages that `docker ps` prints.  Durations are in seconds. *)
(***************************************************************************)
EXTENDS Integers, Sequences

MAX_TIMEOUT_SECONDS == 60
ORPHAN_AGE_SECONDS == 300

\* The languages that have a ResourceConfig.
Languages == {"python", "javascript", "typescript", "java", "go", "ruby", "rust", "bash"}

\* timeout_seconds of each language's ResourceConfig.
DefaultTimeout ==
  [python |-> 10, javascript |-> 10, typescript |-> 15, java |-> 20, go |-> 20,
   ruby |-> 10, rust |-> 25, bash |-> 10]

MinOf(a, b) == IF a <= b THEN a ELSE b
MaxOf(a, b) == IF a >= b THEN a ELSE b

clamp_timeout(limit, requested) ==
  LET ceiling == MinOf(limit, MAX_TIMEOUT_SECONDS)
  IN  IF requested <= 0 THEN ceiling ELSE MaxOf(1, MinOf(requested, ceiling))

\* timeout_seconds as ExecutionRequest.from_dict reads it: absent and zero are 10.
RequestedTimeout(field) == IF field = 0 THEN 10 ELSE field

(***************************************************************************)
(* _OutputCapture.append.  A text is the sequence of its characters' sizes *)
(* in bytes.  `lost` is history: whether any character was dropped.        *)
(***************************************************************************)
EmptyCapture == [used |-> 0, kept |-> 0, truncated |-> FALSE, lost |-> FALSE]

Bytes(text) == LET sum[i \in 0..Len(text)] == IF i = 0 THEN 0 ELSE sum[i - 1] + text[i]
               IN  sum[Len(text)]

\* encoded[:room].decode("utf-8", "ignore"): the whole characters that fit.
Cut(text, room) ==
  LET fits == {i \in 0..Len(text) : Bytes(SubSeq(text, 1, i)) <= room}
  IN  SubSeq(text, 1, CHOOSE i \in fits : \A k \in fits : k <= i)

\* Mutant of append: the flag is raised only by the chunk that is cut.
AppendForgetsFull(c, text, max_bytes) ==
  LET room == max_bytes - c.used
      kept == IF Bytes(text) > room THEN Cut(text, room) ELSE text
  IN  IF c.used >= max_bytes
        THEN [c EXCEPT !.lost = TRUE]
        ELSE [used |-> IF Bytes(text) > room THEN max_bytes ELSE c.used + Bytes(text),
              kept |-> c.kept + Bytes(kept),
              truncated |-> c.truncated \/ Bytes(text) > room,
              lost |-> c.lost \/ kept # text]

append(c, text, max_bytes) ==
  LET room == max_bytes - c.used
      kept == IF Bytes(text) > room THEN Cut(text, room) ELSE text
  IN  IF c.used >= max_bytes
        THEN [c EXCEPT !.truncated = TRUE, !.lost = TRUE]
        ELSE [used |-> IF Bytes(text) > room THEN max_bytes ELSE c.used + Bytes(text),
              kept |-> c.kept + Bytes(kept),
              truncated |-> c.truncated \/ Bytes(text) > room,
              lost |-> c.lost \/ kept # text]

(***************************************************************************)
(* _build_result                                                           *)
(***************************************************************************)
_SIGKILL_EXIT == 137

\* Mutant of StatusOf: a cancelled run gets a status the API does not know.
StatusCancelled(outcome, returncode) ==
  IF outcome = "completed" THEN (IF returncode = _SIGKILL_EXIT THEN "FAILED" ELSE "COMPLETED")
  ELSE IF outcome = "timeout" THEN "TIMEOUT"
  ELSE "CANCELLED"

StatusOf(outcome, returncode) ==
  IF outcome = "completed" THEN (IF returncode = _SIGKILL_EXIT THEN "FAILED" ELSE "COMPLETED")
  ELSE IF outcome = "timeout" THEN "TIMEOUT"
  ELSE "KILLED"

(***************************************************************************)
(* Ages.  HumanDuration is Docker's rendering of an age, the text of       *)
(* {{.Status}} and {{.RunningFor}}: a quantity and a unit, where a minute  *)
(* and an hour are "About a", and below a second there is no quantity.     *)
(***************************************************************************)
Minute == 60
Hour == 60 * Minute
Day == 24 * Hour

HumanDuration(age) ==
  LET hours == (age + Hour \div 2) \div Hour
  IN  IF age < 1 THEN [qty |-> 0, unit |-> "subsecond"]
      ELSE IF age < Minute THEN [qty |-> age, unit |-> "second"]
      ELSE IF age < Hour THEN [qty |-> age \div Minute, unit |-> "minute"]
      ELSE IF hours < 48 THEN [qty |-> hours, unit |-> "hour"]
      ELSE IF hours < 24 * 14 THEN [qty |-> hours \div 24, unit |-> "day"]
      ELSE IF hours < 24 * 60 THEN [qty |-> hours \div (24 * 7), unit |-> "week"]
      ELSE [qty |-> hours \div (24 * 30), unit |-> "month"]

\* Units _parse_relative_age knows; for another it returns None, here -1.
_UNIT_SECONDS ==
  [second |-> 1, minute |-> Minute, hour |-> Hour, day |-> Day, week |-> 7 * Day]

_parse_relative_age(text) ==
  IF text.unit = "subsecond" THEN 0
  ELSE IF text.unit \in DOMAIN _UNIT_SECONDS THEN text.qty * _UNIT_SECONDS[text.unit]
  ELSE -1

\* Mutant of should_reap: a container that is Created is reaped at any age.
ReapCreatedAtOnce(status, age) ==
  \/ status \in {"created", "exited"}
  \/ /\ status = "running"
     /\ _parse_relative_age(HumanDuration(age)) >= ORPHAN_AGE_SECONDS

\* Mutant of should_reap: a container that is Created is never reaped.
ReapCreatedNever(status, age) ==
  \/ status = "exited"
  \/ /\ status = "running"
     /\ _parse_relative_age(HumanDuration(age)) >= ORPHAN_AGE_SECONDS

\* Created and Up containers are judged by age, a stopped one is always reaped.
should_reap(status, age) ==
  \/ status = "exited"
  \/ /\ status \in {"created", "running"}
     /\ _parse_relative_age(HumanDuration(age)) >= ORPHAN_AGE_SECONDS
=============================================================================
