------------------------------ MODULE KVCalls ------------------------------
(***************************************************************************)
(* What an open store promises to the threads that share it: a call takes  *)
(* its effect, and a read its whole answer, at one moment between its start*)
(* and its return.  After an error that leaves log and index apart every   *)
(* call but Close is refused, and what such a call has done is known only  *)
(* when the store is opened again.  Module StoreLocks implements this.     *)
(***************************************************************************)
EXTENDS Naturals

CONSTANTS
  Thread,     \* threads of the caller
  Key,        \* keys: numbers, for their order
  Val,        \* values
  Missing,    \* the value of an absent key
  Ranges,     \* sets of keys that scans and seeks are asked for
  NoCall, NoAnswer, Changed

VARIABLES
  dict,       \* the maps the store may hold: one, until a call is in doubt
  up,         \* TRUE until Close
  broken,     \* TRUE after a fatal error
  call,       \* call[t]: the call thread t has made, or NoCall
  answer      \* answer[t]: NoAnswer, then Changed once a write has taken
              \* effect, then the answer

vars == <<dict, up, broken, call, answer>>

Content == [Key -> Val \cup {Missing}]

\* ScanRange and ReverseScanRange visit a range of keys until the callback stops
\* them; SeekGE and SeekLE stop at the first key; Len counts all keys.
Calls == [kind : {"get", "delete"}, key : Key]
           \cup [kind : {"put"}, key : Key, val : Val]
           \cup [kind : {"scan", "seek"}, keys : Ranges, forward : BOOLEAN]
           \cup [kind : {"len", "close"}]

Statuses == {"ok", "absent", "closed", "fatal", "failed"}

Answers == [status : Statuses, items : SUBSET (Key \X Val)]

Init == /\ \E d \in Content : dict = {d}
        /\ up = TRUE
        /\ broken = FALSE
        /\ call = [t \in Thread |-> NoCall]
        /\ answer = [t \in Thread |-> NoAnswer]

Invoke(t) == /\ call[t] = NoCall
             /\ \E c \in Calls : call' = [call EXCEPT ![t] = c]
             /\ UNCHANGED <<dict, up, broken, answer>>

Return(t) == /\ answer[t] \in Answers
             /\ call' = [call EXCEPT ![t] = NoCall]
             /\ answer' = [answer EXCEPT ![t] = NoAnswer]
             /\ UNCHANGED <<dict, up, broken>>

Waiting(t, kinds) == call[t] # NoCall /\ call[t].kind \in kinds /\ answer[t] = NoAnswer

Reply(t, status, items) ==
  answer' = [answer EXCEPT ![t] = [status |-> status, items |-> items]]

-----------------------------------------------------------------------------
Live(d, S) == {k \in S : d[k] # Missing}

ItemsOf(d, S) == {<<k, d[k]>> : k \in S}

Precedes(forward, a, b) == IF forward THEN a < b ELSE b < a

\* S is what the callback may have been given of the live keys L: in order from
\* the first, without a gap, and at least one if there is one.
VisitedOf(c, L, S) ==
  /\ S \subseteq L
  /\ S = {} => L = {}
  /\ \A x \in S, y \in L : Precedes(c.forward, y, x) => y \in S
  /\ c.kind = "seek" => \A x, y \in S : x = y

\* A read is answered from the one map of this moment.
Read(t) ==
  /\ Waiting(t, {"get", "len", "scan", "seek"})
  /\ up /\ ~broken
  /\ \E d \in dict :
       LET c == call[t]
       IN \/ c.kind = "get" /\ Reply(t, "ok", ItemsOf(d, Live(d, {c.key})))
          \/ c.kind = "len" /\ Reply(t, "ok", ItemsOf(d, Live(d, Key)))
          \/ /\ c.kind \in {"scan", "seek"}
             /\ \E S \in SUBSET c.keys :
                  VisitedOf(c, Live(d, c.keys), S) /\ Reply(t, "ok", ItemsOf(d, S))
  /\ UNCHANGED <<dict, up, broken, call>>

\* The map after the write c.
After(c, d) == [d EXCEPT ![c.key] = IF c.kind = "put" THEN c.val ELSE Missing]

\* Put and Delete take effect ...
Change(t) ==
  /\ Waiting(t, {"put", "delete"})
  /\ up /\ ~broken
  /\ \E d \in dict : /\ call[t].kind = "delete" => d[call[t].key] # Missing
                     /\ dict' = {After(call[t], d)}
  /\ answer' = [answer EXCEPT ![t] = Changed]
  /\ UNCHANGED <<up, broken, call>>

\* ... and answer; a checkpoint that fails after them makes it an error.
Done(t) ==
  /\ answer[t] = Changed
  /\ \E status \in {"ok", "failed"} : Reply(t, status, {})
  /\ UNCHANGED <<dict, up, broken, call>>

DeleteAbsent(t) ==
  /\ Waiting(t, {"delete"})
  /\ up /\ ~broken
  /\ \E d \in dict : d[call[t].key] = Missing
  /\ Reply(t, "absent", {})
  /\ UNCHANGED <<dict, up, broken, call>>

\* The log refuses the record: nothing has changed.
Fail(t) ==
  /\ Waiting(t, {"put", "delete"})
  /\ up /\ ~broken
  /\ Reply(t, "failed", {})
  /\ UNCHANGED <<dict, up, broken, call>>

\* The index fails: nobody reads until the next Open, which finds the map
\* before or after the call.
Break(t) ==
  /\ Waiting(t, {"put", "delete"})
  /\ up /\ ~broken
  /\ broken' = TRUE
  /\ \E d \in dict : dict' \in (SUBSET {d, After(call[t], d)}) \ {{}}
  /\ Reply(t, "fatal", {})
  /\ UNCHANGED <<up, call>>

Refuse(t) ==
  /\ \/ ~up /\ Waiting(t, {"get", "len", "scan", "seek", "put", "delete"})
        /\ Reply(t, "closed", {})
     \/ broken /\ Waiting(t, {"get", "len", "scan", "seek", "put", "delete"})
        /\ Reply(t, "fatal", {})
     \/ ~up /\ Waiting(t, {"close"}) /\ Reply(t, "ok", {})
  /\ UNCHANGED <<dict, up, broken, call>>

\* The first Close decides what is in doubt; it fails if its checkpoint does.
Close(t) ==
  /\ Waiting(t, {"close"})
  /\ up
  /\ up' = FALSE
  /\ \E d \in dict : dict' = {d}
  /\ \/ answer' = [answer EXCEPT ![t] = Changed]
     \/ Reply(t, "failed", {})
  /\ UNCHANGED <<broken, call>>

Next == \E t \in Thread :
          \/ Invoke(t) \/ Return(t) \/ Read(t) \/ Change(t) \/ Done(t)
          \/ DeleteAbsent(t) \/ Fail(t) \/ Break(t) \/ Refuse(t) \/ Close(t)

Spec == Init /\ [][Next]_vars
=============================================================================
