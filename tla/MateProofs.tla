----------------------------- MODULE MateProofs ------------------------------
(***************************************************************************)
(* Proofs about MateEngineM, for every number of contexts and locks, every *)
(* program, quantum and slice.                                             *)
(*                                                                         *)
(* Until new code is installed, the contexts of the Mate virtual machine   *)
(* never race for a variable and never wait for each other in a circle:    *)
(* Good is inductive.  QueuesOK and ContextsOK say where a context is in   *)
(* each state, hence that Queue.enqueue never finds one in a queue; LocksOK *)
(* relates the sets of a context to the lock table; NoCircle needs no      *)
(* more than LocksOK.                                                      *)
(*                                                                         *)
(* Installations break the agreement of contexts, queues and lock table.   *)
(* What survives them: every context is in the one queue it believes to be *)
(* in and nobody is left waiting (TypesOK), and who runs asks for what it  *)
(* releases (SliceOK).                                                     *)
(***************************************************************************)
EXTENDS MateEngineM, TLAPS

Rebooting == {"reboot", "once", "startOnce"}
Starting == {"start", "once", "startOnce"}

SynchTypes ==
  /\ holder \in [Locks -> Contexts \cup {None}]
  /\ heldSet \in [Contexts -> SUBSET Locks]
  /\ releaseSet \in [Contexts -> SUBSET Locks]
  /\ acquireSet \in [Contexts -> SUBSET Locks]
  /\ usedVars \in [Contexts -> SUBSET Locks]

QueueTypes ==
  /\ state \in [Contexts -> States]
  /\ queue \in [Contexts -> Queues \cup {"none"}]
  /\ list \in [Queues -> Seq(Contexts)]

NoRepeat(s) == \A i, j \in DOMAIN s : s[i] = s[j] => i = j

Elements(s) == {s[i] : i \in DOMAIN s}

\* A context is in no queue but the one it believes to be in, and there once.
ListsOK ==
  /\ queue \in [Contexts -> Queues \cup {"none"}]
  /\ list \in [Queues -> Seq(Contexts)]
  /\ \A q \in Queues : \A c \in Elements(list[q]) : queue[c] = q
  /\ \A q \in Queues : NoRepeat(list[q])

\* A context is in the state that goes with its queue.
StateOf(q) ==
  CASE q = "run" -> {"READY"}
    [] q = "ready" -> {"WAITING"}
    [] q = "send" -> {"WAITING"}
    [] q = "none" -> {"HALT", "RUN", "BLOCKED"}

QueuesOK ==
  /\ \A c \in Contexts : state[c] \in StateOf(queue[c])
  /\ ListsOK

\* Which contexts run, sleep, send and wait to be started.
ContextsOK ==
  /\ runningContext \in Contexts \cup {None}
  /\ \A c \in Contexts : state[c] = "RUN" => c = runningContext
  /\ runningContext # None /\ task # "RunTask" => state[runningContext] = "RUN"
  /\ task = "RunTask" => runningContext # None
  /\ sleeping \subseteq Contexts
  /\ \A c \in sleeping : state[c] = "BLOCKED"
  /\ sendingContext \in Contexts \cup {None}
  /\ sendingContext # None => state[sendingContext] = "BLOCKED" /\ sendingContext \notin sleeping
  /\ todo \subseteq Contexts
  /\ \A c \in todo : state[c] = "HALT"
  /\ halting \in Contexts \cup {None}
  /\ halting # None => state[halting] = "HALT" /\ task = "RunTask"
  /\ task \in Starting => target \in Contexts \ todo /\ state[target] = "HALT"

\* The engine has been booted once, and nothing was installed.
EngineOK ==
  /\ task \in Tasks \ {"install"}
  /\ rebooting \in {0, 1} /\ behind = 0
  /\ rebooting = 1 <=> task \in Rebooting
  /\ todo # {} => task \in Rebooting
  /\ ~ inErrorState

\* What a context gives up it holds; what it will take again it gives up first,
\* and once it waits for it, it has given it up.
LocksOK ==
  /\ LocksAgree
  /\ HaltedHoldsNothing
  /\ \A c \in Contexts : releaseSet[c] \subseteq heldSet[c]
  /\ \A c \in Contexts : state[c] \in {"READY", "RUN"} \/ queue[c] = "send"
                           => acquireSet[c] \subseteq releaseSet[c]
  /\ \A c \in Contexts : state[c] = "BLOCKED" \/ queue[c] = "ready"
                           => acquireSet[c] \cap heldSet[c] = {}

Good == SynchTypes /\ QueueTypes /\ QueuesOK /\ ContextsOK /\ EngineOK /\ LocksOK /\ NoCircle

IInv == installs \in Nat /\ (installs = 0 => Good)

-----------------------------------------------------------------------------
(***************************************************************************)
(* Queues.                                                                 *)
(***************************************************************************)

\* What appending to a sequence, and taking its head away, does to its elements.
LEMMA AppendElements ==
  ASSUME NEW S, NEW s \in Seq(S), NEW x \in S
  PROVE  /\ Append(s, x) \in Seq(S)
         /\ DOMAIN s = 1 .. Len(s)
         /\ DOMAIN Append(s, x) = 1 .. Len(s) + 1
         /\ \A i \in DOMAIN s : Append(s, x)[i] = s[i]
         /\ Append(s, x)[Len(s) + 1] = x
         /\ Len(s) \in Nat
  OBVIOUS

LEMMA TailElements ==
  ASSUME NEW S, NEW s \in Seq(S), s # << >>
  PROVE  /\ Head(s) = s[1]
         /\ Head(s) \in S
         /\ Tail(s) \in Seq(S)
         /\ 1 \in DOMAIN s
         /\ \A i \in DOMAIN Tail(s) : i + 1 \in DOMAIN s /\ Tail(s)[i] = s[i + 1] /\ i # 0 /\ i \in Int
         /\ DOMAIN Tail(s) = 1 .. Len(s) - 1
  OBVIOUS

\* A sequence without repetitions keeps none when a new element is appended, and
\* when its head is taken away, which is then no longer in it.
LEMMA AppendNoRepeat ==
  ASSUME NEW S, NEW s \in Seq(S), NEW x \in S, NoRepeat(s), \A i \in DOMAIN s : s[i] # x
  PROVE  NoRepeat(Append(s, x))
  BY AppendElements DEF NoRepeat

LEMMA TailNoRepeat ==
  ASSUME NEW S, NEW s \in Seq(S), s # << >>, NoRepeat(s)
  PROVE  /\ NoRepeat(Tail(s))
         /\ \A i \in DOMAIN Tail(s) : Tail(s)[i] # Head(s)
  BY TailElements DEF NoRepeat

LEMMA AppendSet ==
  ASSUME NEW S, NEW s \in Seq(S), NEW x \in S, NoRepeat(s), x \notin Elements(s)
  PROVE  /\ Append(s, x) \in Seq(S)
         /\ NoRepeat(Append(s, x))
         /\ Elements(Append(s, x)) = Elements(s) \cup {x}
  <1>1. \A i \in DOMAIN s : s[i] # x
    BY DEF Elements
  <1>2. Elements(s) \cup {x} \subseteq Elements(Append(s, x))
    BY AppendElements DEF Elements
  <1>3. Elements(Append(s, x)) \subseteq Elements(s) \cup {x}
    BY AppendElements DEF Elements
  <1> QED BY <1>1, <1>2, <1>3, AppendElements, AppendNoRepeat

LEMMA TailSet ==
  ASSUME NEW S, NEW s \in Seq(S), s # << >>, NoRepeat(s)
  PROVE  /\ Head(s) \in S
         /\ Head(s) \in Elements(s)
         /\ Tail(s) \in Seq(S)
         /\ NoRepeat(Tail(s))
         /\ Elements(Tail(s)) = Elements(s) \ {Head(s)}
  <1>1. Elements(Tail(s)) \subseteq Elements(s) \ {Head(s)}
    BY TailElements, TailNoRepeat DEF Elements
  <1>2. ASSUME NEW i \in DOMAIN s, s[i] # Head(s)
        PROVE  s[i] \in Elements(Tail(s))
    <2>1. DOMAIN s = 1 .. Len(s) /\ Len(s) \in Nat /\ Head(s) = s[1]
      OBVIOUS
    <2>2. i - 1 \in DOMAIN Tail(s) /\ Tail(s)[i - 1] = s[i]
      BY <1>2, <2>1, TailElements
    <2> QED BY <2>2 DEF Elements
  <1>3. Elements(s) \ {Head(s)} \subseteq Elements(Tail(s))
    BY <1>2 DEF Elements
  <1>4. Head(s) \in Elements(s)
    BY TailElements DEF Elements
  <1> QED BY <1>1, <1>3, <1>4, TailElements, TailNoRepeat

LEMMA WithoutSet ==
  ASSUME NEW S, NEW s \in Seq(S), NEW c, NoRepeat(s)
  PROVE  /\ Without(s, c) \in Seq(S)
         /\ NoRepeat(Without(s, c))
         /\ Elements(Without(s, c)) = Elements(s) \ {c}
  <1>0. DOMAIN s = 1 .. Len(s) /\ Len(s) \in Nat /\ \A i \in 1 .. Len(s) : s[i] \in S
    OBVIOUS
  <1>1. CASE c \notin Elements(s)
    BY <1>1 DEF Without, Elements
  <1>2. CASE c \in Elements(s)
    <2>1. PICK k \in DOMAIN s : s[k] = c
      BY <1>2 DEF Elements
    <2> DEFINE r == [i \in 1 .. Len(s) - 1 |-> IF i < k THEN s[i] ELSE s[i + 1]]
    <2>2. {i \in DOMAIN s : s[i] = c} = {k}
      BY <2>1 DEF NoRepeat
    <2>3. Without(s, c) = r
      BY <2>2 DEF Without
    <2>4. DOMAIN r = 1 .. Len(s) - 1 /\ \A i \in DOMAIN r : r[i] \in S \ {c}
      BY <1>0, <2>1 DEF NoRepeat
    <2>5. r \in Seq(S)
      BY <1>0, <2>1, <2>4
    <2>6. NoRepeat(r)
      BY <1>0, <2>1 DEF NoRepeat
    <2>7. Elements(r) \subseteq Elements(s) \ {c}
      BY <1>0, <2>1, <2>4 DEF Elements
    <2>8. ASSUME NEW i \in DOMAIN s, s[i] # c
          PROVE  s[i] \in Elements(r)
      <3>1. CASE i < k
        BY <1>0, <2>1, <3>1 DEF Elements
      <3>2. CASE i > k
        <4>1. i - 1 \in DOMAIN r /\ r[i - 1] = s[i]
          BY <1>0, <2>1, <3>2
        <4> QED BY <4>1 DEF Elements
      <3> QED BY <1>0, <2>1, <2>8, <3>1, <3>2
    <2>9. Elements(s) \ {c} \subseteq Elements(r)
      BY <2>8 DEF Elements
    <2> QED BY <2>3, <2>5, <2>6, <2>7, <2>9
  <1> QED BY <1>1, <1>2

\* A context that is in no queue enters one.
LEMMA EnterList ==
  ASSUME ListsOK, NEW c \in Contexts, NEW q \in Queues, queue[c] = "none",
         queue' = [queue EXCEPT ![c] = q],
         list' = [list EXCEPT ![q] = Append(@, c)]
  PROVE  /\ ListsOK'
         /\ \A p \in Queues :
              Elements(list'[p]) = IF p = q THEN Elements(list[p]) \cup {c} ELSE Elements(list[p])
  <1> USE DEF ListsOK
  <1>1. \A p \in Queues : c \notin Elements(list[p])
    BY DEF Queues
  <1>2. /\ Append(list[q], c) \in Seq(Contexts)
        /\ NoRepeat(Append(list[q], c))
        /\ Elements(Append(list[q], c)) = Elements(list[q]) \cup {c}
    <2>1. list[q] \in Seq(Contexts) /\ NoRepeat(list[q])
      OBVIOUS
    <2> HIDE DEF ListsOK
    <2> QED BY <1>1, <2>1, AppendSet
  <1>3. list' \in [Queues -> Seq(Contexts)] /\ queue' \in [Contexts -> Queues \cup {"none"}]
    BY <1>2
  <1>4. \A p \in Queues :
              Elements(list'[p]) = IF p = q THEN Elements(list[p]) \cup {c} ELSE Elements(list[p])
    BY <1>2
  <1>5. \A p \in Queues : NoRepeat(list'[p])
    BY <1>2
  <1>6. \A p \in Queues : \A d \in Elements(list'[p]) : queue'[d] = p
    <2>1. \A p \in Queues : \A d \in Elements(list[p]) : d \in Contexts \ {c} /\ queue'[d] = p
      BY <1>1 DEF Elements
    <2>2. queue'[c] = q
      OBVIOUS
    <2>3. ASSUME NEW p \in Queues, NEW d \in Elements(list'[p])
          PROVE  d \in Elements(list[p]) \/ (p = q /\ d = c)
      BY <1>4, <2>3
    <2> HIDE DEF ListsOK
    <2> QED BY <2>1, <2>2, <2>3
  <1> QED BY <1>3, <1>4, <1>5, <1>6

\* The head of a queue leaves it.
LEMMA LeaveList ==
  ASSUME ListsOK, NEW q \in Queues, list[q] # << >>, NEW c \in Contexts, c = Head(list[q]),
         queue' = [queue EXCEPT ![c] = "none"],
         list' = [list EXCEPT ![q] = Tail(@)]
  PROVE  /\ ListsOK' /\ queue[c] = q /\ c \in Elements(list[q])
         /\ \A p \in Queues : Elements(list'[p]) = Elements(list[p]) \ {c}
  <1> USE DEF ListsOK
  <1>2. /\ c \in Elements(list[q]) /\ Tail(list[q]) \in Seq(Contexts)
        /\ NoRepeat(Tail(list[q]))
        /\ Elements(Tail(list[q])) = Elements(list[q]) \ {c}
    <2>1. list[q] \in Seq(Contexts) /\ NoRepeat(list[q])
      OBVIOUS
    <2> HIDE DEF ListsOK
    <2> QED BY <2>1, TailSet
  <1>1. \A p \in Queues : p # q => c \notin Elements(list[p])
    BY <1>2
  <1>3. list' \in [Queues -> Seq(Contexts)] /\ queue' \in [Contexts -> Queues \cup {"none"}]
    BY <1>2
  <1>4. \A p \in Queues : Elements(list'[p]) = Elements(list[p]) \ {c}
    BY <1>1, <1>2
  <1>5. \A p \in Queues : NoRepeat(list'[p])
    BY <1>2
  <1>6. \A p \in Queues : \A d \in Elements(list'[p]) : queue'[d] = p
    BY <1>1, <1>4, <1>3
  <1> QED BY <1>2, <1>3, <1>4, <1>5, <1>6

\* The head of a queue goes to its end.
LEMMA RotateList ==
  ASSUME ListsOK, NEW q \in Queues, list[q] # << >>, NEW c \in Contexts, c = Head(list[q]),
         queue' = queue,
         list' = [list EXCEPT ![q] = Append(Tail(@), c)]
  PROVE  /\ ListsOK' /\ queue[c] = q /\ c \in Elements(list[q])
         /\ \A p \in Queues : Elements(list'[p]) = Elements(list[p])
  <1> USE DEF ListsOK
  <1>1. /\ c \in Elements(list[q]) /\ Tail(list[q]) \in Seq(Contexts)
        /\ NoRepeat(Tail(list[q]))
        /\ Elements(Tail(list[q])) = Elements(list[q]) \ {c}
    <2>1. list[q] \in Seq(Contexts) /\ NoRepeat(list[q])
      OBVIOUS
    <2> HIDE DEF ListsOK
    <2> QED BY <2>1, TailSet
  <1>2. /\ Append(Tail(list[q]), c) \in Seq(Contexts)
        /\ NoRepeat(Append(Tail(list[q]), c))
        /\ Elements(Append(Tail(list[q]), c)) = Elements(list[q])
    <2> DEFINE t == Tail(list[q])
    <2>1. t \in Seq(Contexts) /\ NoRepeat(t) /\ c \notin Elements(t)
      BY <1>1
    <2>2. Elements(t) \cup {c} = Elements(list[q])
      BY <1>1
    <2> HIDE DEF ListsOK, t
    <2>3. Append(t, c) \in Seq(Contexts) /\ NoRepeat(Append(t, c))
          /\ Elements(Append(t, c)) = Elements(t) \cup {c}
      BY <2>1, AppendSet
    <2> QED BY <2>2, <2>3 DEF t
  <1>3. list' \in [Queues -> Seq(Contexts)]
    BY <1>2
  <1>4. \A p \in Queues : Elements(list'[p]) = Elements(list[p]) /\ NoRepeat(list'[p])
    BY <1>2
  <1> QED BY <1>1, <1>3, <1>4

\* The head of the ready queue goes to the run queue.
LEMMA MoveList ==
  ASSUME ListsOK, list["ready"] # << >>, NEW c \in Contexts, c = Head(list["ready"]),
         queue' = [queue EXCEPT ![c] = "run"],
         list' = [list EXCEPT !["ready"] = Tail(@), !["run"] = Append(@, c)]
  PROVE  /\ ListsOK' /\ queue[c] = "ready" /\ c \in Elements(list["ready"])
         /\ Elements(list'["run"]) = Elements(list["run"]) \cup {c}
  <1> USE DEF ListsOK
  <1>0. {"ready", "run"} \subseteq Queues
    BY DEF Queues
  <1>1. /\ c \in Elements(list["ready"]) /\ Tail(list["ready"]) \in Seq(Contexts)
        /\ NoRepeat(Tail(list["ready"]))
        /\ Elements(Tail(list["ready"])) = Elements(list["ready"]) \ {c}
    <2>1. list["ready"] \in Seq(Contexts) /\ NoRepeat(list["ready"])
      BY <1>0
    <2> HIDE DEF ListsOK
    <2> QED BY <2>1, TailSet
  <1>2. queue[c] = "ready" /\ c \notin Elements(list["run"])
    BY <1>0, <1>1
  <1>3. /\ Append(list["run"], c) \in Seq(Contexts)
        /\ NoRepeat(Append(list["run"], c))
        /\ Elements(Append(list["run"], c)) = Elements(list["run"]) \cup {c}
    <2>1. list["run"] \in Seq(Contexts) /\ NoRepeat(list["run"])
      BY <1>0
    <2> HIDE DEF ListsOK
    <2> QED BY <1>2, <2>1, AppendSet
  <1>4. /\ list'["ready"] = Tail(list["ready"])
        /\ list'["run"] = Append(list["run"], c)
        /\ \A p \in Queues \ {"ready", "run"} : list'[p] = list[p]
    BY <1>0
  <1>5. list' \in [Queues -> Seq(Contexts)] /\ queue' \in [Contexts -> Queues \cup {"none"}]
    BY <1>0, <1>1, <1>3
  <1>6. \A p \in Queues : NoRepeat(list'[p])
    BY <1>1, <1>3, <1>4
  <1>7. \A p \in Queues : \A d \in Elements(list'[p]) : queue'[d] = p
    <2> TAKE p \in Queues
    <2>0. \A d \in Contexts \ {c} : queue'[d] = queue[d]
      OBVIOUS
    <2>1. queue'[c] = "run"
      OBVIOUS
    <2>2. \A d \in Elements(list[p]) : d \in Contexts /\ queue[d] = p
      BY DEF Elements
    <2>3. CASE p = "ready"
      BY <1>1, <1>4, <2>0, <2>2, <2>3
    <2>4. CASE p = "run"
      BY <1>3, <1>4, <2>0, <2>1, <2>2, <2>4
    <2>5. CASE p \notin {"ready", "run"}
      BY <1>2, <1>4, <2>0, <2>2, <2>5
    <2> QED BY <2>3, <2>4, <2>5
  <1> QED BY <1>1, <1>2, <1>3, <1>4, <1>5, <1>6, <1>7

\* Queue.remove, whether the context is still in the queue or not.
LEMMA RemoveList ==
  ASSUME ListsOK, NEW c \in Contexts, RemoveFromQueue(c)
  PROVE  /\ ListsOK'
         /\ \A p \in Queues : Elements(list'[p]) = Elements(list[p]) \ {c}
  <1> USE DEF ListsOK, RemoveFromQueue
  <1>1. ASSUME NEW p \in Queues
        PROVE  /\ Elements(list'[p]) = Elements(list[p]) \ {c}
               /\ NoRepeat(list'[p])
               /\ list'[p] \in Seq(Contexts)
    <2>1. list[p] \in Seq(Contexts) /\ NoRepeat(list[p])
      OBVIOUS
    <2>2. CASE p = queue[c]
      <3>1. list'[p] = Without(list[p], c)
        BY <2>2
      <3> HIDE DEF ListsOK, RemoveFromQueue
      <3> QED BY <2>1, <3>1, WithoutSet
    <2>3. CASE p # queue[c]
      BY <2>1, <2>3
    <2> QED BY <2>2, <2>3
  <1>2. list' \in [Queues -> Seq(Contexts)] /\ queue' \in [Contexts -> Queues \cup {"none"}]
    BY <1>1
  <1>3. \A p \in Queues : \A d \in Elements(list'[p]) : queue'[d] = p
    BY <1>1, <1>2
  <1> QED BY <1>1, <1>2, <1>3

\* Queue.enqueue: the context enters the queue, or was in one, which is an error.
LEMMA EnqueueList ==
  ASSUME ListsOK, NEW c \in Contexts, NEW q \in Queues, NEW s, Enqueue(c, q, s)
  PROVE  /\ ListsOK'
         /\ \A p \in Queues \ {q} : Elements(list'[p]) = Elements(list[p])
         /\ \/ /\ queue[c] = "none"
               /\ queue' = [queue EXCEPT ![c] = q]
               /\ state' = [state EXCEPT ![c] = s]
               /\ inErrorState' = (inErrorState \/ FALSE)
               /\ \A p \in Queues :
                    Elements(list'[p]) = IF p = q THEN Elements(list[p]) \cup {c} ELSE Elements(list[p])
            \/ /\ queue[c] # "none"
               /\ UNCHANGED <<queue, list>>
               /\ state' = [state EXCEPT ![c] = "HALT"]
               /\ inErrorState'
  <1>1. CASE queue[c] = "none"
    <2>1. /\ queue' = [queue EXCEPT ![c] = q]
          /\ list' = [list EXCEPT ![q] = Append(@, c)]
          /\ state' = [state EXCEPT ![c] = s]
          /\ inErrorState' = (inErrorState \/ FALSE)
      BY <1>1 DEF Enqueue
    <2>2. /\ ListsOK'
          /\ \A p \in Queues :
               Elements(list'[p]) = IF p = q THEN Elements(list[p]) \cup {c} ELSE Elements(list[p])
      BY <1>1, <2>1, EnterList
    <2>3. \A p \in Queues \ {q} : Elements(list'[p]) = Elements(list[p])
      BY <2>2
    <2> QED BY ONLY <1>1, <2>1, <2>2, <2>3
  <1>2. CASE queue[c] # "none"
    <2>1. queue' = queue /\ list' = list
      BY <1>2 DEF Enqueue, ListsOK
    <2> QED BY <1>2, <2>1 DEF Enqueue, ListsOK
  <1> QED BY <1>1, <1>2

\* The same, with the states of the contexts.
LEMMA EnterQueue ==
  ASSUME QueueTypes, QueuesOK, NEW c \in Contexts, NEW q \in Queues, NEW s \in StateOf(q),
         queue[c] = "none",
         queue' = [queue EXCEPT ![c] = q],
         list' = [list EXCEPT ![q] = Append(@, c)],
         state' = [state EXCEPT ![c] = s]
  PROVE  QueueTypes' /\ QueuesOK'
  <1>1. ListsOK'
    BY EnterList DEF QueuesOK
  <1>2. s \in States
    BY DEF StateOf, States, Queues
  <1> QED BY <1>1, <1>2 DEF QueueTypes, QueuesOK, ListsOK

LEMMA LeaveQueue ==
  ASSUME QueueTypes, QueuesOK, NEW q \in Queues, list[q] # << >>,
         NEW c \in Contexts, c = Head(list[q]), NEW s \in StateOf("none"),
         queue' = [queue EXCEPT ![c] = "none"],
         list' = [list EXCEPT ![q] = Tail(@)],
         state' = [state EXCEPT ![c] = s]
  PROVE  QueueTypes' /\ QueuesOK' /\ queue[c] = q
  <1>1. ListsOK' /\ queue[c] = q
    BY LeaveList DEF QueuesOK
  <1>2. s \in States
    BY DEF StateOf, States
  <1> QED BY <1>1, <1>2 DEF QueueTypes, QueuesOK, ListsOK

LEMMA RotateQueue ==
  ASSUME QueueTypes, QueuesOK, NEW q \in Queues, list[q] # << >>,
         NEW c \in Contexts, c = Head(list[q]),
         list' = [list EXCEPT ![q] = Append(Tail(@), c)],
         queue' = queue, state' = state
  PROVE  QueueTypes' /\ QueuesOK' /\ queue[c] = q
  <1>1. ListsOK' /\ queue[c] = q
    BY RotateList DEF QueuesOK
  <1> QED BY <1>1 DEF QueueTypes, QueuesOK, ListsOK

LEMMA ReadyToRun ==
  ASSUME QueueTypes, QueuesOK, list["ready"] # << >>,
         NEW c \in Contexts, c = Head(list["ready"]),
         list' = [list EXCEPT !["ready"] = Tail(@), !["run"] = Append(@, c)],
         queue' = [queue EXCEPT ![c] = "run"],
         state' = [state EXCEPT ![c] = "READY"]
  PROVE  QueueTypes' /\ QueuesOK' /\ queue[c] = "ready"
  <1>1. ListsOK' /\ queue[c] = "ready"
    BY MoveList DEF QueuesOK
  <1>2. "READY" \in StateOf("run") /\ "READY" \in States
    BY DEF StateOf, States
  <1>3. \A d \in Contexts : state'[d] \in StateOf(queue'[d])
    BY <1>2 DEF QueueTypes, QueuesOK
  <1> QED BY <1>1, <1>2, <1>3 DEF QueueTypes, QueuesOK, ListsOK

\* A context in no queue changes its state.
LEMMA ChangeState ==
  ASSUME QueueTypes, QueuesOK, NEW c \in Contexts, queue[c] = "none", NEW s \in StateOf("none"),
         state' = [state EXCEPT ![c] = s], queue' = queue, list' = list
  PROVE  QueueTypes' /\ QueuesOK'
  BY DEF QueueTypes, QueuesOK, ListsOK, StateOf, States

-----------------------------------------------------------------------------
(***************************************************************************)
(* Locks.                                                                  *)
(***************************************************************************)

\* Locks that become free, or are taken by a context that then waits for none,
\* close no circle.
LEMMA FreeingKeepsNoCircle ==
  ASSUME SynchTypes, NoCircle, acquireSet' = acquireSet,
         \A l \in Locks : holder'[l] \in {holder[l], None}
  PROVE  NoCircle'
  <1>1. \A c, d \in Contexts : WaitsFor(c, d)' => WaitsFor(c, d)
    BY ContextAssumption DEF WaitsFor, SynchTypes
  <1> QED BY <1>1 DEF NoCircle

LEMMA TakingKeepsNoCircle ==
  ASSUME SynchTypes, NoCircle, NEW c \in Contexts,
         acquireSet' = [acquireSet EXCEPT ![c] = {}],
         \A l \in Locks : holder'[l] \in {holder[l], c}
  PROVE  NoCircle'
  <1>1. \A d \in Contexts : ~ WaitsFor(c, d)'
    BY DEF WaitsFor, SynchTypes
  <1>2. \A d, e \in Contexts \ {c} : WaitsFor(d, e)' => WaitsFor(d, e)
    BY DEF WaitsFor, SynchTypes
  <1>3. SUFFICES ASSUME NEW S \in (SUBSET Contexts) \ {{}}
                 PROVE  \E d \in S : \A e \in S \ {d} : ~ WaitsFor(d, e)'
    BY DEF NoCircle
  <1>4. CASE c \in S
    BY <1>1, <1>4
  <1>5. CASE c \notin S
    <2>1. PICK d \in S : \A e \in S \ {d} : ~ WaitsFor(d, e)
      BY DEF NoCircle
    <2> QED BY <2>1, <1>2, <1>5
  <1> QED BY <1>4, <1>5

\* Nothing waits for a context that holds nothing, so it may ask for any locks.
LEMMA AskingKeepsNoCircle ==
  ASSUME SynchTypes, NoCircle, LocksAgree, NEW c \in Contexts, heldSet[c] = {},
         NEW U \in SUBSET Locks,
         acquireSet' = [acquireSet EXCEPT ![c] = U],
         holder' = holder
  PROVE  NoCircle'
  <1>1. \A d \in Contexts : ~ WaitsFor(d, c)'
    BY DEF WaitsFor, SynchTypes, LocksAgree
  <1>2. \A d \in Contexts \ {c}, e \in Contexts : WaitsFor(d, e)' => WaitsFor(d, e)
    BY DEF WaitsFor, SynchTypes
  <1>3. SUFFICES ASSUME NEW S \in (SUBSET Contexts) \ {{}}
                 PROVE  \E d \in S : \A e \in S \ {d} : ~ WaitsFor(d, e)'
    BY DEF NoCircle
  <1>4. CASE S \ {c} = {}
    <2>1. PICK d \in S : TRUE
      OBVIOUS
    <2>2. \A e \in S : e = c
      BY <1>4
    <2> QED BY <2>1, <2>2
  <1>5. CASE S \ {c} # {}
    <2>1. PICK d \in S \ {c} : \A e \in (S \ {c}) \ {d} : ~ WaitsFor(d, e)
      BY <1>5 DEF NoCircle
    <2> QED BY <2>1, <1>1, <1>2
  <1> QED BY <1>4, <1>5

\* A context that asks again for a lock it holds waits for itself only.
LEMMA AskingAgainKeepsNoCircle ==
  ASSUME SynchTypes, NoCircle, LocksAgree, NEW c \in Contexts, NEW l \in heldSet[c],
         acquireSet' = [acquireSet EXCEPT ![c] = @ \cup {l}],
         holder' = holder
  PROVE  NoCircle'
  <1>1. \A d, e \in Contexts : WaitsFor(d, e)' /\ d # e => WaitsFor(d, e)
    BY DEF WaitsFor, SynchTypes, LocksAgree
  <1>2. SUFFICES ASSUME NEW S \in (SUBSET Contexts) \ {{}}
                 PROVE  \E d \in S : \A e \in S \ {d} : ~ WaitsFor(d, e)'
    BY DEF NoCircle
  <1>3. PICK d \in S : \A e \in S \ {d} : ~ WaitsFor(d, e)
    BY DEF NoCircle
  <1> QED BY <1>1, <1>3

\* What unlocking does to the sets and the table.
LEMMA UnlockStep ==
  ASSUME SynchTypes, LocksAgree, NoCircle, NEW c \in Contexts, NEW S \in SUBSET heldSet[c],
         Unlock(c, S), acquireSet' = acquireSet, usedVars' = usedVars
  PROVE  SynchTypes' /\ LocksAgree' /\ NoCircle'
  <1>1. SynchTypes'
    BY DEF SynchTypes, Unlock
  <1>2. LocksAgree'
    BY ContextAssumption DEF SynchTypes, Unlock, LocksAgree
  <1>3. NoCircle'
    BY FreeingKeepsNoCircle DEF Unlock, SynchTypes
  <1> QED BY <1>1, <1>2, <1>3

\* A context that yields gives up what it is to take again.
LEMMA YieldLocks ==
  ASSUME SynchTypes, LocksOK, NoCircle, QueueTypes, NEW c \in Contexts,
         acquireSet[c] \subseteq releaseSet[c],
         Unlock(c, releaseSet[c]), acquireSet' = acquireSet, usedVars' = usedVars,
         state' = [state EXCEPT ![c] = "BLOCKED"],
         queue'[c] = "none", \A d \in Contexts \ {c} : queue'[d] = queue[d]
  PROVE  SynchTypes' /\ LocksOK' /\ NoCircle'
  <1>1. SynchTypes' /\ LocksAgree' /\ NoCircle'
    BY UnlockStep DEF LocksOK
  <1> QED BY <1>1 DEF LocksOK, HaltedHoldsNothing, Unlock, SynchTypes, QueueTypes

\* A context that halts gives up everything.
LEMMA HaltLocks ==
  ASSUME SynchTypes, LocksOK, NoCircle, QueueTypes, NEW c \in Contexts,
         Unlock(c, heldSet[c]), acquireSet' = acquireSet, usedVars' = usedVars,
         state' = [state EXCEPT ![c] = "HALT"], queue[c] = "none", queue' = queue
  PROVE  SynchTypes' /\ LocksOK' /\ NoCircle'
  <1>1. SynchTypes' /\ LocksAgree' /\ NoCircle'
    BY UnlockStep DEF LocksOK
  <1> QED BY <1>1 DEF LocksOK, HaltedHoldsNothing, Unlock, SynchTypes, QueueTypes

\* A context whose locks are all free takes them.
LEMMA ObtainLocks ==
  ASSUME SynchTypes, LocksOK, NoCircle, QueueTypes, NEW c \in Contexts,
         isRunnable(c), obtainLocks(c), releaseSet' = releaseSet, usedVars' = usedVars,
         state' = [state EXCEPT ![c] = "READY"], queue' = [queue EXCEPT ![c] = "run"]
  PROVE  SynchTypes' /\ LocksOK' /\ NoCircle'
  <1>1. SynchTypes'
    BY DEF SynchTypes, obtainLocks
  <1>2. LocksAgree'
    BY ContextAssumption DEF SynchTypes, obtainLocks, LocksOK, LocksAgree, isRunnable
  <1>3. NoCircle'
    BY TakingKeepsNoCircle DEF obtainLocks, SynchTypes
  <1> QED BY <1>1, <1>2, <1>3 DEF LocksOK, HaltedHoldsNothing, obtainLocks, SynchTypes, QueueTypes

\* A context starts to wait in the ready queue, or for the radio.
LEMMA WaitKeepsLocks ==
  ASSUME SynchTypes, LocksOK, NoCircle, QueueTypes, NEW c \in Contexts,
         NEW q \in {"ready", "send"},
         q = "ready" => acquireSet[c] \cap heldSet[c] = {},
         q = "send" => acquireSet[c] \subseteq releaseSet[c],
         UNCHANGED <<holder, heldSet, releaseSet, acquireSet, usedVars>>,
         state' = [state EXCEPT ![c] = "WAITING"], queue' = [queue EXCEPT ![c] = q]
  PROVE  SynchTypes' /\ LocksOK' /\ NoCircle'
  <1>1. SynchTypes' /\ LocksAgree' /\ NoCircle'
    BY FreeingKeepsNoCircle DEF SynchTypes, LocksOK, LocksAgree
  <1> QED BY <1>1 DEF LocksOK, HaltedHoldsNothing, SynchTypes, QueueTypes

\* resumeContext of a context that sleeps, sends or is started.
LEMMA ResumeStep ==
  ASSUME SynchTypes, LocksOK, NoCircle, QueueTypes, QueuesOK, ~ inErrorState,
         NEW c \in Contexts, state[c] \in {"BLOCKED", "HALT"},
         resumeContext(c), usedVars' = usedVars
  PROVE  /\ SynchTypes' /\ LocksOK' /\ NoCircle' /\ QueueTypes' /\ QueuesOK'
         /\ ~ inErrorState'
         /\ \E s \in {"READY", "WAITING"} : state' = [state EXCEPT ![c] = s]
  <1>1. queue[c] = "none"
    BY DEF QueuesOK, QueueTypes, StateOf, Queues
  <1>2. acquireSet[c] \cap heldSet[c] = {}
    BY DEF LocksOK, HaltedHoldsNothing
  <1>3. CASE isRunnable(c)
    <2>1. obtainLocks(c) /\ Enqueue(c, "run", "READY") /\ releaseSet' = releaseSet
      BY <1>3 DEF resumeContext
    <2>2. "run" \in Queues /\ "READY" \in StateOf("run")
      BY DEF Queues, StateOf
    <2>3. QueueTypes' /\ QueuesOK' /\ ~ inErrorState'
      BY <1>1, <2>1, <2>2, EnterQueue DEF Enqueue
    <2> QED BY <1>1, <1>3, <2>1, <2>3, ObtainLocks DEF Enqueue
  <1>4. CASE ~ isRunnable(c)
    <2>1. /\ Enqueue(c, "ready", "WAITING")
          /\ UNCHANGED <<holder, heldSet, releaseSet, acquireSet>>
      BY <1>4 DEF resumeContext
    <2>2. "ready" \in Queues /\ "WAITING" \in StateOf("ready")
      BY DEF Queues, StateOf
    <2>3. QueueTypes' /\ QueuesOK' /\ ~ inErrorState'
      BY <1>1, <2>1, <2>2, EnterQueue DEF Enqueue
    <2> QED BY <1>1, <1>2, <2>1, <2>3, WaitKeepsLocks DEF Enqueue
  <1> QED BY <1>3, <1>4

-----------------------------------------------------------------------------
(***************************************************************************)
(* The steps, one lemma each.                                              *)
(***************************************************************************)

\* Nothing but the parts named in the hypotheses counts for these.
LEMMA LocksFrame ==
  ASSUME SynchTypes, LocksOK, NoCircle,
         UNCHANGED <<holder, heldSet, releaseSet, acquireSet, usedVars, state, queue>>
  PROVE  SynchTypes' /\ LocksOK' /\ NoCircle'
  <1>1. NoCircle'
    BY FreeingKeepsNoCircle DEF SynchTypes
  <1> QED BY <1>1 DEF SynchTypes, LocksOK, LocksAgree, HaltedHoldsNothing

LEMMA QueuesFrame ==
  ASSUME QueueTypes, QueuesOK, UNCHANGED <<state, queue, list>>
  PROVE  QueueTypes' /\ QueuesOK'
  BY DEF QueueTypes, QueuesOK, ListsOK

\* RunTask may put the context whose slice is over back into the run queue.
LEMMA RunTaskStep ==
  ASSUME Good, RunTask
  PROVE  Good'
  <1> USE DEF Good
  <1>1. /\ UNCHANGED <<holder, heldSet, releaseSet, acquireSet, yielder, start, halting,
                       target, todo, sleeping, busy, sendingContext, usedVars>>
        /\ task = "none" /\ halting = None /\ rebooting = 0 /\ rebooting' = 0 /\ behind' = 0
        /\ todo = {}
    BY DEF RunTask, opVars, Idle, EngineOK, Rebooting
  <1>2. CASE UNCHANGED <<runningContext, queue, list, state, inErrorState>> /\ task' \in {"none", "pick"}
    <2>1. ContextsOK' /\ EngineOK'
      BY <1>1, <1>2 DEF ContextsOK, EngineOK, Tasks, Rebooting, Starting
    <2> QED BY <1>1, <1>2, <2>1, LocksFrame, QueuesFrame
  <1>3. CASE /\ runningContext # None /\ runningContext' = None /\ task' = "pick"
             /\ Enqueue(runningContext, "run", "READY")
    <2> DEFINE c == runningContext
    <2>1. c \in Contexts /\ state[c] = "RUN" /\ queue[c] = "none"
      BY <1>1, <1>3 DEF ContextsOK, QueuesOK, QueueTypes, StateOf, Queues
    <2>2. "run" \in Queues /\ "READY" \in StateOf("run")
      BY DEF Queues, StateOf
    <2>3. /\ queue' = [queue EXCEPT ![c] = "run"]
          /\ list' = [list EXCEPT !["run"] = Append(@, c)]
          /\ state' = [state EXCEPT ![c] = "READY"]
          /\ ~ inErrorState'
      BY <1>3, <2>1 DEF Enqueue, EngineOK
    <2>4. QueueTypes' /\ QueuesOK'
      BY <2>1, <2>2, <2>3, EnterQueue
    <2>5. SynchTypes' /\ LocksOK' /\ NoCircle'
      <3>1. SynchTypes' /\ NoCircle'
        BY <1>1, FreeingKeepsNoCircle DEF SynchTypes
      <3> QED BY <1>1, <2>1, <2>3, <3>1
              DEF LocksOK, LocksAgree, HaltedHoldsNothing, SynchTypes, QueueTypes
    <2>6. ContextsOK'
      BY <1>1, <1>3, <2>1, <2>3 DEF ContextsOK, QueueTypes, Starting
    <2>7. EngineOK'
      BY <1>1, <1>3, <2>3 DEF EngineOK, Tasks, Rebooting
    <2> QED BY <2>4, <2>5, <2>6, <2>7
  <1> QED BY <1>1, <1>2, <1>3 DEF RunTask

LEMMA PickContextStep ==
  ASSUME Good, PickContext
  PROVE  Good'
  <1> USE DEF Good
  <1>1. /\ UNCHANGED <<holder, heldSet, releaseSet, acquireSet, inErrorState, halting,
                       target, todo, sleeping, sendingContext, usedVars, rebooting, behind>>
        /\ task = "pick" /\ halting = None /\ rebooting = 0 /\ todo = {}
    BY DEF PickContext, opVars, codeVars, Calling, EngineOK, Rebooting
  <1>2. CASE /\ UNCHANGED <<runningContext, state, queue, list>>
             /\ \/ runningContext # None /\ task' = "RunTask"
                \/ task' = "none"
    <2>1. ContextsOK' /\ EngineOK'
      BY <1>1, <1>2 DEF ContextsOK, EngineOK, Tasks, Rebooting, Starting
    <2> QED BY <1>1, <1>2, <2>1, LocksFrame, QueuesFrame
  <1>3. CASE \E c \in Contexts :
               /\ runningContext = None
               /\ list["run"] # << >>
               /\ c = Head(list["run"])
               /\ list' = [list EXCEPT !["run"] = Tail(@)]
               /\ queue' = [queue EXCEPT ![c] = "none"]
               /\ state' = [state EXCEPT ![c] = "RUN"]
               /\ runningContext' = c
               /\ task' = "RunTask"
    <2>1. PICK c \in Contexts :
               /\ runningContext = None
               /\ list["run"] # << >>
               /\ c = Head(list["run"])
               /\ list' = [list EXCEPT !["run"] = Tail(@)]
               /\ queue' = [queue EXCEPT ![c] = "none"]
               /\ state' = [state EXCEPT ![c] = "RUN"]
               /\ runningContext' = c
               /\ task' = "RunTask"
      BY <1>3
    <2>2. "run" \in Queues /\ "RUN" \in StateOf("none")
      BY DEF Queues, StateOf
    <2>3. QueueTypes' /\ QueuesOK' /\ queue[c] = "run"
      BY <2>1, <2>2, LeaveQueue
    <2>4. state[c] = "READY"
      BY <2>3 DEF QueuesOK, StateOf
    <2>5. SynchTypes' /\ LocksOK' /\ NoCircle'
      <3>1. SynchTypes' /\ NoCircle'
        BY <1>1, FreeingKeepsNoCircle DEF SynchTypes
      <3> QED BY <1>1, <2>1, <2>4, <3>1
              DEF LocksOK, LocksAgree, HaltedHoldsNothing, SynchTypes, QueueTypes
    <2>6. ContextsOK'
      BY <1>1, <2>1, <2>4, ContextAssumption DEF ContextsOK, QueueTypes, Starting
    <2>7. EngineOK'
      BY <1>1, <2>1 DEF EngineOK, Tasks, Rebooting
    <2> QED BY <2>3, <2>5, <2>6, <2>7
  <1> QED BY <1>1, <1>2, <1>3 DEF PickContext

LEMMA RunTaskReturnsStep ==
  ASSUME Good, RunTaskReturns
  PROVE  Good'
  <1> USE DEF Good
  <1>1. /\ UNCHANGED <<holder, heldSet, releaseSet, acquireSet, state, queue, list,
                       inErrorState, halting, target, todo, sleeping, sendingContext,
                       usedVars, rebooting, behind>>
        /\ task = "RunTask" /\ task' = "none" /\ halting = None
        /\ runningContext' = IF state[runningContext] # "RUN" THEN None ELSE runningContext
    BY DEF RunTaskReturns, synchVars, opVars, codeVars, Calling
  <1>2. ContextsOK'
    BY <1>1 DEF ContextsOK, Starting
  <1>3. EngineOK'
    BY <1>1 DEF EngineOK, Tasks, Rebooting
  <1> QED BY <1>1, <1>2, <1>3, LocksFrame, QueuesFrame

\* What every instruction finds and leaves.
LEMMA ExecutesFacts ==
  ASSUME Good, NEW c \in Contexts, Executes(c)
  PROVE  /\ task = "RunTask" /\ halting = None /\ yielder = None /\ c = runningContext
         /\ state[c] = "RUN" /\ queue[c] = "none" /\ todo = {} /\ rebooting = 0
         /\ c \notin sleeping /\ c # sendingContext
         /\ acquireSet[c] \subseteq releaseSet[c]
         /\ releaseSet[c] \subseteq heldSet[c]
         /\ UNCHANGED <<task, target, todo, runningContext, usedVars, rebooting, behind>>
  <1> USE DEF Good
  <1>1. /\ task = "RunTask" /\ halting = None /\ yielder = None /\ c = runningContext
        /\ state[c] = "RUN"
        /\ UNCHANGED <<task, target, todo, runningContext, usedVars, rebooting, behind>>
    BY DEF Executes, Calling, engineVars, codeVars
  <1>2. todo = {} /\ rebooting = 0
    BY <1>1 DEF EngineOK, Rebooting
  <1>3. queue[c] = "none"
    BY <1>1 DEF QueuesOK, QueueTypes, StateOf, Queues
  <1>4. c \notin sleeping /\ c # sendingContext
    BY <1>1, ContextAssumption DEF ContextsOK
  <1> QED BY <1>1, <1>2, <1>3, <1>4 DEF LocksOK

\* The access of a variable the context holds is never refused.
LEMMA GetSetVarStep ==
  ASSUME Good, NEW c \in Contexts, NEW l \in Locks, GetSetVar(c, l)
  PROVE  Good'
  <1> USE DEF Good
  <1>1. Executes(c) /\ l \in heldSet[c] /\ holder[l] = c
    BY DEF GetSetVar, LocksOK, LocksAgree
  <1>2. UNCHANGED <<holder, heldSet, releaseSet, acquireSet, state, queue, list, inErrorState,
                    halting, sleeping, sendingContext>>
    BY <1>1 DEF GetSetVar, opVars
  <1>3. ContextsOK' /\ EngineOK'
    BY <1>1, <1>2, ExecutesFacts DEF ContextsOK, EngineOK
  <1> QED BY <1>1, <1>2, <1>3, ExecutesFacts, LocksFrame, QueuesFrame

LEMMA OPunlockStep ==
  ASSUME Good, NEW c \in Contexts, NEW l \in Locks, OPunlock(c, l) \/ OPpunlock(c, l)
  PROVE  Good'
  <1> USE DEF Good
  <1>1. /\ Executes(c) /\ l \in heldSet[c]
        /\ releaseSet' = [releaseSet EXCEPT ![c] = @ \cup {l}]
        /\ \/ acquireSet' = [acquireSet EXCEPT ![c] = @ \cup {l}]
           \/ acquireSet' = acquireSet
        /\ UNCHANGED <<holder, heldSet, state, queue, list, inErrorState, halting,
                       sleeping, sendingContext>>
    BY DEF OPunlock, OPpunlock, opVars
  <1>2. /\ UNCHANGED <<task, target, todo, runningContext, usedVars, rebooting, behind>>
        /\ state[c] = "RUN" /\ queue[c] = "none"
        /\ acquireSet[c] \subseteq releaseSet[c]
        /\ releaseSet[c] \subseteq heldSet[c]
    BY <1>1, ExecutesFacts
  <1>3. ContextsOK' /\ EngineOK'
    BY <1>1, <1>2 DEF ContextsOK, EngineOK
  <1>4. SynchTypes'
    BY <1>1, <1>2 DEF SynchTypes
  <1>5. NoCircle'
    BY <1>1, FreeingKeepsNoCircle, AskingAgainKeepsNoCircle DEF LocksOK
  <1>6. LocksOK'
    BY <1>1, <1>2 DEF LocksOK, LocksAgree, HaltedHoldsNothing, SynchTypes
  <1> QED BY <1>1, <1>3, <1>4, <1>5, <1>6, QueuesFrame

\* OPsleep, and OPsend when the radio accepts: the context yields and blocks.
LEMMA BlockStep ==
  ASSUME Good, NEW c \in Contexts, Executes(c), yieldContext(c, "BLOCKED"),
         \/ sleeping' = sleeping \cup {c} /\ sendingContext' = sendingContext
         \/ sendingContext' = c /\ sleeping' = sleeping
  PROVE  Good'
  <1> USE DEF Good
  <1>1. /\ Unlock(c, releaseSet[c])
        /\ state' = [state EXCEPT ![c] = "BLOCKED"]
        /\ UNCHANGED <<acquireSet, queue, list, inErrorState, halting>>
    BY DEF yieldContext
  <1>2. SynchTypes' /\ LocksOK' /\ NoCircle'
    BY <1>1, ExecutesFacts, YieldLocks
  <1>3. QueueTypes' /\ QueuesOK'
    <2>1. "BLOCKED" \in StateOf("none")
      BY DEF StateOf
    <2> QED BY <1>1, <2>1, ExecutesFacts, ChangeState
  <1>4. ContextsOK'
    BY <1>1, ExecutesFacts, ContextAssumption DEF ContextsOK, QueueTypes, Starting
  <1>5. EngineOK'
    BY <1>1, ExecutesFacts DEF EngineOK
  <1> QED BY <1>2, <1>3, <1>4, <1>5

LEMMA OPhaltStep ==
  ASSUME Good, NEW c \in Contexts, OPhalt(c)
  PROVE  Good'
  <1> USE DEF Good
  <1>1. /\ Executes(c)
        /\ Unlock(c, heldSet[c])
        /\ state' = [state EXCEPT ![c] = "HALT"]
        /\ halting' = c
        /\ UNCHANGED <<acquireSet, queue, list, inErrorState, sleeping, sendingContext>>
    BY DEF OPhalt, haltContext, opVars
  <1>2. SynchTypes' /\ LocksOK' /\ NoCircle'
    BY <1>1, ExecutesFacts, HaltLocks
  <1>3. QueueTypes' /\ QueuesOK'
    <2>1. "HALT" \in StateOf("none")
      BY DEF StateOf
    <2> QED BY <1>1, <2>1, ExecutesFacts, ChangeState
  <1>4. ContextsOK'
    BY <1>1, ExecutesFacts, ContextAssumption DEF ContextsOK, QueueTypes, Starting
  <1>5. EngineOK'
    BY <1>1, ExecutesFacts DEF EngineOK
  <1> QED BY <1>2, <1>3, <1>4, <1>5

LEMMA WaitToSendStep ==
  ASSUME Good, NEW c \in Contexts, Executes(c), WaitToSend(c)
  PROVE  Good'
  <1> USE DEF Good
  <1>1. /\ state[c] = "RUN" /\ queue[c] = "none" /\ c = runningContext /\ task = "RunTask"
        /\ acquireSet[c] \subseteq releaseSet[c]
        /\ todo = {} /\ c \notin sleeping /\ c # sendingContext /\ halting = None
        /\ UNCHANGED <<task, target, todo, runningContext, usedVars, rebooting, behind>>
    BY ExecutesFacts
  <1>2. /\ queue' = [queue EXCEPT ![c] = "send"]
        /\ list' = [list EXCEPT !["send"] = Append(@, c)]
        /\ state' = [state EXCEPT ![c] = "WAITING"]
        /\ ~ inErrorState'
        /\ UNCHANGED <<holder, heldSet, releaseSet, acquireSet, halting, sleeping, sendingContext>>
    BY <1>1 DEF WaitToSend, Enqueue, opVars, EngineOK
  <1>3. QueueTypes' /\ QueuesOK'
    <2>1. "send" \in Queues /\ "WAITING" \in StateOf("send")
      BY DEF Queues, StateOf
    <2> QED BY <1>1, <1>2, <2>1, EnterQueue
  <1>4. SynchTypes' /\ LocksOK' /\ NoCircle'
    BY <1>1, <1>2, WaitKeepsLocks
  <1>5. ContextsOK'
    BY <1>1, <1>2 DEF ContextsOK, QueueTypes, Starting
  <1>6. EngineOK'
    BY <1>1, <1>2 DEF EngineOK
  <1> QED BY <1>3, <1>4, <1>5, <1>6

LEMMA InstructionStep ==
  ASSUME Good, NEW c \in Contexts, Instruction(c)
  PROVE  Good'
  <1>1. CASE \E l \in Locks : GetSetVar(c, l) \/ OPunlock(c, l) \/ OPpunlock(c, l)
    BY <1>1, GetSetVarStep, OPunlockStep
  <1>2. CASE OPsleep(c)
    BY <1>2, BlockStep DEF OPsleep
  <1>3. CASE OPsend(c)
    BY <1>3, BlockStep, WaitToSendStep DEF OPsend, SendAccepted
  <1>4. CASE OPhalt(c)
    BY <1>4, OPhaltStep
  <1> QED BY <1>1, <1>2, <1>3, <1>4 DEF Instruction

\* One round of yieldContext, its return, and that of haltContext.
LEMMA ResumeNextStep ==
  ASSUME Good, ResumeNext, UNCHANGED <<taskVars, engineVars, opVars, codeVars>>
  PROVE  Good'
  <1> USE DEF Good
  <1>1. PICK c \in Contexts :
          /\ list["ready"] # << >>
          /\ c = Head(list["ready"])
          /\ \/ /\ isRunnable(c)
                /\ obtainLocks(c)
                /\ state' = [state EXCEPT ![c] = "READY"]
                /\ queue' = [queue EXCEPT ![c] = "run"]
                /\ list' = [list EXCEPT !["ready"] = Tail(@), !["run"] = Append(@, c)]
             \/ /\ list' = [list EXCEPT !["ready"] = Append(Tail(@), c)]
                /\ state' = [state EXCEPT ![c] = "WAITING"]
                /\ UNCHANGED <<holder, heldSet, acquireSet, queue>>
    BY DEF ResumeNext
  <1>2. UNCHANGED <<releaseSet, inErrorState, halting, task, target, todo, runningContext,
                    sleeping, sendingContext, usedVars, rebooting, behind>>
    BY DEF ResumeNext, taskVars, engineVars, opVars, codeVars
  <1>3. EngineOK'
    BY <1>2 DEF EngineOK
  <1>4. "ready" \in Queues
    BY DEF Queues
  <1>5. CASE /\ isRunnable(c)
             /\ obtainLocks(c)
             /\ state' = [state EXCEPT ![c] = "READY"]
             /\ queue' = [queue EXCEPT ![c] = "run"]
             /\ list' = [list EXCEPT !["ready"] = Tail(@), !["run"] = Append(@, c)]
    <2>1. QueueTypes' /\ QueuesOK' /\ queue[c] = "ready"
      BY <1>1, <1>5, ReadyToRun
    <2>2. state[c] = "WAITING"
      BY <2>1 DEF QueuesOK, StateOf
    <2>3. SynchTypes' /\ LocksOK' /\ NoCircle'
      BY <1>2, <1>5, ObtainLocks
    <2>4. ContextsOK'
      BY <1>2, <1>5, <2>2 DEF ContextsOK, QueueTypes
    <2> QED BY <1>3, <2>1, <2>3, <2>4
  <1>6. CASE /\ list' = [list EXCEPT !["ready"] = Append(Tail(@), c)]
             /\ state' = [state EXCEPT ![c] = "WAITING"]
             /\ UNCHANGED <<holder, heldSet, acquireSet, queue>>
    <2>0. state' = state
      <3>1. list["ready"] \in Seq(Contexts) /\ NoRepeat(list["ready"])
        BY <1>4 DEF QueuesOK, ListsOK
      <3>2. c \in Elements(list["ready"])
        BY <1>1, <3>1, TailSet
      <3>3. state[c] = "WAITING"
        BY <1>4, <3>2 DEF QueuesOK, ListsOK, StateOf
      <3> QED BY <1>6, <3>3 DEF QueueTypes
    <2>1. QueueTypes' /\ QueuesOK'
      BY <1>1, <1>4, <1>6, <2>0, RotateQueue
    <2>2. SynchTypes' /\ LocksOK' /\ NoCircle'
      BY <1>2, <1>6, <2>0, LocksFrame
    <2>3. ContextsOK'
      BY <1>2, <1>6, <2>0 DEF ContextsOK
    <2> QED BY <1>3, <2>1, <2>2, <2>3
  <1> QED BY <1>1, <1>5, <1>6

LEMMA ReturnsStep ==
  ASSUME Good, YieldReturns \/ HaltReturns, UNCHANGED <<taskVars, engineVars, opVars, codeVars>>
  PROVE  Good'
  <1> USE DEF Good
  <1>1. /\ UNCHANGED <<holder, heldSet, releaseSet, acquireSet, state, queue, list, inErrorState,
                       task, target, todo, runningContext, sleeping, sendingContext,
                       usedVars, rebooting, behind>>
        /\ halting' \in {halting, None}
    BY DEF YieldReturns, HaltReturns, taskVars, engineVars, opVars, codeVars, ContextsOK
  <1>2. ContextsOK' /\ EngineOK'
    BY <1>1 DEF ContextsOK, EngineOK
  <1> QED BY <1>1, <1>2, LocksFrame, QueuesFrame

\* The end of a sleep.
LEMMA SleepExpiresStep ==
  ASSUME Good, NEW c \in Contexts, SleepExpires(c)
  PROVE  Good'
  <1> USE DEF Good
  <1>1. /\ resumeContext(c) /\ c \in sleeping /\ sleeping' = sleeping \ {c}
        /\ task = "none" /\ halting = None
        /\ UNCHANGED <<task, target, todo, runningContext, sendingContext, usedVars,
                       rebooting, behind, halting>>
    BY DEF SleepExpires, resumeContext, Idle, taskVars, engineVars, codeVars
  <1>2. state[c] = "BLOCKED" /\ c # sendingContext /\ c # runningContext
    BY <1>1, ContextAssumption DEF ContextsOK
  <1>3. /\ SynchTypes' /\ LocksOK' /\ NoCircle' /\ QueueTypes' /\ QueuesOK'
        /\ ~ inErrorState'
        /\ \E s \in {"READY", "WAITING"} : state' = [state EXCEPT ![c] = s]
    BY <1>1, <1>2, ResumeStep DEF EngineOK
  <1>4. ContextsOK'
    BY <1>1, <1>2, <1>3 DEF ContextsOK, QueueTypes, Starting
  <1>5. EngineOK'
    BY <1>1, <1>3 DEF EngineOK
  <1> QED BY <1>3, <1>4, <1>5

LEMMA SendDoneStep ==
  ASSUME Good, SendDone
  PROVE  Good'
  <1> USE DEF Good
  <1>1. /\ task = "none" /\ task' = "sendDone" /\ sendingContext' = None /\ halting = None
        /\ UNCHANGED <<target, todo, runningContext, sleeping, usedVars, rebooting, behind>>
        /\ IF sendingContext # None THEN resumeContext(sendingContext) ELSE UNCHANGED synchVars
    BY DEF SendDone, Idle, engineVars, codeVars
  <1>2. CASE sendingContext = None
    <2>1. UNCHANGED <<holder, heldSet, releaseSet, acquireSet, state, queue, list, inErrorState,
                      halting>>
      BY <1>1, <1>2 DEF synchVars
    <2>2. ContextsOK' /\ EngineOK'
      BY <1>1, <2>1 DEF ContextsOK, EngineOK, Tasks, Rebooting, Starting
    <2> QED BY <1>1, <2>1, <2>2, LocksFrame, QueuesFrame
  <1>3. CASE sendingContext # None
    <2> DEFINE c == sendingContext
    <2>1. /\ c \in Contexts /\ state[c] = "BLOCKED" /\ c \notin sleeping /\ c # runningContext
          /\ resumeContext(c) /\ halting' = halting
      BY <1>1, <1>3 DEF ContextsOK, resumeContext
    <2>2. /\ SynchTypes' /\ LocksOK' /\ NoCircle' /\ QueueTypes' /\ QueuesOK'
          /\ ~ inErrorState'
          /\ \E s \in {"READY", "WAITING"} : state' = [state EXCEPT ![c] = s]
      BY <1>1, <2>1, ResumeStep DEF EngineOK
    <2>3. ContextsOK'
      BY <1>1, <2>1, <2>2 DEF ContextsOK, QueueTypes, Starting
    <2>4. EngineOK'
      BY <1>1, <2>2 DEF EngineOK, Tasks, Rebooting
    <2> QED BY <2>2, <2>3, <2>4
  <1> QED BY <1>2, <1>3

\* Steps that only move from one part of a task to another.
LEMMA TaskStep ==
  ASSUME Good, OtherSendDone \/ ToRequestState \/ RebootTaskReturns
  PROVE  Good'
  <1> USE DEF Good
  <1>1. /\ UNCHANGED <<holder, heldSet, releaseSet, acquireSet, state, queue, list, inErrorState,
                       halting, target, todo, runningContext, sleeping, sendingContext, usedVars>>
        /\ \/ task = "none" /\ task' \in {"none", "sendDone"} /\ rebooting' = rebooting
           \/ task = "reboot" /\ task' = "none" /\ todo = {} /\ rebooting' = rebooting - 1
        /\ behind' = behind
    BY DEF OtherSendDone, ToRequestState, RebootTaskReturns, Idle, Calling, synchVars, taskVars,
           engineVars, opVars, codeVars
  <1>2. ContextsOK'
    BY <1>1 DEF ContextsOK, Starting
  <1>3. EngineOK'
    BY <1>1 DEF EngineOK, Tasks, Rebooting
  <1> QED BY <1>1, <1>2, <1>3, LocksFrame, QueuesFrame

\* The context that has waited longest sends, or goes to the end of its queue.
LEMMA TryNextSendStep ==
  ASSUME Good, TryNextSend
  PROVE  Good'
  <1> USE DEF Good
  <1>1. /\ task = "sendDone" /\ task' = "none" /\ halting = None /\ rebooting = 0 /\ todo = {}
        /\ UNCHANGED <<target, todo, runningContext, usedVars, rebooting, behind>>
    BY DEF TryNextSend, Calling, engineVars, codeVars, EngineOK, Rebooting
  <1>2. CASE list["send"] = << >>
    <2>1. UNCHANGED <<holder, heldSet, releaseSet, acquireSet, state, queue, list, inErrorState,
                      halting, sleeping, sendingContext>>
      BY <1>2 DEF TryNextSend, synchVars, opVars
    <2>2. ContextsOK' /\ EngineOK'
      BY <1>1, <2>1 DEF ContextsOK, EngineOK, Tasks, Rebooting, Starting
    <2> QED BY <1>1, <2>1, <2>2, LocksFrame, QueuesFrame
  <1>3. CASE list["send"] # << >>
    <2>1. PICK c \in Contexts :
            /\ c = Head(list["send"])
            /\ \/ /\ Unlock(c, releaseSet[c])
                  /\ state' = [state EXCEPT ![c] = "BLOCKED"]
                  /\ queue' = [queue EXCEPT ![c] = "none"]
                  /\ list' = [list EXCEPT !["send"] = Tail(@)]
                  /\ sendingContext' = c
                  /\ UNCHANGED <<acquireSet, inErrorState, halting, sleeping>>
               \/ /\ list' = [list EXCEPT !["send"] = Append(Tail(@), c)]
                  /\ state' = [state EXCEPT ![c] = "WAITING"]
                  /\ queue' = [queue EXCEPT ![c] = "send"]
                  /\ UNCHANGED <<holder, heldSet, releaseSet, acquireSet, inErrorState, halting,
                                 sleeping, sendingContext>>
      BY <1>3 DEF TryNextSend, opVars
    <2>2. "send" \in Queues /\ "BLOCKED" \in StateOf("none")
      BY DEF Queues, StateOf
    <2>3. /\ queue[c] = "send" /\ state[c] = "WAITING"
          /\ c \notin sleeping /\ c # runningContext
      <3>1. queue[c] = "send"
        <4>1. list["send"] \in Seq(Contexts) /\ NoRepeat(list["send"])
          BY <2>2 DEF QueuesOK, ListsOK
        <4>2. c \in Elements(list["send"])
          BY <1>3, <2>1, <4>1, TailSet
        <4> QED BY <2>2, <4>2 DEF QueuesOK, ListsOK
      <3>2. state[c] = "WAITING"
        BY <3>1 DEF QueuesOK, StateOf
      <3> QED BY <1>1, <3>1, <3>2, ContextAssumption DEF ContextsOK
    <2>4. EngineOK'
      BY <1>1, <2>1 DEF EngineOK, Tasks, Rebooting
    <2>5. CASE /\ Unlock(c, releaseSet[c])
               /\ state' = [state EXCEPT ![c] = "BLOCKED"]
               /\ queue' = [queue EXCEPT ![c] = "none"]
               /\ list' = [list EXCEPT !["send"] = Tail(@)]
               /\ sendingContext' = c
               /\ UNCHANGED <<acquireSet, inErrorState, halting, sleeping>>
      <3>1. QueueTypes' /\ QueuesOK'
        BY <1>3, <2>1, <2>2, <2>5, LeaveQueue
      <3>2. acquireSet[c] \subseteq releaseSet[c]
        BY <2>3 DEF LocksOK
      <3>3. queue'[c] = "none" /\ \A d \in Contexts \ {c} : queue'[d] = queue[d]
        BY <2>5 DEF QueueTypes
      <3>4. SynchTypes' /\ LocksOK' /\ NoCircle'
        BY <1>1, <2>5, <3>2, <3>3, YieldLocks
      <3>5. ContextsOK'
        BY <1>1, <2>3, <2>5, ContextAssumption DEF ContextsOK, QueueTypes, Starting
      <3> QED BY <2>4, <3>1, <3>4, <3>5
    <2>6. CASE /\ list' = [list EXCEPT !["send"] = Append(Tail(@), c)]
               /\ state' = [state EXCEPT ![c] = "WAITING"]
               /\ queue' = [queue EXCEPT ![c] = "send"]
               /\ UNCHANGED <<holder, heldSet, releaseSet, acquireSet, inErrorState, halting,
                              sleeping, sendingContext>>
      <3>1. state' = state /\ queue' = queue
        BY <2>3, <2>6 DEF QueueTypes
      <3>2. QueueTypes' /\ QueuesOK'
        BY <1>3, <2>1, <2>2, <2>6, <3>1, RotateQueue
      <3>3. SynchTypes' /\ LocksOK' /\ NoCircle'
        BY <1>1, <2>6, <3>1, LocksFrame
      <3>4. ContextsOK'
        BY <1>1, <2>6, <3>1 DEF ContextsOK, Starting
      <3> QED BY <2>4, <3>2, <3>3, <3>4
    <2> QED BY <2>1, <2>5, <2>6
  <1> QED BY <1>2, <1>3

\* A halted context is initialized with the locks its handler uses.
LEMMA InitializeStep ==
  ASSUME Good, NEW c \in Contexts, state[c] = "HALT", initializeContext(c, usedVars[c]),
         usedVars' = usedVars
  PROVE  /\ SynchTypes' /\ LocksOK' /\ NoCircle' /\ QueueTypes' /\ QueuesOK'
         /\ UNCHANGED <<state, queue, list, inErrorState, halting>>
  <1> USE DEF Good
  <1>1. queue[c] = "none" /\ heldSet[c] = {}
    BY DEF QueuesOK, QueueTypes, StateOf, Queues, LocksOK, HaltedHoldsNothing
  <1>2. UNCHANGED <<state, queue, list, inErrorState, halting, holder>>
    BY <1>1 DEF initializeContext, RemoveFromQueue, QueueTypes, Queues
  <1>3. /\ heldSet' = heldSet
        /\ releaseSet' = releaseSet
        /\ acquireSet' = [acquireSet EXCEPT ![c] = usedVars[c]]
    BY <1>1 DEF initializeContext, SynchTypes, LocksOK
  <1>4. usedVars[c] \in SUBSET Locks
    BY DEF SynchTypes
  <1>5. SynchTypes'
    BY <1>2, <1>3, <1>4 DEF SynchTypes
  <1>6. NoCircle'
    BY <1>1, <1>2, <1>3, <1>4, AskingKeepsNoCircle DEF LocksOK
  <1>7. LocksOK'
    BY <1>1, <1>2, <1>3 DEF LocksOK, LocksAgree, HaltedHoldsNothing, SynchTypes, QueueTypes
  <1> QED BY <1>2, <1>5, <1>6, <1>7, QueuesFrame

LEMMA ClockEventStep ==
  ASSUME Good, NEW c \in Contexts, ClockEventTask(c) \/ (c = target /\ InitializeOnce)
  PROVE  Good'
  <1> USE DEF Good
  <1>1. /\ initializeContext(c, usedVars[c]) /\ state[c] = "HALT" /\ c \notin todo
        /\ target' = c
        /\ \/ task = "none" /\ task' = "start"
           \/ task = "once" /\ task' = "startOnce"
        /\ halting = None
        /\ UNCHANGED <<todo, runningContext, sleeping, sendingContext, usedVars, rebooting, behind>>
    BY DEF ClockEventTask, InitializeOnce, Idle, Calling, engineVars, opVars, codeVars, ContextsOK,
           Starting, EngineOK, Rebooting
  <1>2. /\ SynchTypes' /\ LocksOK' /\ NoCircle' /\ QueueTypes' /\ QueuesOK'
        /\ UNCHANGED <<state, queue, list, inErrorState, halting>>
    BY <1>1, InitializeStep
  <1>3. ContextsOK'
    BY <1>1, <1>2 DEF ContextsOK, Starting
  <1>4. EngineOK'
    BY <1>1, <1>2 DEF EngineOK, Tasks, Rebooting
  <1> QED BY <1>2, <1>3, <1>4

LEMMA StartContextStep ==
  ASSUME Good, StartContext
  PROVE  Good'
  <1> USE DEF Good
  <1> DEFINE c == target
  <1>1. /\ task \in {"start", "startOnce"} /\ resumeContext(c)
        /\ task' = IF task = "start" THEN "none" ELSE "reboot"
        /\ halting = None
        /\ UNCHANGED <<target, todo, runningContext, sleeping, sendingContext, usedVars,
                       rebooting, behind, halting>>
    BY DEF StartContext, Calling, resumeContext, engineVars, opVars, codeVars
  <1>2. /\ c \in Contexts \ todo /\ state[c] = "HALT" /\ c \notin sleeping
        /\ c # sendingContext /\ c # runningContext
    BY <1>1, ContextAssumption DEF ContextsOK, Starting
  <1>3. /\ SynchTypes' /\ LocksOK' /\ NoCircle' /\ QueueTypes' /\ QueuesOK'
        /\ ~ inErrorState'
        /\ \E s \in {"READY", "WAITING"} : state' = [state EXCEPT ![c] = s]
    BY <1>1, <1>2, ResumeStep DEF EngineOK
  <1>4. ContextsOK'
    BY <1>1, <1>2, <1>3 DEF ContextsOK, QueueTypes, Starting
  <1>5. EngineOK'
    BY <1>1, <1>3 DEF EngineOK, Tasks, Rebooting
  <1> QED BY <1>3, <1>4, <1>5

\* While the engine boots, the contexts that are still to be told have halted.
LEMMA RebootedStep ==
  ASSUME Good, NEW c \in Contexts, Rebooted(c)
  PROVE  Good'
  <1> USE DEF Good
  <1>1. state[c] = "HALT" /\ c \in todo /\ task = "reboot" /\ halting = None
    BY DEF Rebooted, Calling, ContextsOK
  <1>2. /\ UNCHANGED synchVars
        /\ todo' = todo \ {c}
        /\ \/ task' = "once" /\ target' = c
           \/ UNCHANGED <<task, target>>
        /\ UNCHANGED <<runningContext, sleeping, sendingContext, usedVars, rebooting, behind>>
    BY <1>1 DEF Rebooted, engineVars, opVars
  <1>3. UNCHANGED <<holder, heldSet, releaseSet, acquireSet, state, queue, list, inErrorState,
                    halting>>
    BY <1>2 DEF synchVars
  <1>4. ContextsOK'
    BY <1>1, <1>2, <1>3 DEF ContextsOK, Starting
  <1>5. EngineOK'
    BY <1>1, <1>2, <1>3 DEF EngineOK, Tasks, Rebooting
  <1> QED BY <1>2, <1>3, <1>4, <1>5, LocksFrame, QueuesFrame

-----------------------------------------------------------------------------
(***************************************************************************)
(* The theorems.                                                           *)
(***************************************************************************)

LEMMA GoodInit ==
  ASSUME Init
  PROVE  Good
  <1> USE DEF Init, SynchInit
  <1>1. SynchTypes
    BY EngineAssumption DEF SynchTypes
  <1>2. QueueTypes /\ QueuesOK
    BY DEF QueueTypes, QueuesOK, ListsOK, Elements, NoRepeat, StateOf, States, Queues
  <1>3. ContextsOK /\ EngineOK
    BY DEF ContextsOK, EngineOK, Tasks, Rebooting, Starting
  <1>4. LocksOK
    BY ContextAssumption DEF LocksOK, LocksAgree, HaltedHoldsNothing
  <1>5. NoCircle
    BY DEF NoCircle, WaitsFor
  <1> QED BY <1>1, <1>2, <1>3, <1>4, <1>5 DEF Good

LEMMA GoodStep ==
  ASSUME Good, Next, installs' = installs, installs \in Nat
  PROVE  Good'
  <1>1. CASE Continue
    BY <1>1, ResumeNextStep, ReturnsStep DEF Continue
  <1>2. CASE RunTask \/ PickContext \/ RunTaskReturns
    BY <1>2, RunTaskStep, PickContextStep, RunTaskReturnsStep
  <1>3. CASE \E c \in Contexts : Instruction(c) \/ SleepExpires(c) \/ ClockEventTask(c)
    BY <1>3, InstructionStep, SleepExpiresStep, ClockEventStep
  <1>4. CASE SendDone \/ OtherSendDone \/ TryNextSend
    BY <1>4, SendDoneStep, TaskStep, TryNextSendStep
  <1>5. CASE StartContext \/ ToRequestState \/ RebootTaskReturns
    BY <1>5, StartContextStep, TaskStep
  <1>6. CASE InitializeOnce
    <2>1. target \in Contexts
      BY <1>6 DEF InitializeOnce, Calling, Good, ContextsOK, Starting
    <2> QED BY <1>6, <2>1, ClockEventStep
  <1>7. CASE Reboot \/ RebootTask
    BY <1>7 DEF Reboot, RebootTask, Calling, Idle, Good, EngineOK, Rebooting
  <1>8. CASE \E c \in Installable : CapsuleInstalled(c)
    BY <1>8 DEF CapsuleInstalled
  <1>9. CASE \E c \in Contexts : Rebooted(c)
    BY <1>9, RebootedStep
  <1> QED BY <1>1, <1>2, <1>3, <1>4, <1>5, <1>6, <1>7, <1>8, <1>9 DEF Next

\* Nothing but an installation counts installs.
LEMMA InstallsStep ==
  ASSUME [Next]_vars
  PROVE  installs' \in {installs, installs + 1}
  <1> USE DEF codeVars
  <1>1. CASE Continue \/ UNCHANGED vars
    BY <1>1 DEF Continue, vars
  <1>2. CASE RunTask \/ PickContext \/ RunTaskReturns
    BY <1>2 DEF RunTask, PickContext, RunTaskReturns
  <1>3. CASE \E c \in Contexts : Instruction(c) \/ SleepExpires(c) \/ ClockEventTask(c)
    <2>1. ASSUME NEW c \in Contexts, Executes(c)
          PROVE  installs' = installs
      BY <2>1 DEF Executes
    <2> QED BY <1>3, <2>1 DEF Instruction, GetSetVar, OPunlock, OPpunlock, OPsleep, OPsend, OPhalt,
                              SleepExpires, ClockEventTask
  <1>4. CASE SendDone \/ OtherSendDone \/ TryNextSend
    BY <1>4 DEF SendDone, OtherSendDone, TryNextSend
  <1>5. CASE StartContext \/ ToRequestState \/ RebootTaskReturns \/ InitializeOnce
    BY <1>5 DEF StartContext, ToRequestState, RebootTaskReturns, InitializeOnce
  <1>6. CASE Reboot \/ RebootTask
    BY <1>6 DEF Reboot, RebootTask
  <1>7. CASE \E c \in Installable : CapsuleInstalled(c)
    BY <1>7 DEF CapsuleInstalled
  <1>8. CASE \E c \in Contexts : Rebooted(c)
    BY <1>8 DEF Rebooted
  <1> QED BY <1>1, <1>2, <1>3, <1>4, <1>5, <1>6, <1>7, <1>8 DEF Next

\* Until new code is installed, Good holds.
LEMMA Inductive == Spec => []IInv
  <1>1. Init => IInv
    <2>1. Init => Good
      BY GoodInit
    <2>2. Init => installs = 0
      BY DEF Init
    <2> QED BY <2>1, <2>2 DEF IInv
  <1>2. IInv /\ [Next]_vars => IInv'
    <2> SUFFICES ASSUME IInv, [Next]_vars
                 PROVE  IInv'
      OBVIOUS
    <2>1. installs \in Nat /\ installs' \in {installs, installs + 1}
      BY InstallsStep DEF IInv
    <2>2. SUFFICES ASSUME installs' = 0
                   PROVE  Good'
      BY <2>1 DEF IInv
    <2>3. installs = 0 /\ Good
      BY <2>1, <2>2 DEF IInv
    <2>4. CASE Next
      BY <2>1, <2>2, <2>3, <2>4, GoodStep
    <2>5. CASE UNCHANGED vars
      <3>1. UNCHANGED <<holder, heldSet, releaseSet, acquireSet, usedVars, state, queue, list,
                        inErrorState, halting, task, target, todo, runningContext, sleeping,
                        sendingContext, rebooting, behind>>
        BY <2>5 DEF vars, synchVars, taskVars, engineVars, opVars, codeVars
      <3>2. ContextsOK' /\ EngineOK'
        BY <2>3, <3>1 DEF Good, ContextsOK, EngineOK
      <3> QED BY <2>3, <3>1, <3>2, LocksFrame, QueuesFrame DEF Good
    <2> QED BY <2>4, <2>5
  <1> QED BY <1>1, <1>2, PTL DEF Spec

(***************************************************************************)
(* MContextSynch never lets two contexts use a variable at the same time:  *)
(* until new code is installed, what the contexts believe to hold is what  *)
(* the lock table says, halted contexts hold nothing, and no instruction   *)
(* is refused its variable.                                                *)
(***************************************************************************)
THEOREM MateRaceFree == Spec => []RaceFree
  <1>1. IInv => RaceFree
    BY DEF IInv, Good, LocksOK, EngineOK, RaceFree
  <1> QED BY <1>1, Inductive, PTL

(***************************************************************************)
(* Taking all locks at once, and giving up at a yield whatever will be     *)
(* taken again, keeps contexts from waiting for each other in a circle     *)
(* (MContextSynch.resumeContext and yieldContext).                         *)
(***************************************************************************)
THEOREM MateDeadlockFree == Spec => []DeadlockFree
  <1>1. ASSUME IInv PROVE DeadlockFree
    <2>1. SUFFICES ASSUME installs = 0, NEW c \in Contexts, queue[c] = "ready"
                   PROVE  ~ WaitsFor(c, c)
      BY <1>1 DEF IInv, Good, DeadlockFree
    <2>2. acquireSet[c] \cap heldSet[c] = {}
      BY <1>1, <2>1 DEF IInv, Good, LocksOK
    <2> QED BY <1>1, <2>1, <2>2 DEF IInv, Good, LocksOK, LocksAgree, SynchTypes, WaitsFor
  <1> QED BY <1>1, Inductive, PTL

-----------------------------------------------------------------------------
(***************************************************************************)
(* After installations too: MContextSynch (SynchOK).                       *)
(*                                                                         *)
(* Who gives up locks looks through the ready queue: the contexts from     *)
(* start to the end of the queue have been tried, and cannot run.          *)
(***************************************************************************)

ReadyOK ==
  LET ready == list["ready"]
  IN  IF yielder = None
        THEN \A c \in Elements(ready) : ~ isRunnable(c)
        ELSE \/ start = None
             \/ \E k \in DOMAIN ready :
                  /\ ready[k] = start
                  /\ \A j \in DOMAIN ready : j >= k => ~ isRunnable(ready[j])

Owner == Contexts \cup {None}

SynchOK ==
  /\ SynchTypes
  /\ state \in [Contexts -> States]
  /\ ListsOK
  /\ yielder \in Owner /\ start \in Owner /\ halting \in Owner
  /\ taskRunning \in BOOLEAN /\ inErrorState \in BOOLEAN
  /\ ReadyOK

\* While no yield is under way, contexts that wait go on waiting if no lock
\* becomes free and none asks for less.
LEMMA ReadyKept ==
  ASSUME ReadyOK, yielder = None, yielder' = None,
         \A c \in Elements(list'["ready"]) :
            \/ /\ c \in Elements(list["ready"])
               /\ acquireSet[c] \subseteq acquireSet'[c]
               /\ \A l \in acquireSet[c] : holder'[l] = None => holder[l] = None
            \/ \E l \in acquireSet'[c] : holder'[l] # None
  PROVE  ReadyOK'
  <1>1. ASSUME NEW c \in Elements(list'["ready"])
        PROVE  \E l \in acquireSet'[c] : holder'[l] # None
    <2>1. CASE /\ c \in Elements(list["ready"])
               /\ acquireSet[c] \subseteq acquireSet'[c]
               /\ \A l \in acquireSet[c] : holder'[l] = None => holder[l] = None
      <3>1. ~ isRunnable(c)
        BY <2>1 DEF ReadyOK
      <3> QED BY <2>1, <3>1 DEF isRunnable
    <2> QED BY <1>1, <2>1
  <1>2. \A c \in Elements(list'["ready"]) : ~ (\A l \in acquireSet'[c] : holder'[l] = None)
    BY <1>1
  <1> QED BY <1>2 DEF ReadyOK, isRunnable

\* The parts of a step that leave the contexts alone.
LEMMA SynchFrame ==
  ASSUME SynchOK,
         UNCHANGED <<holder, heldSet, releaseSet, acquireSet, state, queue, list, inErrorState,
                     yielder, start, halting>>,
         taskRunning' \in BOOLEAN, usedVars' \in [Contexts -> SUBSET Locks]
  PROVE  SynchOK'
  <1>1. SynchTypes' /\ ListsOK'
    BY DEF SynchOK, SynchTypes, ListsOK
  <1>2. ReadyOK'
    BY DEF SynchOK, ReadyOK, isRunnable
  <1> QED BY <1>1, <1>2 DEF SynchOK

\* A context goes back to the run queue, or waits for the radio.
LEMMA EnqueueOK ==
  ASSUME SynchOK, yielder = None, NEW c \in Contexts, NEW q \in {"run", "send"}, NEW s \in States,
         Enqueue(c, q, s),
         UNCHANGED <<holder, heldSet, releaseSet, acquireSet, usedVars, taskRunning, yielder,
                     start, halting>>
  PROVE  SynchOK'
  <1> USE DEF SynchOK
  <1>1. q \in Queues /\ "ready" \in Queues /\ q # "ready"
    BY DEF Queues
  <1>2. ListsOK'
    BY <1>1, EnqueueList
  <1>3. Elements(list'["ready"]) = Elements(list["ready"])
    BY <1>1, EnqueueList
  <1>4. state' \in [Contexts -> States] /\ inErrorState' \in BOOLEAN
    BY DEF Enqueue, States
  <1>5. SynchTypes'
    BY DEF SynchTypes
  <1>6. ReadyOK'
    BY <1>3, ReadyKept
  <1> QED BY <1>2, <1>4, <1>5, <1>6

\* A context gets its locks and runs, or waits for them.
LEMMA ResumeOK ==
  ASSUME SynchOK, yielder = None, NEW c \in Contexts, resumeContext(c), usedVars' = usedVars
  PROVE  SynchOK' /\ yielder' = None /\ halting' = halting
  <1> USE DEF SynchOK
  <1>0. /\ {"ready", "run"} \subseteq Queues /\ {"READY", "WAITING", "HALT"} \subseteq States
        /\ UNCHANGED <<releaseSet, yielder, start, halting>>
    BY DEF Queues, States, resumeContext
  <1>1. CASE isRunnable(c)
    <2>1. obtainLocks(c) /\ Enqueue(c, "run", "READY") /\ taskRunning' = TRUE
      BY <1>1 DEF resumeContext
    <2>2. ListsOK' /\ Elements(list'["ready"]) = Elements(list["ready"])
      <3>1. "ready" \in Queues \ {"run"} /\ "run" \in Queues
        BY <1>0
      <3> HIDE DEF SynchOK
      <3> QED BY <2>1, <3>1, EnqueueList DEF SynchOK
    <2>3. c \notin Elements(list["ready"])
      BY <1>1 DEF ReadyOK
    <2>4. \A d \in Elements(list["ready"]) : d \in Contexts \ {c}
      BY <1>0, <2>3 DEF ListsOK, Elements
    <2>5. \A d \in Elements(list["ready"]) :
             /\ acquireSet[d] = acquireSet'[d]
             /\ \A l \in acquireSet[d] : holder'[l] = None => holder[l] = None
      BY <2>1, <2>4, ContextAssumption DEF obtainLocks, SynchTypes
    <2>6. ReadyOK'
      BY <1>0, <2>2, <2>5, ReadyKept
    <2>7. SynchTypes'
      BY <1>0, <2>1 DEF SynchTypes, obtainLocks
    <2>8. state' \in [Contexts -> States] /\ inErrorState' \in BOOLEAN
      BY <1>0, <2>1 DEF Enqueue
    <2> QED BY <1>0, <2>1, <2>2, <2>6, <2>7, <2>8
  <1>2. CASE ~ isRunnable(c)
    <2>1. /\ Enqueue(c, "ready", "WAITING")
          /\ UNCHANGED <<holder, heldSet, acquireSet, taskRunning>>
      BY <1>2 DEF resumeContext
    <2>2. ListsOK' /\ Elements(list'["ready"]) \subseteq Elements(list["ready"]) \cup {c}
      BY <1>0, <2>1, EnqueueList
    <2>3. \E l \in acquireSet'[c] : holder'[l] # None
      BY <1>2, <2>1 DEF isRunnable
    <2>4. ReadyOK'
      BY <1>0, <2>1, <2>2, <2>3, ReadyKept
    <2>5. SynchTypes'
      BY <1>0, <2>1 DEF SynchTypes
    <2>6. state' \in [Contexts -> States] /\ inErrorState' \in BOOLEAN
      BY <1>0, <2>1 DEF Enqueue
    <2> QED BY <1>0, <2>1, <2>2, <2>4, <2>5, <2>6
  <1> QED BY <1>1, <1>2

\* A context that yields or halts begins to look through the ready queue.
LEMMA YieldOK ==
  ASSUME SynchOK, NEW c \in Contexts, NEW s \in States,
         \/ yieldContext(c, s) /\ usedVars' = usedVars
         \/ haltContext(c, s) /\ usedVars' \in [Contexts -> SUBSET Locks]
  PROVE  SynchOK'
  <1> USE DEF SynchOK
  <1>1. /\ \E S \in {releaseSet[c], heldSet[c]} : Unlock(c, S)
        /\ state' = [state EXCEPT ![c] = s]
        /\ yielder' = c /\ start' = None
        /\ halting' \in {halting, c}
        /\ UNCHANGED <<acquireSet, queue, list, taskRunning, inErrorState>>
        /\ usedVars' \in [Contexts -> SUBSET Locks]
    BY DEF yieldContext, haltContext, SynchTypes
  <1>2. SynchTypes'
    BY <1>1 DEF SynchTypes, Unlock
  <1>3. ListsOK'
    BY <1>1 DEF ListsOK
  <1>4. ReadyOK'
    BY <1>1, ContextAssumption DEF ReadyOK
  <1> QED BY <1>1, <1>2, <1>3, <1>4 DEF Owner

\* A context is initialized; it waits for nothing before it is started.
LEMMA InitializeOK ==
  ASSUME SynchOK, yielder = None, NEW c \in Contexts, NEW U \in SUBSET Locks,
         initializeContext(c, U), usedVars' = usedVars
  PROVE  SynchOK'
  <1> USE DEF SynchOK
  <1>0. "ready" \in Queues /\ "HALT" \in States
    BY DEF Queues, States
  <1>1. /\ RemoveFromQueue(c)
        /\ heldSet' = [heldSet EXCEPT ![c] = {}]
        /\ releaseSet' = [releaseSet EXCEPT ![c] = {}]
        /\ acquireSet' = [acquireSet EXCEPT ![c] = U]
        /\ state' = [state EXCEPT ![c] = "HALT"]
        /\ UNCHANGED <<holder, taskRunning, inErrorState, yielder, start, halting>>
    BY DEF initializeContext
  <1>2. ListsOK' /\ Elements(list'["ready"]) = Elements(list["ready"]) \ {c}
    BY <1>0, <1>1, RemoveList
  <1>3. SynchTypes'
    BY <1>1 DEF SynchTypes
  <1>4. \A d \in Elements(list["ready"]) : d \in Contexts
    BY <1>0 DEF ListsOK, Elements
  <1>5. \A d \in Elements(list'["ready"]) : d \in Elements(list["ready"]) /\ acquireSet[d] = acquireSet'[d]
    BY <1>1, <1>2, <1>4 DEF SynchTypes
  <1>6. ReadyOK'
    BY <1>1, <1>5, ReadyKept
  <1>7. state' \in [Contexts -> States]
    BY <1>0, <1>1
  <1> QED BY <1>1, <1>2, <1>3, <1>6, <1>7

LEMMA HaltReturnsOK ==
  ASSUME SynchOK, HaltReturns, usedVars' = usedVars
  PROVE  SynchOK'
  <1> USE DEF SynchOK
  <1>0. /\ "ready" \in Queues /\ "HALT" \in States
        /\ UNCHANGED <<holder, heldSet, releaseSet, acquireSet, taskRunning, inErrorState, yielder,
                       start>>
        /\ yielder = None /\ halting \in Contexts /\ halting' = None
    BY DEF Queues, States, HaltReturns, Owner
  <1>1. SynchTypes'
    BY <1>0 DEF SynchTypes
  <1>2. CASE UNCHANGED <<state, queue, list>>
    <2>1. ListsOK'
      BY <1>2 DEF ListsOK
    <2>2. ReadyOK'
      BY <1>0, <1>2, ReadyKept
    <2> QED BY <1>0, <1>1, <1>2, <2>1, <2>2 DEF Owner
  <1>3. CASE state' = [state EXCEPT ![halting] = "HALT"] /\ RemoveFromQueue(halting)
    <2>1. ListsOK' /\ Elements(list'["ready"]) = Elements(list["ready"]) \ {halting}
      BY <1>0, <1>3, RemoveList
    <2>2. ReadyOK'
      BY <1>0, <2>1, ReadyKept
    <2>3. state' \in [Contexts -> States]
      BY <1>0, <1>3
    <2> QED BY <1>0, <1>1, <2>1, <2>2, <2>3 DEF Owner
  <1> QED BY <1>2, <1>3 DEF HaltReturns

LEMMA YieldReturnsOK ==
  ASSUME SynchOK, YieldReturns, usedVars' = usedVars
  PROVE  SynchOK'
  <1> USE DEF SynchOK, YieldReturns
  <1>1. SynchTypes' /\ ListsOK'
    BY DEF SynchTypes, ListsOK
  <1>2. Elements(list'["ready"]) = {}
    BY DEF Elements
  <1>3. ReadyOK'
    BY <1>2 DEF ReadyOK
  <1> QED BY <1>1, <1>3 DEF Owner

\* What rotating a queue does to the contexts from one of them on.
LEMMA RotateSuffix ==
  ASSUME NEW S, NEW s \in Seq(S), s # << >>, NEW h, h = Head(s),
         NEW t, t = Append(Tail(s), h)
  PROVE  /\ DOMAIN t = DOMAIN s
         /\ DOMAIN s = 1 .. Len(s) /\ Len(s) \in Nat \ {0}
         /\ t[Len(s)] = h
         /\ \A i \in 2 .. Len(s) : t[i - 1] = s[i]
  OBVIOUS

\* One round: the head of the ready queue runs, or is tried later again.
LEMMA ResumeNextOK ==
  ASSUME SynchOK, ResumeNext, usedVars' = usedVars
  PROVE  SynchOK'
  <1> USE DEF SynchOK
  <1> DEFINE ready == list["ready"]
  <1>0. /\ {"ready", "run"} \subseteq Queues /\ "READY" \in States
        /\ yielder # None /\ ready # << >> /\ ready \in Seq(Contexts)
        /\ UNCHANGED <<releaseSet, inErrorState, halting>>
    BY DEF Queues, States, ResumeNext, ListsOK
  <1>1. PICK c \in Contexts :
          /\ c = Head(ready)
          /\ \/ /\ isRunnable(c)
                /\ obtainLocks(c)
                /\ state' = [state EXCEPT ![c] = "READY"]
                /\ queue' = [queue EXCEPT ![c] = "run"]
                /\ list' = [list EXCEPT !["ready"] = Tail(@), !["run"] = Append(@, c)]
                /\ taskRunning' = TRUE
                /\ UNCHANGED <<yielder, start>>
             \/ /\ ~ isRunnable(c)
                /\ list' = [list EXCEPT !["ready"] = Append(Tail(@), c)]
                /\ yielder' = IF start = c THEN None ELSE yielder
                /\ start' = IF start = None THEN c ELSE start
                /\ state' = [state EXCEPT ![c] = "WAITING"]
                /\ UNCHANGED <<holder, heldSet, acquireSet, queue, taskRunning>>
    BY DEF ResumeNext
  <1>2. \A i \in DOMAIN ready : ready[i] \in Contexts
    BY <1>0
  <1>3. CASE /\ isRunnable(c)
             /\ obtainLocks(c)
             /\ state' = [state EXCEPT ![c] = "READY"]
             /\ queue' = [queue EXCEPT ![c] = "run"]
             /\ list' = [list EXCEPT !["ready"] = Tail(@), !["run"] = Append(@, c)]
             /\ taskRunning' = TRUE
             /\ UNCHANGED <<yielder, start>>
    <2>1. ListsOK'
      BY <1>0, <1>1, <1>3, MoveList
    <2>2. SynchTypes'
      BY <1>0, <1>3 DEF SynchTypes, obtainLocks
    <2>3. list'["ready"] = Tail(ready)
      BY <1>0, <1>3 DEF ListsOK
    <2>4. ASSUME NEW d \in Contexts \ {c}, ~ isRunnable(d)
          PROVE  ~ (\A l \in acquireSet'[d] : holder'[l] = None)
      BY <1>3, <2>4, ContextAssumption DEF isRunnable, obtainLocks, SynchTypes
    <2>5. \A i \in DOMAIN Tail(ready) :
            Tail(ready)[i] # c /\ i + 1 \in DOMAIN ready /\ Tail(ready)[i] = ready[i + 1] /\ i \in Int
      BY <1>0, <1>1, TailElements, TailNoRepeat DEF ListsOK
    <2>6. ASSUME start # None
          PROVE  \E k \in DOMAIN Tail(ready) :
                   /\ Tail(ready)[k] = start
                   /\ \A j \in DOMAIN Tail(ready) :
                        j >= k => ~ (\A l \in acquireSet'[Tail(ready)[j]] : holder'[l] = None)
      <3>1. PICK k \in DOMAIN ready :
              ready[k] = start /\ \A j \in DOMAIN ready : j >= k => ~ isRunnable(ready[j])
        BY <1>0, <2>6 DEF ReadyOK
      <3>2. k # 1
        <4>1. ready[1] = c /\ 1 \in DOMAIN ready
          BY <1>0, <1>1, TailElements
        <4> QED BY <1>3, <3>1, <4>1
      <3>3. k - 1 \in DOMAIN Tail(ready) /\ Tail(ready)[k - 1] = ready[k] /\ k \in Int
        BY <1>0, <3>1, <3>2, TailElements
      <3>4. ASSUME NEW j \in DOMAIN Tail(ready), j >= k - 1
            PROVE  ~ (\A l \in acquireSet'[Tail(ready)[j]] : holder'[l] = None)
        <4>1. ~ isRunnable(ready[j + 1]) /\ ready[j + 1] \in Contexts \ {c} /\ Tail(ready)[j] = ready[j + 1]
          BY <1>2, <2>5, <3>1, <3>3, <3>4
        <4> QED BY <2>4, <4>1
      <3> QED BY <3>1, <3>3, <3>4
    <2>7. ReadyOK'
      BY <1>0, <1>3, <2>3, <2>6 DEF ReadyOK, isRunnable
    <2>8. state' \in [Contexts -> States]
      BY <1>0, <1>3
    <2> QED BY <1>0, <1>3, <2>1, <2>2, <2>7, <2>8
  <1>4. CASE /\ ~ isRunnable(c)
             /\ list' = [list EXCEPT !["ready"] = Append(Tail(@), c)]
             /\ yielder' = IF start = c THEN None ELSE yielder
             /\ start' = IF start = None THEN c ELSE start
             /\ state' = [state EXCEPT ![c] = "WAITING"]
             /\ UNCHANGED <<holder, heldSet, acquireSet, queue, taskRunning>>
    <2>0. state' \in [Contexts -> States]
      BY <1>0, <1>4 DEF States
    <2>1. ListsOK' /\ Elements(list'["ready"]) = Elements(ready)
      BY <1>0, <1>1, <1>4, RotateList
    <2>2. SynchTypes'
      BY <1>0, <1>4 DEF SynchTypes
    <2> DEFINE t == Append(Tail(ready), c)
    <2>3. list'["ready"] = t
      BY <1>0, <1>4 DEF ListsOK
    <2>4. /\ DOMAIN t = DOMAIN ready
          /\ DOMAIN ready = 1 .. Len(ready) /\ Len(ready) \in Nat \ {0}
          /\ t[Len(ready)] = c
          /\ \A i \in 2 .. Len(ready) : t[i - 1] = ready[i]
      BY <1>0, <1>1, RotateSuffix
    <2>5. ready[1] = c /\ NoRepeat(ready)
      BY <1>0, <1>1 DEF ListsOK
    <2>6. CASE start = None
      <3>1. /\ t[Len(ready)] = start' /\ Len(ready) \in DOMAIN t
            /\ \A j \in DOMAIN t : j >= Len(ready) => ~ isRunnable(t[j])
        BY <1>4, <2>4, <2>6
      <3>2. yielder' # None /\ start' # None
        BY <1>0, <1>4, <2>6, ContextAssumption
      <3> HIDE DEF t
      <3>3. ReadyOK'
        BY <1>4, <2>3, <3>1, <3>2 DEF ReadyOK, isRunnable
      <3> QED BY <1>0, <1>4, <2>0, <2>1, <2>2, <3>3 DEF Owner
    <2>7. CASE start # None
      <3>1. PICK k \in DOMAIN ready :
              ready[k] = start /\ \A j \in DOMAIN ready : j >= k => ~ isRunnable(ready[j])
        BY <1>0, <2>7 DEF ReadyOK
      <3>2. CASE start = c
        <4>1. k = 1
          BY <2>4, <2>5, <3>1, <3>2 DEF NoRepeat
        <4>2. \A d \in Elements(ready) : ~ isRunnable(d)
          BY <2>4, <3>1, <4>1 DEF Elements
        <4>3. ReadyOK'
          BY <1>4, <2>1, <3>2, <4>2 DEF ReadyOK, isRunnable
        <4> QED BY <1>0, <1>4, <2>0, <2>1, <2>2, <4>3 DEF Owner
      <3>3. CASE start # c
        <4>1. k \in 2 .. Len(ready)
          BY <2>4, <2>5, <3>1, <3>3
        <4>2. k - 1 \in DOMAIN t /\ t[k - 1] = start
          BY <2>4, <3>1, <4>1
        <4>3. ASSUME NEW j \in DOMAIN t, j >= k - 1
              PROVE  ~ isRunnable(t[j])
          <5>1. CASE j = Len(ready)
            BY <1>4, <2>4, <5>1
          <5>2. CASE j # Len(ready)
            <6>1. j + 1 \in 2 .. Len(ready) /\ j + 1 >= k
              BY <2>4, <4>1, <4>3, <5>2
            <6>2. t[j] = ready[j + 1] /\ ~ isRunnable(ready[j + 1])
              BY <2>4, <3>1, <6>1
            <6> QED BY <6>2
          <5> QED BY <5>1, <5>2
        <4>4. yielder' # None /\ start' = start
          BY <1>0, <1>4, <2>7, <3>3
        <4> HIDE DEF t
        <4>5. \E m \in DOMAIN t :
                 /\ t[m] = start'
                 /\ \A j \in DOMAIN t :
                      j >= m => ~ (\A l \in acquireSet'[t[j]] : holder'[l] = None)
          BY <1>4, <4>2, <4>3, <4>4 DEF isRunnable
        <4>6. ReadyOK'
          BY ONLY <2>3, <4>4, <4>5 DEF ReadyOK, isRunnable
        <4> QED BY <1>0, <1>4, <2>0, <2>1, <2>2, <4>4, <4>6
      <3> QED BY <3>2, <3>3
    <2> QED BY <2>6, <2>7
  <1> QED BY <1>1, <1>3, <1>4

-----------------------------------------------------------------------------
(***************************************************************************)
(* After installations too: the engine around it (TypesOK).                *)
(***************************************************************************)

TasksOK ==
  /\ task \in Tasks
  /\ target \in Owner /\ runningContext \in Owner /\ sendingContext \in Owner
  /\ todo \subseteq Contexts /\ sleeping \subseteq Contexts /\ hasRun \subseteq Contexts
  /\ busy \in BOOLEAN
  /\ instructions \in 0 .. Quantum
  /\ iCount \in 0 .. Slice
  /\ halted \in {"no", "asked", "seen"}
  /\ installs \in 0 .. MaxInstalls
  /\ task \in Starting => target # None
  /\ task = "RunTask" => runningContext # None

TypesOK == SynchOK /\ TasksOK

LEMMA Bounds == Quantum \in Nat \ {0} /\ Slice \in Nat \ {0} /\ MaxInstalls \in Nat
  BY EngineAssumption

LEMMA TypesInit == Init => TypesOK
  <1> SUFFICES ASSUME Init PROVE TypesOK
    OBVIOUS
  <1> USE DEF Init, SynchInit
  <1>1. SynchTypes
    BY EngineAssumption DEF SynchTypes
  <1>2. ListsOK
    BY DEF ListsOK, Elements, NoRepeat, Queues
  <1>3. ReadyOK
    BY DEF ReadyOK, Elements, Queues
  <1>4. TasksOK
    <2>1. 0 \in 0 .. Quantum /\ 0 \in 0 .. Slice /\ 0 \in 0 .. MaxInstalls
      BY Bounds
    <2> QED BY <2>1 DEF TasksOK, Tasks, Owner, Starting
  <1> QED BY <1>1, <1>2, <1>3, <1>4 DEF TypesOK, SynchOK, Owner, States

LEMMA TypesContinue ==
  ASSUME TypesOK, Continue
  PROVE  TypesOK'
  <1>1. SynchOK'
    BY ResumeNextOK, YieldReturnsOK, HaltReturnsOK DEF Continue, codeVars, TypesOK
  <1>2. TasksOK'
    BY DEF Continue, taskVars, engineVars, opVars, codeVars, TypesOK, TasksOK
  <1> QED BY <1>1, <1>2 DEF TypesOK

LEMMA TypesRunTask ==
  ASSUME TypesOK, RunTask
  PROVE  TypesOK'
  <1>1. /\ yielder = None /\ task = "none"
        /\ UNCHANGED <<holder, heldSet, releaseSet, acquireSet, yielder, start, halting,
                       target, todo, instructions, sleeping, busy, sendingContext, usedVars,
                       hasRun, installs>>
        /\ taskRunning' \in BOOLEAN /\ usedVars \in [Contexts -> SUBSET Locks]
    BY DEF RunTask, Idle, opVars, TypesOK, SynchOK, SynchTypes
  <1>2. TasksOK'
    <2>1. /\ halted' \in {"no", "asked", "seen"} /\ (halted' = "no" <=> halted = "no")
          /\ task' \in {"none", "pick"}
          /\ runningContext' \in Owner
          /\ iCount' \in {iCount, 0}
      BY <1>1 DEF RunTask, TypesOK, TasksOK, Owner
    <2> QED BY <1>1, <2>1, Bounds DEF TypesOK, TasksOK, Tasks, Starting
  <1>3. CASE UNCHANGED <<queue, list, state, inErrorState>>
    BY <1>1, <1>2, <1>3, SynchFrame DEF TypesOK
  <1>4. CASE /\ runningContext # None /\ Enqueue(runningContext, "run", "READY")
             /\ UNCHANGED taskRunning
    <2>1. runningContext \in Contexts /\ "run" \in {"run", "send"} /\ "READY" \in States
      BY <1>4 DEF TypesOK, TasksOK, Owner, States
    <2> QED BY <1>1, <1>2, <1>4, <2>1, EnqueueOK DEF TypesOK
  <1> QED BY <1>1, <1>3, <1>4 DEF RunTask

LEMMA TypesPickContext ==
  ASSUME TypesOK, PickContext
  PROVE  TypesOK'
  <1>1. /\ yielder = None /\ task = "pick"
        /\ UNCHANGED <<holder, heldSet, releaseSet, acquireSet, inErrorState, yielder, start,
                       halting, target, todo, iCount, halted, sleeping, busy, sendingContext,
                       usedVars, hasRun, rebooting, behind, installs>>
        /\ taskRunning' \in BOOLEAN /\ usedVars \in [Contexts -> SUBSET Locks]
    BY DEF PickContext, Calling, opVars, codeVars, TypesOK, SynchOK, SynchTypes
  <1>2. TasksOK'
    <2>1. /\ task' \in {"none", "RunTask"}
          /\ runningContext' \in Owner
          /\ task' = "RunTask" => runningContext' # None
          /\ instructions' \in {instructions, Quantum}
      BY <1>1, ContextAssumption DEF PickContext, TypesOK, TasksOK, Owner
    <2> QED BY <1>1, <2>1, Bounds DEF TypesOK, TasksOK, Tasks, Starting
  <1>3. CASE UNCHANGED <<queue, list, state>>
    BY <1>1, <1>2, <1>3, SynchFrame DEF TypesOK
  <1>4. ASSUME NEW c \in Contexts, list["run"] # << >>, c = Head(list["run"]),
               list' = [list EXCEPT !["run"] = Tail(@)],
               queue' = [queue EXCEPT ![c] = "none"],
               state' = [state EXCEPT ![c] = "RUN"]
        PROVE  TypesOK'
    <2>1. {"run", "ready"} \subseteq Queues /\ "RUN" \in States
      BY DEF Queues, States
    <2>2. ListsOK' /\ \A p \in Queues : Elements(list'[p]) = Elements(list[p]) \ {c}
      BY <1>4, <2>1, LeaveList DEF TypesOK, SynchOK
    <2>3. ReadyOK'
      BY <1>1, <2>1, <2>2, ReadyKept DEF TypesOK, SynchOK
    <2>4. SynchTypes' /\ state' \in [Contexts -> States]
      BY <1>1, <1>4, <2>1 DEF TypesOK, SynchOK, SynchTypes
    <2> QED BY <1>1, <1>2, <2>2, <2>3, <2>4 DEF TypesOK, SynchOK
  <1> QED BY <1>1, <1>3, <1>4 DEF PickContext

LEMMA TypesRunTaskReturns ==
  ASSUME TypesOK, RunTaskReturns
  PROVE  TypesOK'
  <1> USE DEF TypesOK
  <1>1. SynchOK'
    BY SynchFrame DEF RunTaskReturns, synchVars, codeVars, SynchOK, SynchTypes
  <1>2. iCount' \in 0 .. Slice /\ instructions' \in 0 .. Quantum
    BY Bounds DEF RunTaskReturns, Smaller, TasksOK
  <1>3. /\ task' = "none" /\ runningContext' \in {runningContext, None}
        /\ UNCHANGED <<target, todo, halted, sleeping, busy, sendingContext, hasRun, rebooting, behind,
                       installs>>
    BY DEF RunTaskReturns, opVars, codeVars
  <1>4. task = "RunTask"
    BY DEF RunTaskReturns, Calling
  <1>5. TasksOK'
    BY <1>2, <1>3, <1>4 DEF TasksOK, Tasks, Starting, Owner
  <1> QED BY <1>1, <1>5

\* What every instruction finds and leaves.
LEMMA TypesExecutes ==
  ASSUME TypesOK, NEW c \in Contexts, Executes(c),
         sleeping' \subseteq Contexts, busy' \in BOOLEAN, sendingContext' \in Owner
  PROVE  TasksOK' /\ yielder = None /\ usedVars' = usedVars
  <1>1. /\ UNCHANGED <<task, target, todo, runningContext, iCount, halted, usedVars, hasRun,
                       rebooting, behind, installs>>
        /\ yielder = None
    BY DEF Executes, Calling, engineVars, codeVars
  <1>2. instructions' \in 0 .. Quantum
    BY Bounds DEF Executes, TypesOK, TasksOK
  <1> QED BY <1>1, <1>2 DEF TypesOK, TasksOK

LEMMA TypesInstruction ==
  ASSUME TypesOK, NEW c \in Contexts, Instruction(c)
  PROVE  TypesOK'
  <1>0. /\ SynchOK /\ "HALT" \in States /\ "BLOCKED" \in States /\ "WAITING" \in States
        /\ sleeping \subseteq Contexts /\ busy \in BOOLEAN /\ sendingContext \in Owner
        /\ taskRunning \in BOOLEAN /\ usedVars \in [Contexts -> SUBSET Locks]
    BY DEF TypesOK, TasksOK, SynchOK, SynchTypes, States
  <1>1. ASSUME NEW l \in Locks, GetSetVar(c, l)
        PROVE  TypesOK'
    <2>1. /\ UNCHANGED <<holder, heldSet, releaseSet, acquireSet, queue, list, taskRunning,
                         yielder, start, halting>>
          /\ TasksOK' /\ yielder = None /\ usedVars' = usedVars
          /\ state' \in {state, [state EXCEPT ![c] = "HALT"]}
          /\ inErrorState' \in {inErrorState, TRUE}
      BY <1>0, <1>1, TypesExecutes DEF GetSetVar, opVars
    <2>2. SynchTypes' /\ ListsOK' /\ state' \in [Contexts -> States]
      BY <1>0, <2>1 DEF SynchOK, SynchTypes, ListsOK
    <2>3. ReadyOK'
      BY <1>0, <2>1, ReadyKept DEF SynchOK
    <2> QED BY <1>0, <2>1, <2>2, <2>3 DEF TypesOK, SynchOK
  <1>2. ASSUME NEW l \in Locks, OPunlock(c, l) \/ OPpunlock(c, l)
        PROVE  TypesOK'
    <2>1. /\ UNCHANGED <<holder, heldSet, state, queue, list, taskRunning, inErrorState, yielder,
                         start, halting>>
          /\ TasksOK' /\ yielder = None /\ usedVars' = usedVars
          /\ releaseSet' = [releaseSet EXCEPT ![c] = @ \cup {l}]
          /\ acquireSet' \in {acquireSet, [acquireSet EXCEPT ![c] = @ \cup {l}]}
      BY <1>0, <1>2, TypesExecutes DEF OPunlock, OPpunlock, opVars
    <2>2. SynchTypes' /\ ListsOK'
      BY <1>0, <2>1 DEF SynchOK, SynchTypes, ListsOK
    <2>3. \A d \in Contexts : acquireSet[d] \subseteq acquireSet'[d]
      BY <1>0, <2>1 DEF SynchOK, SynchTypes
    <2>4. \A d \in Elements(list["ready"]) : d \in Contexts
      BY <1>0 DEF SynchOK, ListsOK, Elements, Queues
    <2>5. ReadyOK'
      BY <1>0, <2>1, <2>3, <2>4, ReadyKept DEF SynchOK
    <2> QED BY <1>0, <2>1, <2>2, <2>5 DEF TypesOK, SynchOK
  <1>3. CASE OPsleep(c)
    <2>1. TasksOK' /\ usedVars' = usedVars
      BY <1>0, <1>3, TypesExecutes DEF OPsleep
    <2> QED BY <1>0, <1>3, <2>1, YieldOK DEF OPsleep, TypesOK
  <1>4. CASE OPhalt(c)
    <2>1. TasksOK' /\ usedVars' = usedVars
      BY <1>0, <1>4, TypesExecutes DEF OPhalt, opVars
    <2> QED BY <1>0, <1>4, <2>1, YieldOK DEF OPhalt, TypesOK
  <1>5. CASE Executes(c) /\ WaitToSend(c)
    <2>1. TasksOK' /\ yielder = None /\ usedVars' = usedVars
      BY <1>0, <1>5, TypesExecutes DEF WaitToSend, opVars
    <2>2. /\ Enqueue(c, "send", "WAITING") /\ "send" \in {"run", "send"}
          /\ UNCHANGED <<holder, heldSet, releaseSet, acquireSet, taskRunning, yielder, start,
                         halting>>
      BY <1>5 DEF WaitToSend
    <2> QED BY <1>0, <2>1, <2>2, EnqueueOK DEF TypesOK
  <1>6. CASE Executes(c) /\ SendAccepted(c)
    <2>1. TasksOK' /\ usedVars' = usedVars
      BY <1>0, <1>6, TypesExecutes DEF SendAccepted, Owner
    <2> QED BY <1>0, <1>6, <2>1, YieldOK DEF SendAccepted, TypesOK
  <1> QED BY <1>1, <1>2, <1>3, <1>4, <1>5, <1>6 DEF Instruction, OPsend

\* Tasks that resume a context.
LEMMA TypesResume ==
  ASSUME TypesOK, SendDone \/ StartContext \/ \E c \in Contexts : SleepExpires(c)
  PROVE  TypesOK'
  <1> USE DEF TypesOK
  <1>0. SynchOK /\ taskRunning \in BOOLEAN /\ usedVars \in [Contexts -> SUBSET Locks]
    BY DEF SynchOK, SynchTypes
  <1>1. CASE SendDone
    <2>1. usedVars' = usedVars /\ yielder = None
      BY <1>1 DEF SendDone, Idle, codeVars
    <2>2. TasksOK'
      BY <1>1 DEF SendDone, Idle, engineVars, codeVars, TasksOK, Tasks, Starting, Owner
    <2>3. CASE sendingContext # None
      <3>1. sendingContext \in Contexts /\ resumeContext(sendingContext)
        BY <1>1, <2>3 DEF SendDone, TasksOK, Owner
      <3>2. SynchOK'
        BY <1>0, <2>1, <3>1, ResumeOK
      <3> QED BY <2>2, <3>2
    <2>4. CASE sendingContext = None
      <3>1. SynchOK'
        BY <1>0, <1>1, <2>1, <2>4, SynchFrame DEF SendDone, synchVars
      <3> QED BY <2>2, <3>1
    <2> QED BY <2>3, <2>4
  <1>2. CASE StartContext
    <2>1. usedVars' = usedVars /\ yielder = None /\ target \in Contexts /\ resumeContext(target)
      BY <1>2 DEF StartContext, Calling, codeVars, TasksOK, Starting, Owner
    <2>2. TasksOK'
      BY <1>2 DEF StartContext, Calling, engineVars, opVars, codeVars, TasksOK, Tasks, Starting
    <2>3. SynchOK'
      BY <1>0, <2>1, ResumeOK
    <2> QED BY <2>2, <2>3
  <1>3. ASSUME NEW c \in Contexts, SleepExpires(c)
        PROVE  TypesOK'
    <2>1. usedVars' = usedVars /\ yielder = None /\ resumeContext(c)
      BY <1>3 DEF SleepExpires, Idle, codeVars
    <2>2. TasksOK'
      BY <1>3 DEF SleepExpires, Idle, taskVars, engineVars, codeVars, TasksOK
    <2>3. SynchOK'
      BY <1>0, <2>1, ResumeOK
    <2> QED BY <2>2, <2>3
  <1> QED BY <1>1, <1>2, <1>3

\* Tasks that initialize a context.
LEMMA TypesInitialize ==
  ASSUME TypesOK, InitializeOnce \/ \E c \in Contexts : ClockEventTask(c)
  PROVE  TypesOK'
  <1> USE DEF TypesOK
  <1>1. PICK c \in Contexts : initializeContext(c, usedVars[c]) /\ target' = c
    BY DEF InitializeOnce, Calling, ClockEventTask, TasksOK, Starting, Owner
  <1>2. /\ task' \in {"start", "startOnce"} /\ yielder = None /\ task # "install"
        /\ UNCHANGED <<todo, instructions, runningContext, iCount, halted, sleeping, busy,
                       sendingContext, usedVars, hasRun, rebooting, behind, installs>>
    BY DEF InitializeOnce, ClockEventTask, Calling, Idle, engineVars, opVars, codeVars
  <1>3. usedVars[c] \in SUBSET Locks
    BY DEF SynchOK, SynchTypes
  <1>4. SynchOK'
    BY <1>1, <1>2, <1>3, InitializeOK
  <1>5. TasksOK'
    BY <1>1, <1>2, ContextAssumption DEF TasksOK, Tasks, Owner
  <1> QED BY <1>4, <1>5

LEMMA TypesTryNextSend ==
  ASSUME TypesOK, TryNextSend
  PROVE  TypesOK'
  <1> USE DEF TypesOK
  <1>0. /\ SynchOK /\ taskRunning \in BOOLEAN /\ usedVars \in [Contexts -> SUBSET Locks]
        /\ {"send", "ready"} \subseteq Queues /\ "ready" # "send"
        /\ {"BLOCKED", "WAITING"} \subseteq States
        /\ yielder = None /\ task = "sendDone" /\ task' = "none"
        /\ UNCHANGED <<target, todo, instructions, runningContext, iCount, halted, usedVars,
                       hasRun, rebooting, behind, installs>>
    BY DEF SynchOK, SynchTypes, Queues, States, TryNextSend, Calling, engineVars, codeVars
  <1>1. sleeping' = sleeping /\ busy' \in BOOLEAN /\ sendingContext' \in Owner
    BY DEF TryNextSend, opVars, TasksOK, Owner
  <1>2. TasksOK'
    BY <1>0, <1>1 DEF TasksOK, Tasks, Starting
  <1>3. CASE list["send"] = << >>
    <2>1. SynchOK'
      BY <1>0, <1>3, SynchFrame DEF TryNextSend, synchVars
    <2> QED BY <1>2, <2>1
  <1>4. ASSUME list["send"] # << >>, NEW c \in Contexts, c = Head(list["send"]),
               Unlock(c, releaseSet[c]),
               state' = [state EXCEPT ![c] = "BLOCKED"],
               queue' = [queue EXCEPT ![c] = "none"],
               list' = [list EXCEPT !["send"] = Tail(@)],
               yielder' = c,
               start' = None,
               UNCHANGED <<acquireSet, taskRunning, inErrorState, halting>>
        PROVE  SynchOK'
    <2>1. ListsOK'
      BY <1>0, <1>4, LeaveList DEF SynchOK
    <2>2. SynchTypes' /\ state' \in [Contexts -> States]
      BY <1>0, <1>4 DEF SynchOK, SynchTypes, Unlock
    <2>3. ReadyOK'
      BY <1>4, ContextAssumption DEF ReadyOK
    <2> QED BY <1>0, <1>4, <2>1, <2>2, <2>3 DEF SynchOK, Owner
  <1>5. ASSUME list["send"] # << >>, NEW c \in Contexts, c = Head(list["send"]),
               list' = [list EXCEPT !["send"] = Append(Tail(@), c)],
               state' = [state EXCEPT ![c] = "WAITING"],
               queue' = [queue EXCEPT ![c] = "send"],
               UNCHANGED <<holder, heldSet, releaseSet, acquireSet, taskRunning, inErrorState,
                           yielder, start, halting>>
        PROVE  SynchOK'
    <2>1. queue[c] = "send"
      <3>1. list["send"] \in Seq(Contexts) /\ NoRepeat(list["send"])
        BY <1>0 DEF SynchOK, ListsOK
      <3>2. c \in Elements(list["send"])
        BY <1>5, <3>1, TailSet
      <3> QED BY <1>0, <3>2 DEF SynchOK, ListsOK
    <2>2. queue' = queue
      BY <1>0, <1>5, <2>1 DEF SynchOK, ListsOK
    <2>3. ListsOK' /\ Elements(list'["ready"]) = Elements(list["ready"])
      BY <1>0, <1>5, <2>2, RotateList DEF SynchOK
    <2>4. SynchTypes' /\ state' \in [Contexts -> States]
      BY <1>0, <1>5 DEF SynchOK, SynchTypes
    <2>5. ReadyOK'
      BY <1>0, <1>5, <2>3, ReadyKept DEF SynchOK
    <2> QED BY <1>0, <1>5, <2>3, <2>4, <2>5 DEF SynchOK
  <1> QED BY <1>2, <1>3, <1>4, <1>5 DEF TryNextSend

\* Tasks that change none of the contexts.
LEMMA TypesTask ==
  ASSUME TypesOK, OtherSendDone \/ ToRequestState \/ RebootTaskReturns
  PROVE  TypesOK'
  <1> USE DEF TypesOK
  <1>1. /\ UNCHANGED <<holder, heldSet, releaseSet, acquireSet, state, queue, list, taskRunning,
                       inErrorState, yielder, start, halting, usedVars>>
        /\ UNCHANGED <<target, todo, instructions, runningContext, iCount, sleeping, busy,
                       sendingContext, hasRun, installs>>
        /\ task \in {"none", "reboot"} /\ task' \in {"none", "sendDone"}
        /\ halted' \in {halted, "asked", "seen"}
    BY DEF OtherSendDone, ToRequestState, RebootTaskReturns, Idle, Calling, synchVars, taskVars,
           engineVars, opVars, codeVars
  <1>2. SynchOK'
    BY <1>1, SynchFrame DEF SynchOK, SynchTypes
  <1>3. TasksOK'
    BY <1>1 DEF TasksOK, Tasks, Starting
  <1> QED BY <1>2, <1>3

LEMMA TypesInstall ==
  ASSUME TypesOK, NEW c \in Contexts,
         CapsuleInstalled(c) \/ Rebooted(c)
  PROVE  TypesOK'
  <1> USE DEF TypesOK
  <1>1. /\ yielder = None /\ usedVars' \in [Contexts -> SUBSET Locks]
        /\ haltContext(c, state[c]) \/ UNCHANGED synchVars
    <2>1. usedVars \in [Contexts -> SUBSET Locks]
      BY DEF SynchOK, SynchTypes
    <2> QED BY <2>1, EngineAssumption DEF CapsuleInstalled, Rebooted, Idle, Calling
  <1>2. SynchOK'
    <2>1. CASE haltContext(c, state[c])
      <3>1. state[c] \in States
        BY DEF SynchOK
      <3> QED BY <1>1, <2>1, <3>1, YieldOK
    <2>2. CASE UNCHANGED synchVars
      BY <1>1, <2>2, SynchFrame DEF synchVars, SynchOK
    <2> QED BY <1>1, <2>1, <2>2
  <1>3. CASE CapsuleInstalled(c)
    <2>1. installs < MaxInstalls
      BY <1>3 DEF CapsuleInstalled, Idle, TasksOK
    <2>2. installs' \in 0 .. MaxInstalls
      BY <1>3, <2>1, Bounds DEF CapsuleInstalled, TasksOK
    <2>3. TasksOK'
      BY <1>3, <2>2 DEF CapsuleInstalled, engineVars, opVars, TasksOK, Tasks, Starting
    <2> QED BY <1>2, <2>3
  <1>4. CASE Rebooted(c)
    <2>1. /\ task = "reboot"
          /\ todo' \subseteq Contexts /\ hasRun' \subseteq Contexts
          /\ task' \in {"reboot", "once"} /\ target' \in Owner
          /\ task' = "once" => target' = c
      BY <1>4 DEF Rebooted, Calling, TasksOK, Owner
    <2>2. TasksOK'
      BY <1>4, <2>1, ContextAssumption
         DEF Rebooted, engineVars, opVars, TasksOK, Tasks, Starting
    <2> QED BY <1>2, <2>2
  <1> QED BY <1>3, <1>4

LEMMA TypesReboot ==
  ASSUME TypesOK, Reboot \/ RebootTask
  PROVE  TypesOK'
  <1> USE DEF TypesOK
  <1>0. "ready" \in Queues
    BY DEF Queues
  <1>1. /\ yielder = None
        /\ UNCHANGED <<heldSet, releaseSet, acquireSet, state, queue, yielder, start, halting,
                       usedVars>>
        /\ holder' \in {holder, [l \in Locks |-> None]}
        /\ taskRunning' \in {taskRunning, TRUE}
        /\ inErrorState' \in {inErrorState, FALSE}
    BY DEF Reboot, RebootTask, Calling, Idle, engineVars, codeVars
  <1>2. SynchTypes'
    BY <1>1 DEF SynchOK, SynchTypes
  <1>3. /\ ListsOK'
        /\ \/ Elements(list'["ready"]) = {}
           \/ Elements(list'["ready"]) = Elements(list["ready"]) /\ holder' = holder
    <2>1. \A q \in Queues : list'[q] \in {list[q], << >>}
      BY DEF Reboot, RebootTask, SynchOK, ListsOK
    <2>2. list' \in [Queues -> Seq(Contexts)]
      <3>1. list' = [q \in Queues |-> list'[q]]
        BY DEF Reboot, RebootTask, SynchOK, ListsOK
      <3>2. ASSUME NEW q \in Queues  PROVE list'[q] \in Seq(Contexts)
        <4>1. list[q] \in Seq(Contexts) /\ << >> \in Seq(Contexts)
          BY DEF SynchOK, ListsOK
        <4> QED BY <2>1, <4>1
      <3> QED BY <3>1, <3>2
    <2>3. Elements(<< >>) = {} /\ NoRepeat(<< >>)
      BY DEF Elements, NoRepeat
    <2>4. ListsOK'
      BY <1>1, <2>1, <2>2, <2>3 DEF SynchOK, ListsOK
    <2>5. list'["ready"] = << >> \/ (list'["ready"] = list["ready"] /\ holder' = holder)
      BY <1>0 DEF Reboot, RebootTask, SynchOK, ListsOK, Queues
    <2> QED BY <2>3, <2>4, <2>5
  <1>4. ReadyOK'
    BY <1>1, <1>3, ReadyKept DEF SynchOK
  <1>5. SynchOK'
    BY <1>1, <1>2, <1>3, <1>4 DEF SynchOK
  <1>6. TasksOK'
    <2>1. 0 \in 0 .. Slice /\ Contexts \subseteq Contexts /\ {} \subseteq Contexts /\ None \in Owner
      BY Bounds DEF Owner
    <2>2. CASE Reboot
      BY <2>1, <2>2 DEF Reboot, opVars, TasksOK, Tasks, Starting
    <2>3. CASE RebootTask
      <3>1. /\ task = "none" /\ task' = "reboot"
            /\ todo' = Contexts /\ sleeping' = {} /\ sendingContext' = None
            /\ UNCHANGED <<target, instructions, runningContext, iCount, halted, busy, hasRun,
                           rebooting, behind, installs>>
        BY <2>3 DEF RebootTask, Idle, engineVars, codeVars
      <3> QED BY <2>1, <3>1 DEF TasksOK, Tasks, Starting
    <2> QED BY <2>2, <2>3
  <1> QED BY <1>5, <1>6

LEMMA TypesStep ==
  ASSUME TypesOK, [Next]_vars
  PROVE  TypesOK'
  <1>1. CASE Continue \/ RunTask \/ PickContext \/ RunTaskReturns
    BY <1>1, TypesContinue, TypesRunTask, TypesPickContext, TypesRunTaskReturns
  <1>2. CASE \E c \in Contexts : Instruction(c) \/ SleepExpires(c) \/ ClockEventTask(c)
    BY <1>2, TypesInstruction, TypesResume, TypesInitialize
  <1>3. CASE SendDone \/ OtherSendDone \/ TryNextSend \/ StartContext \/ ToRequestState
    BY <1>3, TypesResume, TypesTask, TypesTryNextSend
  <1>4. CASE Reboot \/ RebootTask \/ InitializeOnce \/ RebootTaskReturns
    BY <1>4, TypesReboot, TypesInitialize, TypesTask
  <1>5. CASE (\E c \in Installable : CapsuleInstalled(c)) \/ \E c \in Contexts : Rebooted(c)
    BY <1>5, TypesInstall, EngineAssumption
  <1>6. CASE UNCHANGED vars
    <2> USE DEF vars, synchVars, taskVars, engineVars, opVars, codeVars
    <2>1. SynchOK'
      BY <1>6, SynchFrame DEF TypesOK, SynchOK, SynchTypes
    <2>2. TasksOK'
      BY <1>6 DEF TypesOK, TasksOK
    <2> QED BY <2>1, <2>2 DEF TypesOK
  <1> QED BY <1>1, <1>2, <1>3, <1>4, <1>5, <1>6 DEF Next

-----------------------------------------------------------------------------
(***************************************************************************)
(* The rebootTasks in the task queue (CountsOK): rebootTask runs only when *)
(* one is there, and there are no more than installations called for.      *)
(***************************************************************************)

CountsOK ==
  /\ rebooting \in Nat /\ behind \in Nat /\ installs \in Nat
  /\ rebooting + behind <= installs + 1
  /\ task = "install" => rebooting + behind <= installs
  /\ task \in Rebooting => rebooting > 0

\* The steps that leave the counts alone, and do not begin a task about them.
LEMMA CountsFrame ==
  ASSUME CountsOK, UNCHANGED <<rebooting, behind, installs>>,
         task' # "install", task' \in Rebooting => task \in Rebooting
  PROVE  CountsOK'
  BY DEF CountsOK

LEMMA CountsStep ==
  ASSUME CountsOK, [Next]_vars
  PROVE  CountsOK'
  <1>1. CASE Continue \/ UNCHANGED vars
    BY <1>1 DEF Continue, vars, taskVars, codeVars, CountsOK
  <1>2. CASE RunTask
    <2>1. /\ rebooting = 0 /\ rebooting' = behind /\ behind' = 0 /\ installs' = installs
          /\ task' \in {"none", "pick"}
      BY <1>2 DEF RunTask, Idle
    <2> QED BY <2>1 DEF CountsOK, Rebooting
  <1>3. CASE PickContext \/ RunTaskReturns
    <2>1. UNCHANGED <<rebooting, behind, installs>> /\ task' \in {"none", "RunTask"}
      BY <1>3 DEF PickContext, RunTaskReturns, codeVars
    <2> QED BY <2>1, CountsFrame DEF Rebooting
  <1>4. ASSUME NEW c \in Contexts, Instruction(c) \/ SleepExpires(c) \/ ClockEventTask(c)
        PROVE  CountsOK'
    <2>1. CASE Instruction(c)
      <3>1. Executes(c)
        BY <2>1 DEF Instruction, GetSetVar, OPunlock, OPpunlock, OPsleep, OPsend, OPhalt
      <3> QED BY <3>1, CountsFrame DEF Executes, Calling, codeVars, Rebooting
    <2>2. CASE SleepExpires(c) \/ ClockEventTask(c)
      <3>1. UNCHANGED <<rebooting, behind, installs>> /\ task' \in {"none", "start"}
        BY <2>2 DEF SleepExpires, ClockEventTask, Idle, taskVars, codeVars
      <3> QED BY <3>1, CountsFrame DEF Rebooting
    <2> QED BY <1>4, <2>1, <2>2
  <1>5. CASE SendDone \/ OtherSendDone \/ TryNextSend \/ ToRequestState
    <2>1. UNCHANGED <<rebooting, behind, installs>> /\ task' \in {"none", "sendDone"}
      BY <1>5 DEF SendDone, OtherSendDone, TryNextSend, ToRequestState, Idle, taskVars, codeVars
    <2> QED BY <2>1, CountsFrame DEF Rebooting
  <1>6. CASE StartContext \/ InitializeOnce
    <2>1. /\ UNCHANGED <<rebooting, behind, installs>>
          /\ task' = "none" \/ (task \in Rebooting /\ task' \in Rebooting)
      BY <1>6 DEF StartContext, InitializeOnce, Calling, codeVars, Rebooting
    <2>2. task' # "install"
      BY <2>1 DEF Rebooting
    <2> QED BY <2>1, <2>2, CountsFrame DEF Rebooting
  <1>7. CASE Reboot
    <2>1. /\ task = "install" /\ task' = "none" /\ installs' = installs
          /\ \/ behind' = behind + 1 /\ rebooting' = rebooting
             \/ rebooting' = rebooting + 1 /\ behind' = behind
      BY <1>7 DEF Reboot, Calling
    <2> QED BY <2>1 DEF CountsOK, Rebooting
  <1>8. CASE RebootTask
    <2>1. rebooting > 0 /\ UNCHANGED <<rebooting, behind, installs>> /\ task' = "reboot"
      BY <1>8 DEF RebootTask, codeVars
    <2> QED BY <2>1 DEF CountsOK
  <1>9. CASE RebootTaskReturns
    <2>1. /\ task = "reboot" /\ task' = "none" /\ rebooting' = rebooting - 1
          /\ UNCHANGED <<behind, installs>>
      BY <1>9 DEF RebootTaskReturns, Calling
    <2> QED BY <2>1 DEF CountsOK, Rebooting
  <1>10. ASSUME NEW c \in Installable, CapsuleInstalled(c)
         PROVE  CountsOK'
    <2>1. UNCHANGED <<rebooting, behind>> /\ installs' = installs + 1 /\ task' = "install"
      BY <1>10 DEF CapsuleInstalled
    <2> QED BY <2>1 DEF CountsOK, Rebooting
  <1>11. ASSUME NEW c \in Contexts, Rebooted(c)
         PROVE  CountsOK'
    <2>1. /\ UNCHANGED <<rebooting, behind, installs>>
          /\ task = "reboot" /\ task' \in {"reboot", "once"}
      BY <1>11 DEF Rebooted, Calling
    <2> QED BY <2>1, CountsFrame DEF Rebooting
  <1> QED BY <1>1, <1>2, <1>3, <1>4, <1>5, <1>6, <1>7, <1>8, <1>9, <1>10, <1>11 DEF Next

LEMMA CountsInductive == Spec => []CountsOK
  <1>1. Init => CountsOK
    BY DEF Init, CountsOK
  <1>2. CountsOK /\ [Next]_vars => CountsOK'
    BY CountsStep
  <1> QED BY <1>1, <1>2, PTL DEF Spec

LEMMA TypesInductive == Spec => []TypesOK
  <1>1. TypesOK /\ [Next]_vars => TypesOK'
    BY TypesStep
  <1> QED BY <1>1, TypesInit, PTL DEF Spec

(***************************************************************************)
(* Every context is in the one queue it believes to be in, and every field *)
(* keeps its type, through any installations and reboots (MQueue,          *)
(* MContextSynch, MateEngineM).                                            *)
(***************************************************************************)
THEOREM MateTypeCorrect == Spec => []MateTypeOK
  <1>1. ASSUME TypesOK, CountsOK PROVE MateTypeOK
    <2>0. {rebooting, behind} \subseteq 0 .. MaxInstalls + 1
      <3>1. installs \in 0 .. MaxInstalls
        BY <1>1 DEF TypesOK, TasksOK
      <3> QED BY <1>1, <3>1, Bounds DEF CountsOK
    <2>1. SynchTypes /\ ListsOK /\ TasksOK /\ state \in [Contexts -> States]
      BY <1>1 DEF TypesOK, SynchOK
    <2>2. {taskRunning, inErrorState, busy} \subseteq BOOLEAN
      BY <1>1 DEF TypesOK, SynchOK, TasksOK
    <2>3. {yielder, start, halting, target, runningContext, sendingContext} \subseteq Owner
      BY <1>1 DEF TypesOK, SynchOK, TasksOK
    <2> QED BY <2>0, <2>1, <2>2, <2>3 DEF MateTypeOK, SynchTypes, ListsOK, NoRepeat, TasksOK, Owner
  <1> QED BY <1>1, TypesInductive, CountsInductive, PTL

(***************************************************************************)
(* MContextSynch.yieldContext wakes every context it can: between two      *)
(* tasks none waits whose locks are all free, through any installations.   *)
(***************************************************************************)
THEOREM MateNoLostWakeup == Spec => []NoLostWakeup
  <1>1. ASSUME TypesOK PROVE NoLostWakeup
    BY <1>1 DEF TypesOK, SynchOK, ReadyOK, NoLostWakeup, Idle, Elements
  <1> QED BY <1>1, TypesInductive, PTL

-----------------------------------------------------------------------------
(***************************************************************************)
(* After installations too: what a running context asks for (SliceOK).     *)
(*                                                                         *)
(* RunTask puts the context whose slice is over back into the run queue    *)
(* without looking at its state.  While contexts halt in rebootTask, the   *)
(* context that was running may be one of them; it is forgotten in time,   *)
(* because a slice is more than one RunTask.                               *)
(***************************************************************************)

RunQueueOK == inErrorState \/ \A c \in Elements(list["run"]) : state[c] = "READY"

AcquireOK ==
  \A c \in Contexts :
    state[c] \in {"READY", "RUN"} /\ c # halting => acquireSet[c] \subseteq releaseSet[c]

RunningOK == \A c \in Contexts : state[c] = "RUN" => queue[c] = "none"

SetsOK == RunQueueOK /\ AcquireOK /\ RunningOK

RebootOK ==
  /\ behind > 0 => iCount = 0 /\ task \notin {"pick", "RunTask"}
  /\ rebooting > 0 => iCount \in {0, 1}
  /\ rebooting > 0 /\ task \in {"pick", "RunTask"} => iCount = 0
  /\ task \in Rebooting => rebooting > 0
  /\ halting # None => task \in {"RunTask", "install"} \cup Rebooting

\* The context RunTask remembers runs, or its return to the run queue will be
\* refused, or there is time to forget it.
ForgottenOK ==
  runningContext # None /\ task # "RunTask" =>
    /\ queue[runningContext] # "send"
    /\ \/ state[runningContext] = "RUN"
       \/ queue[runningContext] # "none"
       \/ iCount \in {0, 1}
       \/ task = "install"
       \/ task = "start" /\ target = runningContext

SliceOK == SetsOK /\ RebootOK /\ ForgottenOK

\* The contexts whose sets, state and place do not change.
Same(c) ==
  /\ state'[c] = state[c] /\ queue'[c] = queue[c]
  /\ acquireSet'[c] = acquireSet[c] /\ releaseSet'[c] = releaseSet[c]

\* A step of one context that leaves the others alone, and the run queue but for it.
LEMMA OneContext ==
  ASSUME SynchOK, SetsOK, NEW c \in Contexts,
         \A d \in Contexts \ {c} : Same(d),
         inErrorState' \/ inErrorState' = inErrorState,
         \A d \in Elements(list'["run"]) :
            d \in Contexts /\ (d \in Elements(list["run"]) \/ d = c),
         \/ inErrorState'
         \/ c \notin Elements(list'["run"])
         \/ state'[c] = "READY"
         \/ c \in Elements(list["run"]) /\ state'[c] = state[c],
         state'[c] \in {"READY", "RUN"} /\ c # halting' => acquireSet'[c] \subseteq releaseSet'[c],
         state'[c] = "RUN" => queue'[c] = "none",
         halting \in {None, c}
  PROVE  SetsOK'
  <1>1. RunQueueOK'
    BY DEF SetsOK, RunQueueOK, Same
  <1>2. AcquireOK'
    BY ContextAssumption DEF SetsOK, AcquireOK, Same
  <1>3. RunningOK'
    BY DEF SetsOK, RunningOK, Same
  <1> QED BY <1>1, <1>2, <1>3 DEF SetsOK

LEMMA SetsFrame ==
  ASSUME SetsOK,
         UNCHANGED <<state, queue, acquireSet, releaseSet, inErrorState, halting>>,
         Elements(list'["run"]) \subseteq Elements(list["run"])
  PROVE  SetsOK'
  BY DEF SetsOK, RunQueueOK, AcquireOK, RunningOK

\* Who is in the run queue.
LEMMA RunQueueMembers ==
  ASSUME SynchOK
  PROVE  /\ {"run", "ready", "send"} \subseteq Queues
         /\ \A c \in Elements(list["run"]) : c \in Contexts /\ queue[c] = "run"
  BY DEF SynchOK, ListsOK, Elements, Queues

LEMMA SetsResume ==
  ASSUME SynchOK, SetsOK, yielder = None, halting = None, NEW c \in Contexts, resumeContext(c)
  PROVE  /\ SetsOK'
         /\ \A d \in Contexts \ {c} : Same(d)
         /\ queue'[c] # "none"
         /\ queue'[c] \in {queue[c], "run", "ready"}
         /\ halting' = None
  <1>0. /\ {"run", "ready"} \subseteq Queues /\ ListsOK /\ inErrorState \in BOOLEAN
        /\ \A d \in Elements(list["run"]) : d \in Contexts
        /\ releaseSet' = releaseSet /\ halting' = None
    BY RunQueueMembers DEF SynchOK, resumeContext
  <1>1. PICK q \in {"run", "ready"} :
          /\ Enqueue(c, q, IF q = "run" THEN "READY" ELSE "WAITING")
          /\ \A d \in Contexts \ {c} : acquireSet'[d] = acquireSet[d]
          /\ q = "run" => acquireSet'[c] = {}
    BY DEF resumeContext, obtainLocks, SynchOK, SynchTypes
  <1> DEFINE s == IF q = "run" THEN "READY" ELSE "WAITING"
  <1>2. /\ \A p \in Queues \ {q} : Elements(list'[p]) = Elements(list[p])
        /\ \/ /\ queue[c] = "none"
              /\ queue' = [queue EXCEPT ![c] = q]
              /\ state' = [state EXCEPT ![c] = s]
              /\ inErrorState' = (inErrorState \/ FALSE)
              /\ Elements(list'[q]) = Elements(list[q]) \cup {c}
           \/ /\ queue[c] # "none"
              /\ UNCHANGED <<queue, list>>
              /\ state' = [state EXCEPT ![c] = "HALT"]
              /\ inErrorState'
    <2> HIDE DEF s
    <2>1. q \in Queues /\ Enqueue(c, q, s)
      BY <1>0, <1>1 DEF s
    <2> QED BY <1>0, <2>1, EnqueueList
  <1>3. \A d \in Contexts \ {c} : Same(d)
    BY <1>0, <1>1, <1>2 DEF Same, SynchOK, ListsOK
  <1>4. queue'[c] # "none" /\ queue'[c] \in {queue[c], "run", "ready"}
    BY <1>1, <1>2 DEF SynchOK, ListsOK
  <1>5. state'[c] = s \/ (state'[c] = "HALT" /\ inErrorState')
    BY <1>2 DEF SynchOK
  <1>6. SetsOK'
    <2>1. inErrorState' \/ inErrorState' = inErrorState
      BY <1>0, <1>2
    <2>2. \A d \in Elements(list'["run"]) : d \in Contexts /\ (d \in Elements(list["run"]) \/ d = c)
      BY <1>0, <1>1, <1>2
    <2>3. q = "ready" => inErrorState' \/ c \notin Elements(list'["run"])
      BY <1>0, <1>2, RunQueueMembers
    <2>4. \/ inErrorState'
          \/ c \notin Elements(list'["run"])
          \/ state'[c] = "READY"
      BY <1>1, <1>5, <2>3
    <2>5. state'[c] \in {"READY", "RUN"} /\ c # halting' => acquireSet'[c] \subseteq releaseSet'[c]
      BY <1>1, <1>5
    <2>6. state'[c] = "RUN" => queue'[c] = "none"
      BY <1>5
    <2> QED BY <1>0, <1>3, <2>1, <2>2, <2>4, <2>5, <2>6, OneContext
  <1> QED BY <1>0, <1>3, <1>4, <1>6

\* A context yields or halts; it is in the run queue only if its state stays.
LEMMA SetsYield ==
  ASSUME SynchOK, SetsOK, halting = None, NEW c \in Contexts, NEW s \in States,
         yieldContext(c, s) \/ haltContext(c, s),
         \/ s = state[c] /\ haltContext(c, s)
         \/ s \in {"BLOCKED", "HALT"} /\ queue[c] = "none"
  PROVE  SetsOK' /\ queue' = queue /\ \A d \in Contexts \ {c} : Same(d)
  <1>1. /\ \E S \in {releaseSet[c], heldSet[c]} : Unlock(c, S)
        /\ state' = [state EXCEPT ![c] = s]
        /\ UNCHANGED <<acquireSet, queue, list, inErrorState>>
        /\ haltContext(c, s) => halting' = c
    BY DEF yieldContext, haltContext
  <1>2. \A d \in Contexts \ {c} : Same(d)
    BY <1>1 DEF Same, Unlock, SynchOK, SynchTypes
  <1>3. state'[c] = s /\ queue'[c] = queue[c]
    BY <1>1 DEF SynchOK
  <1>4. queue[c] = "none" => c \notin Elements(list'["run"])
    BY <1>1, RunQueueMembers
  <1>5. s \in {"BLOCKED", "HALT"} \/ halting' = c
    BY <1>1
  <1>6. s = state[c] \/ s \in {"BLOCKED", "HALT"}
    OBVIOUS
  <1>7. state'[c] = "RUN" => queue'[c] = "none"
    BY <1>3, <1>6 DEF SetsOK, RunningOK
  <1>8. \/ c \notin Elements(list'["run"])
        \/ c \in Elements(list["run"]) /\ state'[c] = state[c]
    BY <1>1, <1>3, <1>4
  <1>9. /\ \A d \in Elements(list'["run"]) : d \in Contexts /\ d \in Elements(list["run"])
        /\ inErrorState' = inErrorState
    BY <1>1, RunQueueMembers
  <1>10. state'[c] \in {"READY", "RUN"} /\ c # halting' => acquireSet'[c] \subseteq releaseSet'[c]
    BY <1>3, <1>5
  <1>11. SetsOK'
    BY <1>2, <1>7, <1>8, <1>9, <1>10, OneContext
  <1> QED BY <1>1, <1>2, <1>11

\* A context is halted and taken out of its queue.
LEMMA SetsRemove ==
  ASSUME SynchOK, SetsOK, NEW c \in Contexts, halting \in {None, c}, RemoveFromQueue(c),
         state' = [state EXCEPT ![c] = "HALT"], inErrorState' = inErrorState,
         \A d \in Contexts \ {c} :
           acquireSet'[d] = acquireSet[d] /\ releaseSet'[d] = releaseSet[d]
  PROVE  SetsOK' /\ \A d \in Contexts \ {c} : Same(d)
  <1>0. ListsOK /\ "run" \in Queues
    BY RunQueueMembers DEF SynchOK
  <1>1. Elements(list'["run"]) = Elements(list["run"]) \ {c}
    BY <1>0, RemoveList
  <1>2. \A d \in Contexts \ {c} : Same(d)
    BY DEF Same, RemoveFromQueue, SynchOK, ListsOK
  <1>3. state'[c] = "HALT"
    BY DEF SynchOK
  <1>4. \A d \in Elements(list'["run"]) : d \in Contexts /\ d \in Elements(list["run"])
    BY <1>1, RunQueueMembers
  <1>5. SetsOK'
    BY <1>1, <1>2, <1>3, <1>4, OneContext
  <1> QED BY <1>2, <1>5

\* A context that runs goes back to the run queue, or waits for the radio.
LEMMA SetsEnqueue ==
  ASSUME SynchOK, SetsOK, halting = None, halting' = None, NEW c \in Contexts,
         \/ Enqueue(c, "run", "READY") /\ (queue[c] = "none" => state[c] = "RUN")
         \/ Enqueue(c, "send", "WAITING"),
         UNCHANGED <<acquireSet, releaseSet>>
  PROVE  SetsOK' /\ \A d \in Contexts \ {c} : Same(d)
  <1>1. PICK q \in {"run", "send"} :
          /\ Enqueue(c, q, IF q = "run" THEN "READY" ELSE "WAITING")
          /\ q = "run" /\ queue[c] = "none" => state[c] = "RUN"
    OBVIOUS
  <1> DEFINE s == IF q = "run" THEN "READY" ELSE "WAITING"
  <1>2. /\ \A p \in Queues \ {q} : Elements(list'[p]) = Elements(list[p])
        /\ \/ /\ queue[c] = "none"
              /\ queue' = [queue EXCEPT ![c] = q]
              /\ state' = [state EXCEPT ![c] = s]
              /\ inErrorState' = (inErrorState \/ FALSE)
              /\ Elements(list'[q]) = Elements(list[q]) \cup {c}
           \/ /\ queue[c] # "none"
              /\ UNCHANGED <<queue, list>>
              /\ state' = [state EXCEPT ![c] = "HALT"]
              /\ inErrorState'
    <2> HIDE DEF s
    <2>1. q \in Queues /\ Enqueue(c, q, s) /\ ListsOK
      BY <1>1, RunQueueMembers DEF s, SynchOK
    <2> QED BY <2>1, EnqueueList
  <1>3. \A d \in Contexts \ {c} : Same(d)
    BY <1>2 DEF Same, SynchOK, ListsOK
  <1>5. \/ /\ state'[c] = s /\ queue[c] = "none"
        \/ state'[c] = "HALT" /\ inErrorState'
    BY <1>2 DEF SynchOK
  <1>6. SetsOK'
    <2>1. inErrorState' \/ inErrorState' = inErrorState
      BY <1>2 DEF SynchOK
    <2>2. \A d \in Elements(list'["run"]) : d \in Contexts /\ (d \in Elements(list["run"]) \/ d = c)
      BY <1>1, <1>2, RunQueueMembers
    <2>3. q = "send" => inErrorState' \/ c \notin Elements(list'["run"])
      BY <1>2, RunQueueMembers
    <2>4. \/ inErrorState'
          \/ c \notin Elements(list'["run"])
          \/ state'[c] = "READY"
      BY <1>1, <1>5, <2>3
    <2>5. state'[c] \in {"READY", "RUN"} /\ c # halting' => acquireSet'[c] \subseteq releaseSet'[c]
      BY <1>1, <1>5, ContextAssumption DEF SetsOK, AcquireOK
    <2>6. state'[c] = "RUN" => queue'[c] = "none"
      BY <1>5
    <2> QED BY <1>3, <2>1, <2>2, <2>4, <2>5, <2>6, OneContext
  <1> QED BY <1>3, <1>6

\* A step of one context, or of none, that RunTask has no part in.
LEMMA ForgottenStep ==
  ASSUME TypesOK, ForgottenOK, NEW c \in Contexts, \A d \in Contexts \ {c} : Same(d),
         runningContext' = runningContext, iCount' = iCount, task # "RunTask",
         task = "install" => task' = "install",
         task = "start" => target = c \/ (task' = "start" /\ target' = target),
         runningContext = c =>
           /\ queue'[c] # "send"
           /\ \/ state'[c] = "RUN"
              \/ queue'[c] # "none"
              \/ iCount \in {0, 1}
              \/ task' = "install"
              \/ task' = "start" /\ target' = c
  PROVE  ForgottenOK'
  <1>1. CASE runningContext = c
    BY <1>1 DEF ForgottenOK
  <1>2. CASE runningContext \in Contexts \ {c}
    BY <1>2 DEF ForgottenOK, Same
  <1>3. CASE runningContext = None
    BY <1>3 DEF ForgottenOK
  <1> QED BY <1>1, <1>2, <1>3 DEF TypesOK, TasksOK, Owner

LEMMA ForgottenFrame ==
  ASSUME ForgottenOK, UNCHANGED <<state, queue, runningContext, iCount>>, task # "RunTask",
         task = "install" => task' = "install",
         task = "start" => task' = "start" /\ target' = target
  PROVE  ForgottenOK'
  BY DEF ForgottenOK

LEMMA SliceInit == Init => SliceOK
  BY DEF Init, SynchInit, SliceOK, SetsOK, RunQueueOK, AcquireOK, RunningOK, RebootOK, ForgottenOK,
         Rebooting, Elements, Queues

LEMMA SliceResumeNext ==
  ASSUME TypesOK, SliceOK, ResumeNext, UNCHANGED <<taskVars, engineVars, opVars, codeVars>>
  PROVE  SliceOK'
  <1> USE DEF SliceOK
  <1>0. /\ UNCHANGED <<task, target, runningContext, iCount, rebooting, behind, releaseSet, halting,
                       inErrorState>>
        /\ SynchOK
    BY DEF ResumeNext, taskVars, engineVars, codeVars, TypesOK
  <1>1. RebootOK'
    BY <1>0 DEF RebootOK
  <1>2. PICK c \in Contexts :
          /\ list["ready"] # << >> /\ c = Head(list["ready"])
          /\ \/ /\ obtainLocks(c)
                /\ state' = [state EXCEPT ![c] = "READY"]
                /\ queue' = [queue EXCEPT ![c] = "run"]
                /\ list' = [list EXCEPT !["ready"] = Tail(@), !["run"] = Append(@, c)]
             \/ /\ list' = [list EXCEPT !["ready"] = Append(Tail(@), c)]
                /\ state' = [state EXCEPT ![c] = "WAITING"]
                /\ UNCHANGED <<acquireSet, queue>>
    BY DEF ResumeNext
  <1>3. CASE /\ obtainLocks(c)
             /\ state' = [state EXCEPT ![c] = "READY"]
             /\ queue' = [queue EXCEPT ![c] = "run"]
             /\ list' = [list EXCEPT !["ready"] = Tail(@), !["run"] = Append(@, c)]
    <2>1. Elements(list'["run"]) = Elements(list["run"]) \cup {c}
      BY <1>0, <1>2, <1>3, MoveList DEF SynchOK
    <2>2. \A d \in Contexts \ {c} : Same(d)
      BY <1>0, <1>3 DEF Same, obtainLocks, SynchOK, SynchTypes, ListsOK
    <2>3. state'[c] = "READY" /\ queue'[c] = "run" /\ acquireSet'[c] = {}
      BY <1>0, <1>3 DEF obtainLocks, SynchOK, SynchTypes, ListsOK
    <2>4. \A d \in Elements(list'["run"]) : d \in Contexts /\ (d \in Elements(list["run"]) \/ d = c)
      BY <1>0, <2>1, RunQueueMembers
    <2>5. AcquireOK' /\ RunningOK' /\ RunQueueOK'
      <3>1. AcquireOK'
        BY <1>0, <2>2, <2>3 DEF SetsOK, AcquireOK, Same
      <3>2. RunningOK'
        BY <2>2, <2>3 DEF SetsOK, RunningOK, Same
      <3>3. RunQueueOK'
        BY <1>0, <2>2, <2>3, <2>4 DEF SetsOK, RunQueueOK, Same
      <3> QED BY <3>1, <3>2, <3>3
    <2>6. CASE task = "RunTask"
      BY <1>0, <1>1, <2>5, <2>6 DEF ForgottenOK, SetsOK
    <2>7. CASE task # "RunTask"
      BY <1>0, <1>1, <2>2, <2>3, <2>5, <2>7, ForgottenStep DEF SetsOK
    <2> QED BY <2>6, <2>7
  <1>4. CASE /\ list' = [list EXCEPT !["ready"] = Append(Tail(@), c)]
             /\ state' = [state EXCEPT ![c] = "WAITING"]
             /\ UNCHANGED <<acquireSet, queue>>
    <2>1. list'["run"] = list["run"]
      BY <1>0, <1>4 DEF SynchOK, ListsOK, Queues
    <2>2. queue[c] = "ready" /\ state'[c] = "WAITING"
      <3>1. list["ready"] \in Seq(Contexts) /\ "ready" \in Queues
        BY <1>0 DEF SynchOK, ListsOK, Queues
      <3>2. list["ready"][1] = c /\ 1 \in DOMAIN list["ready"]
        BY <1>2, <3>1, TailElements
      <3>3. c \in Elements(list["ready"])
        BY <3>2 DEF Elements
      <3> QED BY <1>0, <1>4, <3>1, <3>3 DEF SynchOK, ListsOK
    <2>3. \A d \in Contexts \ {c} : Same(d)
      BY <1>0, <1>4 DEF Same, SynchOK
    <2>4. \A d \in Elements(list["run"]) : d \in Contexts \ {c}
      BY <1>0, <2>2, RunQueueMembers
    <2>5. SetsOK'
      <3>1. RunQueueOK'
        BY <1>0, <2>1, <2>3, <2>4 DEF SetsOK, RunQueueOK, Same
      <3>2. AcquireOK'
        BY <1>0, <2>2, <2>3 DEF SetsOK, AcquireOK, Same
      <3>3. RunningOK'
        BY <2>2, <2>3 DEF SetsOK, RunningOK, Same
      <3> QED BY <3>1, <3>2, <3>3 DEF SetsOK
    <2>6. ForgottenOK'
      BY <1>0, <1>4, <2>2, <2>3 DEF ForgottenOK, Same
    <2> QED BY <1>1, <2>5, <2>6
  <1> QED BY <1>2, <1>3, <1>4

LEMMA SliceReturns ==
  ASSUME TypesOK, SliceOK, YieldReturns \/ HaltReturns,
         UNCHANGED <<taskVars, engineVars, opVars, codeVars>>
  PROVE  SliceOK'
  <1> USE DEF SliceOK
  <1>0. /\ UNCHANGED <<task, target, runningContext, iCount, rebooting, behind, releaseSet, acquireSet,
                       inErrorState>>
        /\ halting' \in {halting, None}
        /\ SynchOK
    BY DEF YieldReturns, HaltReturns, taskVars, engineVars, codeVars, TypesOK
  <1>1. RebootOK'
    BY <1>0 DEF RebootOK
  <1>2. CASE UNCHANGED <<state, queue, list>> /\ (halting' = halting \/ state[halting] = "HALT")
    <2>1. SetsOK'
      BY <1>0, <1>2 DEF SetsOK, RunQueueOK, AcquireOK, RunningOK
    <2>2. ForgottenOK'
      BY <1>0, <1>2 DEF ForgottenOK
    <2> QED BY <1>1, <2>1, <2>2
  <1>3. CASE /\ halting # None /\ halting' = None
             /\ state' = [state EXCEPT ![halting] = "HALT"]
             /\ RemoveFromQueue(halting)
    <2> DEFINE c == halting
    <2>1. c \in Contexts
      BY <1>3 DEF TypesOK, SynchOK, Owner
    <2>2. SetsOK' /\ \A d \in Contexts \ {c} : Same(d)
      BY <1>0, <1>3, <2>1, SetsRemove
    <2>3. task \in {"RunTask", "install"} \/ iCount \in {0, 1}
      BY <1>3 DEF RebootOK
    <2>4. queue'[c] = "none"
      BY <1>3, <2>1 DEF RemoveFromQueue, TypesOK, SynchOK, ListsOK
    <2>5. CASE task = "RunTask"
      BY <1>0, <1>1, <2>2, <2>5 DEF ForgottenOK
    <2>6. CASE task # "RunTask"
      <3> HIDE DEF c
      <3>1. ForgottenOK'
        BY <1>0, <2>1, <2>2, <2>3, <2>4, <2>6, ForgottenStep
      <3> QED BY <1>1, <2>2, <3>1
    <2> QED BY <2>5, <2>6
  <1> QED BY <1>2, <1>3 DEF YieldReturns, HaltReturns

LEMMA SliceRunTask ==
  ASSUME TypesOK, SliceOK, Slice > 1, RunTask
  PROVE  SliceOK'
  <1> USE DEF SliceOK
  <1>1. /\ task = "none" /\ halting = None /\ halting' = None
        /\ UNCHANGED <<acquireSet, releaseSet, target>>
        /\ rebooting = 0 /\ rebooting' = behind /\ behind' = 0
        /\ task' \in {"none", "pick"}
        /\ SynchOK /\ runningContext \in Owner
    BY DEF RunTask, Idle, TypesOK, TasksOK
  <1>2. RebootOK'
    <2>1. iCount' \in {iCount, 0}
      BY DEF RunTask
    <2> QED BY <1>1, <2>1 DEF RebootOK, Rebooting
  <1>3. CASE UNCHANGED <<runningContext, iCount, queue, list, state, inErrorState>>
    <2>1. SetsOK'
      BY <1>1, <1>3, SetsFrame
    <2>2. ForgottenOK'
      BY <1>1, <1>3, ForgottenFrame
    <2> QED BY <1>2, <2>1, <2>2
  <1>4. CASE /\ iCount >= Slice /\ runningContext # None
             /\ Enqueue(runningContext, "run", "READY")
             /\ runningContext' = None
    <2> DEFINE c == runningContext
    <2>1. c \in Contexts
      BY <1>1, <1>4 DEF Owner
    <2>2. iCount \notin {0, 1}
      BY <1>4, Bounds
    <2>3. queue[c] = "none" => state[c] = "RUN"
      BY <1>1, <1>4, <2>2 DEF ForgottenOK
    <2> HIDE DEF c
    <2>4. SetsOK'
      <3>1. Enqueue(c, "run", "READY")
        BY <1>4 DEF c
      <3> QED BY <1>1, <2>1, <2>3, <3>1, SetsEnqueue
    <2>5. ForgottenOK'
      BY <1>4 DEF ForgottenOK
    <2> QED BY <1>2, <2>4, <2>5
  <1> QED BY <1>3, <1>4 DEF RunTask

LEMMA SlicePickContext ==
  ASSUME TypesOK, SliceOK, PickContext
  PROVE  SliceOK'
  <1> USE DEF SliceOK
  <1>1. /\ task = "pick" /\ halting = None /\ halting' = None /\ task' \in {"RunTask", "none"}
        /\ UNCHANGED <<acquireSet, releaseSet, inErrorState, target, iCount, rebooting, behind>>
        /\ task' = "RunTask" \/ runningContext' = None
        /\ SynchOK
    BY DEF PickContext, Calling, codeVars, TypesOK
  <1>2. RebootOK' /\ ForgottenOK'
    BY <1>1 DEF RebootOK, Rebooting, ForgottenOK
  <1>3. CASE UNCHANGED <<queue, list, state>>
    BY <1>1, <1>2, <1>3, SetsFrame
  <1>4. ASSUME NEW c \in Contexts, ~ inErrorState, list["run"] # << >>, c = Head(list["run"]),
               list' = [list EXCEPT !["run"] = Tail(@)],
               queue' = [queue EXCEPT ![c] = "none"],
               state' = [state EXCEPT ![c] = "RUN"]
        PROVE  SetsOK'
    <2>1. {"run", "ready"} \subseteq Queues /\ ListsOK
      BY <1>1, RunQueueMembers DEF SynchOK
    <2>2. /\ c \in Elements(list["run"])
          /\ Elements(list'["run"]) = Elements(list["run"]) \ {c}
      BY <1>4, <2>1, LeaveList
    <2>3. state[c] = "READY" /\ acquireSet[c] \subseteq releaseSet[c]
      BY <1>1, <1>4, <2>2, ContextAssumption DEF SetsOK, RunQueueOK, AcquireOK
    <2>4. \A d \in Contexts \ {c} : Same(d)
      BY <1>1, <1>4 DEF Same, SynchOK, ListsOK
    <2>5. state'[c] = "RUN" /\ queue'[c] = "none"
      BY <1>1, <1>4 DEF SynchOK, ListsOK
    <2>6. \A d \in Elements(list'["run"]) : d \in Contexts /\ d \in Elements(list["run"])
      BY <1>1, <2>2, RunQueueMembers
    <2> QED BY <1>1, <2>2, <2>3, <2>4, <2>5, <2>6, OneContext
  <1> QED BY <1>2, <1>3, <1>4 DEF PickContext

LEMMA SliceRunTaskReturns ==
  ASSUME TypesOK, SliceOK, Slice > 1, RunTaskReturns
  PROVE  SliceOK'
  <1> USE DEF SliceOK
  <1>1. /\ task = "RunTask" /\ task' = "none" /\ halting = None
        /\ runningContext' = IF state[runningContext] # "RUN" THEN None ELSE runningContext
        /\ iCount' = Smaller(iCount + 1, Slice)
        /\ UNCHANGED <<acquireSet, releaseSet, state, queue, list, inErrorState, halting, target,
                       rebooting, behind>>
        /\ runningContext \in Contexts
    BY DEF RunTaskReturns, Calling, synchVars, codeVars, TypesOK, TasksOK, Owner
  <1>2. SetsOK'
    BY <1>1, SetsFrame
  <1>3. RebootOK'
    <2>1. iCount = 0 => iCount' = 1
      BY <1>1, Bounds DEF Smaller
    <2> QED BY <1>1, <2>1 DEF RebootOK, Rebooting
  <1>4. ForgottenOK'
    BY <1>1 DEF ForgottenOK, SetsOK, RunningOK
  <1> QED BY <1>2, <1>3, <1>4

LEMMA SliceInstruction ==
  ASSUME TypesOK, SliceOK, NEW c \in Contexts, Instruction(c)
  PROVE  SliceOK'
  <1> USE DEF SliceOK
  <1>0. /\ Executes(c) /\ SynchOK
        /\ {"HALT", "BLOCKED"} \subseteq States
    BY DEF Instruction, GetSetVar, OPunlock, OPpunlock, OPsleep, OPsend, OPhalt, TypesOK, States
  <1>1. /\ task = "RunTask" /\ task' = task /\ halting = None
        /\ state[c] = "RUN" /\ queue[c] = "none"
        /\ UNCHANGED <<iCount, rebooting, behind>>
    BY <1>0 DEF Executes, Calling, engineVars, codeVars, SetsOK, RunningOK
  <1>2. RebootOK' /\ ForgottenOK'
    BY <1>1 DEF RebootOK, ForgottenOK
  <1>3. ASSUME NEW l \in Locks, GetSetVar(c, l) \/ OPunlock(c, l) \/ OPpunlock(c, l)
        PROVE  SetsOK'
    <2>1. /\ UNCHANGED <<queue, list, halting>>
          /\ \/ UNCHANGED <<state, inErrorState>>
             \/ state' = [state EXCEPT ![c] = "HALT"] /\ inErrorState'
          /\ \/ UNCHANGED <<acquireSet, releaseSet>>
             \/ /\ releaseSet' = [releaseSet EXCEPT ![c] = @ \cup {l}]
                /\ acquireSet' \in {acquireSet, [acquireSet EXCEPT ![c] = @ \cup {l}]}
      BY <1>3 DEF GetSetVar, OPunlock, OPpunlock
    <2>2. \A d \in Contexts \ {c} : Same(d)
      BY <1>0, <2>1 DEF Same, SynchOK, SynchTypes
    <2>3. acquireSet'[c] \subseteq releaseSet'[c]
      <3>1. acquireSet[c] \subseteq releaseSet[c]
        BY <1>1, ContextAssumption DEF SetsOK, AcquireOK
      <3> QED BY <1>0, <2>1, <3>1 DEF SynchOK, SynchTypes
    <2>4. c \notin Elements(list'["run"])
      BY <1>0, <1>1, <2>1, RunQueueMembers
    <2>5. \A d \in Elements(list'["run"]) : d \in Contexts /\ d \in Elements(list["run"])
      BY <1>0, <2>1, RunQueueMembers
    <2> QED BY <1>0, <1>1, <2>1, <2>2, <2>3, <2>4, <2>5, OneContext
  <1>4. ASSUME NEW s \in {"BLOCKED", "HALT"}, yieldContext(c, s) \/ haltContext(c, s)
        PROVE  SetsOK'
    BY <1>0, <1>1, <1>4, SetsYield
  <1>5. CASE WaitToSend(c)
    <2>1. Enqueue(c, "send", "WAITING") /\ UNCHANGED <<acquireSet, releaseSet, halting>>
      BY <1>5 DEF WaitToSend
    <2>2. SetsOK /\ halting' = None
      BY <1>1, <2>1
    <2>3. SetsOK'
      BY <1>0, <1>1, <2>1, <2>2, SetsEnqueue
    <2> QED BY <1>2, <2>3
  <1> QED BY <1>2, <1>3, <1>4, <1>5 DEF Instruction, OPsleep, OPsend, OPhalt, SendAccepted

LEMMA SliceResume ==
  ASSUME TypesOK, SliceOK, SendDone \/ StartContext \/ \E c \in Contexts : SleepExpires(c)
  PROVE  SliceOK'
  <1> USE DEF SliceOK
  <1>0. /\ yielder = None /\ halting = None /\ SynchOK
        /\ UNCHANGED <<target, runningContext, iCount, rebooting, behind>>
        /\ \/ task = "none" /\ task' \in {"none", "sendDone"}
           \/ task = "start" /\ task' = "none"
           \/ task = "startOnce" /\ task' = "reboot"
    BY DEF SendDone, StartContext, SleepExpires, Calling, Idle, taskVars, engineVars, codeVars,
           TypesOK
  <1>1. ASSUME NEW c \in Contexts, resumeContext(c), task = "start" => c = target
        PROVE  SliceOK'
    <2>1. /\ SetsOK' /\ \A d \in Contexts \ {c} : Same(d)
          /\ queue'[c] # "none" /\ queue'[c] \in {queue[c], "run", "ready"}
          /\ halting' = None
      BY <1>0, <1>1, SetsResume
    <2>2. RebootOK'
      BY <1>0, <2>1 DEF RebootOK, Rebooting
    <2>3. runningContext = c => queue[c] # "send"
      BY <1>0, ContextAssumption DEF ForgottenOK
    <2>4. ForgottenOK'
      BY <1>0, <1>1, <2>1, <2>3, ForgottenStep
    <2> QED BY <2>1, <2>2, <2>4
  <1>2. CASE UNCHANGED synchVars /\ task = "none"
    <2>1. SetsOK'
      BY <1>2, SetsFrame DEF synchVars
    <2>2. RebootOK' /\ ForgottenOK'
      BY <1>0, <1>2 DEF synchVars, RebootOK, ForgottenOK, Rebooting
    <2> QED BY <2>1, <2>2
  <1>3. CASE SendDone
    BY <1>1, <1>2, <1>3 DEF SendDone, Idle, TypesOK, TasksOK, Owner
  <1>4. CASE StartContext
    BY <1>1, <1>4 DEF StartContext, Calling, TypesOK, TasksOK, Owner, Starting
  <1>5. ASSUME NEW c \in Contexts, SleepExpires(c)
        PROVE  SliceOK'
    BY <1>1, <1>5 DEF SleepExpires, Idle
  <1> QED BY <1>3, <1>4, <1>5

LEMMA SliceInitialize ==
  ASSUME TypesOK, SliceOK, InitializeOnce \/ \E c \in Contexts : ClockEventTask(c)
  PROVE  SliceOK'
  <1> USE DEF SliceOK
  <1>1. PICK c \in Contexts : initializeContext(c, usedVars[c]) /\ target' = c
    BY DEF InitializeOnce, Calling, ClockEventTask, TypesOK, TasksOK, Starting, Owner
  <1>2. /\ \/ task = "none" /\ task' = "start"
           \/ task = "once" /\ task' = "startOnce"
        /\ halting = None /\ SynchOK
        /\ UNCHANGED <<runningContext, iCount, rebooting, behind>>
    BY DEF InitializeOnce, ClockEventTask, Calling, Idle, engineVars, codeVars, TypesOK
  <1>3. /\ RemoveFromQueue(c)
        /\ state' = [state EXCEPT ![c] = "HALT"]
        /\ UNCHANGED <<inErrorState, halting>>
        /\ \A d \in Contexts \ {c} :
             acquireSet'[d] = acquireSet[d] /\ releaseSet'[d] = releaseSet[d]
    BY <1>1, <1>2 DEF initializeContext, SynchOK, SynchTypes
  <1>4. SetsOK' /\ \A d \in Contexts \ {c} : Same(d)
    BY <1>2, <1>3, SetsRemove
  <1>5. RebootOK'
    BY <1>2, <1>3 DEF RebootOK, Rebooting
  <1>6. queue'[c] = "none"
    BY <1>2, <1>3 DEF RemoveFromQueue, SynchOK, ListsOK
  <1>7. task = "once" => iCount \in {0, 1}
    BY DEF RebootOK, Rebooting
  <1>8. ForgottenOK'
    BY <1>1, <1>2, <1>4, <1>6, <1>7, ForgottenStep
  <1> QED BY <1>4, <1>5, <1>8

LEMMA SliceTryNextSend ==
  ASSUME TypesOK, SliceOK, TryNextSend
  PROVE  SliceOK'
  <1> USE DEF SliceOK
  <1>0. /\ task = "sendDone" /\ task' = "none" /\ halting = None /\ SynchOK
        /\ UNCHANGED <<target, runningContext, iCount, rebooting, behind>>
    BY DEF TryNextSend, Calling, engineVars, codeVars, TypesOK
  <1>1. halting' = None
    BY <1>0 DEF TryNextSend, synchVars
  <1>2. RebootOK'
    BY <1>0, <1>1 DEF RebootOK, Rebooting
  <1>3. CASE UNCHANGED synchVars
    <2>1. SetsOK'
      BY <1>3, SetsFrame DEF synchVars
    <2>2. ForgottenOK'
      BY <1>0, <1>3, ForgottenFrame DEF synchVars
    <2> QED BY <1>2, <2>1, <2>2
  <1>4. ASSUME NEW c \in Contexts, list["send"] # << >>, c = Head(list["send"]),
               \/ /\ Unlock(c, releaseSet[c])
                  /\ state' = [state EXCEPT ![c] = "BLOCKED"]
                  /\ queue' = [queue EXCEPT ![c] = "none"]
                  /\ list' = [list EXCEPT !["send"] = Tail(@)]
                  /\ UNCHANGED <<acquireSet, inErrorState>>
               \/ /\ list' = [list EXCEPT !["send"] = Append(Tail(@), c)]
                  /\ state' = [state EXCEPT ![c] = "WAITING"]
                  /\ queue' = [queue EXCEPT ![c] = "send"]
                  /\ UNCHANGED <<releaseSet, acquireSet, inErrorState>>
        PROVE  SliceOK'
    <2>1. queue[c] = "send"
      <3>1. list["send"] \in Seq(Contexts) /\ NoRepeat(list["send"]) /\ "send" \in Queues
        BY <1>0 DEF SynchOK, ListsOK, Queues
      <3>2. c \in Elements(list["send"])
        BY <1>4, <3>1, TailSet
      <3> QED BY <1>0, <3>1, <3>2 DEF SynchOK, ListsOK
    <2>2. list'["run"] = list["run"] /\ c \notin Elements(list["run"])
      BY <1>0, <1>4, <2>1, RunQueueMembers DEF SynchOK, ListsOK
    <2>3. \A d \in Contexts \ {c} : Same(d)
      BY <1>0, <1>4 DEF Same, Unlock, SynchOK, SynchTypes, ListsOK
    <2>4. state'[c] \in {"BLOCKED", "WAITING"}
      BY <1>0, <1>4 DEF SynchOK
    <2>5. \A d \in Elements(list'["run"]) : d \in Contexts /\ d \in Elements(list["run"])
      BY <1>0, <2>2, RunQueueMembers
    <2>6. SetsOK'
      BY <1>0, <1>1, <1>4, <2>2, <2>3, <2>4, <2>5, OneContext
    <2>7. c # runningContext
      BY <1>0, <2>1, ContextAssumption DEF ForgottenOK
    <2>8. ForgottenOK'
      BY <1>0, <2>3, <2>7, ForgottenStep
    <2> QED BY <1>2, <2>6, <2>8
  <1> QED BY <1>3, <1>4 DEF TryNextSend

LEMMA SliceTask ==
  ASSUME TypesOK, CountsOK, SliceOK, OtherSendDone \/ ToRequestState \/ RebootTaskReturns
  PROVE  SliceOK'
  <1> USE DEF SliceOK
  <1>1. /\ UNCHANGED <<acquireSet, releaseSet, state, queue, list, inErrorState, halting, target,
                       runningContext, iCount>>
        /\ halting = None
        /\ \/ task = "none" /\ task' \in {"none", "sendDone"} /\ rebooting' = rebooting
           \/ task = "reboot" /\ task' = "none" /\ rebooting' = rebooting - 1
        /\ behind' = behind
    BY DEF OtherSendDone, ToRequestState, RebootTaskReturns, Idle, Calling, synchVars, taskVars,
           engineVars, codeVars
  <1>2. SetsOK'
    BY <1>1, SetsFrame
  <1>3. RebootOK'
    BY <1>1 DEF CountsOK, RebootOK, Rebooting
  <1>4. ForgottenOK'
    BY <1>1 DEF ForgottenOK
  <1> QED BY <1>2, <1>3, <1>4

LEMMA SliceInstall ==
  ASSUME TypesOK, SliceOK, NEW c \in Contexts, CapsuleInstalled(c) \/ Rebooted(c)
  PROVE  SliceOK'
  <1> USE DEF SliceOK
  <1>1. /\ halting = None /\ SynchOK /\ state[c] \in States
        /\ haltContext(c, state[c]) \/ UNCHANGED synchVars
        /\ UNCHANGED <<runningContext, iCount, rebooting, behind>>
        /\ \/ task = "none" /\ task' = "install"
           \/ task = "reboot" /\ task' \in {"reboot", "once"}
    BY DEF CapsuleInstalled, Rebooted, Idle, Calling, engineVars, opVars, TypesOK, SynchOK
  <1>2. /\ SetsOK' /\ \A d \in Contexts \ {c} : Same(d)
        /\ queue'[c] = queue[c] /\ state'[c] = state[c]
    <2>1. CASE haltContext(c, state[c])
      <3>1. SetsOK' /\ queue' = queue /\ \A d \in Contexts \ {c} : Same(d)
        BY <1>1, <2>1, SetsYield
      <3>2. state'[c] = state[c]
        BY <1>1, <2>1 DEF haltContext, SynchOK
      <3> QED BY <3>1, <3>2
    <2>2. CASE UNCHANGED synchVars
      BY <2>2, SetsFrame DEF synchVars, Same
    <2> QED BY <1>1, <2>1, <2>2
  <1>3. RebootOK'
    BY <1>1 DEF RebootOK, Rebooting
  <1>4. ForgottenOK'
    <2>1. runningContext = c =>
           /\ queue'[c] # "send"
           /\ \/ state'[c] = "RUN"
              \/ queue'[c] # "none"
              \/ iCount \in {0, 1}
              \/ task' = "install"
      BY <1>1, <1>2, ContextAssumption DEF ForgottenOK
    <2> QED BY <1>1, <1>2, <2>1, ForgottenStep
  <1> QED BY <1>2, <1>3, <1>4

LEMMA SliceReboot ==
  ASSUME TypesOK, CountsOK, SliceOK, Reboot \/ RebootTask
  PROVE  SliceOK'
  <1> USE DEF SliceOK
  <1>1. CASE Reboot
    <2>1. list'["run"] = << >>
      BY <1>1 DEF Reboot, TypesOK, SynchOK, ListsOK, Queues
    <2>2. Elements(list'["run"]) = {}
      BY <2>1 DEF Elements
    <2>3. SetsOK'
      BY <1>1, <2>2 DEF Reboot, SetsOK, RunQueueOK, AcquireOK, RunningOK
    <2>4. RebootOK' /\ ForgottenOK'
      BY <1>1 DEF Reboot, Calling, RebootOK, ForgottenOK, Rebooting
    <2> QED BY <2>3, <2>4
  <1>2. CASE RebootTask
    <2>1. list'["run"] = list["run"]
      BY <1>2 DEF RebootTask, TypesOK, SynchOK, ListsOK, Queues
    <2>2. SetsOK'
      BY <1>2, <2>1 DEF RebootTask, SetsOK, RunQueueOK, AcquireOK, RunningOK
    <2>3. RebootOK' /\ ForgottenOK'
      BY <1>2 DEF RebootTask, Idle, engineVars, codeVars, RebootOK, ForgottenOK, Rebooting
    <2> QED BY <2>2, <2>3
  <1> QED BY <1>1, <1>2

LEMMA SliceStep ==
  ASSUME TypesOK, CountsOK, SliceOK, Slice > 1, [Next]_vars
  PROVE  SliceOK'
  <1>1. CASE Continue
    BY <1>1, SliceResumeNext, SliceReturns DEF Continue
  <1>2. CASE RunTask \/ PickContext \/ RunTaskReturns
    BY <1>2, SliceRunTask, SlicePickContext, SliceRunTaskReturns
  <1>3. CASE \E c \in Contexts : Instruction(c) \/ SleepExpires(c) \/ ClockEventTask(c)
    BY <1>3, SliceInstruction, SliceResume, SliceInitialize
  <1>4. CASE SendDone \/ OtherSendDone \/ TryNextSend \/ StartContext \/ ToRequestState
    BY <1>4, SliceResume, SliceTask, SliceTryNextSend
  <1>5. CASE Reboot \/ RebootTask \/ InitializeOnce \/ RebootTaskReturns
    BY <1>5, SliceReboot, SliceInitialize, SliceTask
  <1>6. CASE (\E c \in Installable : CapsuleInstalled(c)) \/ \E c \in Contexts : Rebooted(c)
    BY <1>6, SliceInstall, EngineAssumption
  <1>7. CASE UNCHANGED vars
    <2>1. UNCHANGED <<acquireSet, releaseSet, state, queue, list, inErrorState, halting, target,
                      runningContext, iCount, task, rebooting, behind>>
      BY <1>7 DEF vars, synchVars, taskVars, engineVars, codeVars
    <2>2. SetsOK'
      BY <2>1, SetsFrame DEF SliceOK
    <2> QED BY <2>1, <2>2 DEF SliceOK, RebootOK, ForgottenOK
  <1> QED BY <1>1, <1>2, <1>3, <1>4, <1>5, <1>6, <1>7 DEF Next

(***************************************************************************)
(* "Once it starts running, the acquire set of a context is always a       *)
(* subset of its release set" (Mate's rule for yields): it holds after     *)
(* installations too if MATE_CPU_SLICE is more than one.                   *)
(***************************************************************************)
THEOREM MateAcquiresOnlyReleased ==
  ASSUME Slice > 1
  PROVE  Spec => []AcquiresOnlyReleased
  <1>1. TypesOK /\ CountsOK /\ SliceOK /\ [Next]_vars => SliceOK'
    BY SliceStep
  <1>2. SliceOK => AcquiresOnlyReleased
    BY ContextAssumption DEF SliceOK, SetsOK, AcquireOK, AcquiresOnlyReleased, Idle
  <1> QED BY <1>1, <1>2, SliceInit, TypesInductive, CountsInductive, PTL DEF Spec

=============================================================================
