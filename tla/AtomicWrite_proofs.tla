-------------------------- MODULE AtomicWrite_proofs --------------------------
(***************************************************************************)
(* Proofs about AtomicWrite, for any number of writers of the one path and *)
(* any server.                                                             *)
(*                                                                         *)
(* While the connection is up, the next request tells exactly what the     *)
(* temp file holds and whether the file was replaced; once it is lost, no  *)
(* request has an effect any more.  That is Progress, and every property   *)
(* follows from it.                                                        *)
(***************************************************************************)
EXTENDS AtomicWrite, Integers, TLAPS

Temp(w) ==
    /\ pc[w] \in {"mkdir", "create"} => tmp[w] = Absent
    /\ pc[w] = "copy" => tmp[w] = File(w, "partial", DefaultMode)
    /\ pc[w] \in {"close", "chmod"} => tmp[w] = File(w, "whole", DefaultMode)
    /\ pc[w] \in {"posix_rename", "unlink", "rename"} => tmp[w] = New(w)
    /\ pc[w] = "done" => tmp[w] = Absent \/ w \in uncleaned

Progress(w) ==
    /\ (answer[w] = "none") <=> (pc[w] # "done")
    /\ answer[w] = "ok" => w \in placed
    /\ connected =>
        /\ Temp(w)
        /\ answer[w] # "ok" => w \notin placed
        /\ pc[w] \in {"unlink", "rename"} => w \notin posix

IInv ==
    /\ TypeOK
    /\ NeverTorn
    /\ \A w \in Writers : Progress(w)

USE ModesAssumption, NobodyAssumption
  DEF Versions, File, Old, New, Requests, Goto, Return, PutTemp

\* The three facts of the inductive invariant, the types apart.
LEMMA Initially == Init => IInv
<1> SUFFICES ASSUME Init PROVE IInv
  OBVIOUS
<1>1. TypeOK
  BY DEF Init, TypeOK
<1>2. NeverTorn /\ \A w \in Writers : Progress(w)
  BY DEF Init, NeverTorn, Progress, Temp
<1> QED
  BY <1>1, <1>2 DEF IInv

\* Every step keeps the types.
LEMMA Typing == IInv /\ [Next]_vars => TypeOK'
<1> SUFFICES ASSUME IInv, [Next]_vars PROVE TypeOK'
  OBVIOUS
<1> USE DEF IInv, TypeOK
<1>1. ASSUME NEW w \in Writers, Answered(w) PROVE TypeOK'
  <2>1. pc' \in [Writers -> Requests] /\ answer' \in [Writers -> {"none", "ok", "error"}]
    BY <1>1 DEF Answered, OnSuccess
  <2>2. /\ dest' \in Versions \cup {Absent}
        /\ tmp' \in [Writers -> Versions \cup {Absent}]
        /\ placed' \subseteq Writers
    BY <1>1 DEF Answered, CanCarry, Effect, Progress, Temp
  <2> QED
    BY <1>1, <2>1, <2>2 DEF Answered
<1>2. ASSUME NEW w \in Writers, Refused(w) PROVE TypeOK'
  BY <1>2 DEF Refused, OnError
<1>3. ASSUME NEW w \in Writers, ReplyLost(w) PROVE TypeOK'
  <2>1. pc' \in [Writers -> Requests] /\ answer' \in [Writers -> {"none", "ok", "error"}]
    BY <1>3 DEF ReplyLost, OnError
  <2>2. /\ dest' \in Versions \cup {Absent}
        /\ tmp' \in [Writers -> Versions \cup {Absent}]
        /\ placed' \subseteq Writers
    BY <1>3 DEF ReplyLost, CanCarry, Effect, Progress, Temp
  <2> QED
    BY <1>3, <2>1, <2>2 DEF ReplyLost
<1>4. CASE Disconnect
  BY <1>4 DEF Disconnect
<1>5. CASE UNCHANGED vars
  BY <1>5 DEF vars
<1> QED
  BY <1>1, <1>2, <1>3, <1>4, <1>5 DEF Next

\* Every request and answer keeps the invariant.
LEMMA Inductive == IInv /\ [Next]_vars => IInv'
<1> SUFFICES ASSUME IInv, [Next]_vars
             PROVE  NeverTorn' /\ \A w \in Writers : Progress(w)'
  BY Typing DEF IInv
<1> USE DEF IInv, TypeOK
<1>1. ASSUME NEW w \in Writers, Answered(w)
      PROVE  NeverTorn' /\ \A v \in Writers : Progress(v)'
  <2>1. NeverTorn'
    BY <1>1 DEF Answered, CanCarry, Effect, NeverTorn, Progress, Temp
  <2>2. Progress(w)'
    <3>1. Temp(w)'
      BY <1>1 DEF Answered, CanCarry, Effect, OnSuccess, Progress, Temp
    <3>2. /\ ((answer[w] = "none") <=> (pc[w] # "done"))'
          /\ answer'[w] = "ok" => w \in placed'
          /\ answer'[w] # "ok" => w \notin placed'
          /\ pc'[w] \in {"unlink", "rename"} => w \notin posix'
      BY <1>1 DEF Answered, CanCarry, Effect, OnSuccess, Progress
    <3> QED
      BY <3>1, <3>2 DEF Progress, Temp
  <2>3. ASSUME NEW v \in Writers \ {w} PROVE Progress(v)'
    BY <1>1, <2>3 DEF Answered, CanCarry, Effect, OnSuccess, Progress, Temp
  <2> QED
    BY <2>1, <2>2, <2>3
<1>2. ASSUME NEW w \in Writers, Refused(w)
      PROVE  NeverTorn' /\ \A v \in Writers : Progress(v)'
  <2>1. NeverTorn'
    BY <1>2 DEF Refused, NeverTorn
  <2>2. Progress(w)'
    BY <1>2 DEF Refused, OnError, Progress, Temp
  <2>3. ASSUME NEW v \in Writers \ {w} PROVE Progress(v)'
    BY <1>2, <2>3 DEF Refused, OnError, Progress, Temp
  <2> QED
    BY <2>1, <2>2, <2>3
<1>3. ASSUME NEW w \in Writers, ReplyLost(w)
      PROVE  NeverTorn' /\ \A v \in Writers : Progress(v)'
  <2>1. NeverTorn'
    BY <1>3 DEF ReplyLost, CanCarry, Effect, NeverTorn, Progress, Temp
  <2>2. Progress(w)'
    BY <1>3 DEF ReplyLost, CanCarry, Effect, OnError, Progress
  <2>3. ASSUME NEW v \in Writers \ {w} PROVE Progress(v)'
    BY <1>3, <2>3 DEF ReplyLost, CanCarry, Effect, OnError, Progress
  <2> QED
    BY <2>1, <2>2, <2>3
<1>4. CASE Disconnect
  BY <1>4 DEF Disconnect, NeverTorn, Progress
<1>5. CASE UNCHANGED vars
  BY <1>5 DEF vars, NeverTorn, Progress, Temp
<1> QED
  BY <1>1, <1>2, <1>3, <1>4, <1>5 DEF Next

\* The invariant holds in every reachable state.
LEMMA Invariance == Spec => []IInv
  BY Initially, Inductive, PTL DEF Spec

\* Every variable of a write keeps its type, whatever fails.
THEOREM TypeCorrect == Spec => []TypeOK
  BY Invariance, PTL DEF IInv

\* The path never shows a half written file or one with a temp file's permissions.
THEOREM WholeAndProtected == Spec => []NeverTorn
  BY Invariance, PTL DEF IInv

\* Success means that the file was replaced; an error, on a connection that still
\* works, that it was not.
THEOREM AnswersAreTrue == Spec => []AnswerTrue
<1>1. IInv => AnswerTrue
  BY DEF IInv, Progress, AnswerTrue
<1> QED
  BY <1>1, Invariance, PTL

\* No temp file outlives its write, but for a lost connection or a refused removal.
THEOREM TempsAreRemoved == Spec => []NoLitter
<1>1. IInv => NoLitter
  BY DEF IInv, Progress, Temp, NoLitter
<1> QED
  BY <1>1, Invariance, PTL

\* The requests of a write implement the one step of AtomicFile.
THEOREM ImplementsAtomicFile == Spec => ReplacesAtOnce
<1>1. Init => Abstract!Init
  BY DEF Init, Abstract!Init
<1>2. IInv /\ [Next]_vars => [Abstract!Next]_(Abstract!vars)
  <2> SUFFICES ASSUME IInv, [Next]_vars PROVE [Abstract!Next]_(Abstract!vars)
    OBVIOUS
  <2> USE DEF IInv, TypeOK, Abstract!vars, Abstract!Answer
  <2>1. ASSUME NEW w \in Writers, Answered(w) PROVE [Abstract!Next]_(Abstract!vars)
    <3>1. CASE pc[w] \in {"posix_rename", "rename"}
      <4>1. Abstract!Replace(w)
        BY <2>1, <3>1 DEF Answered, Effect, OnSuccess, Abstract!Replace, Progress, Temp
      <4> QED
        BY <4>1 DEF Abstract!Next
    <3>2. CASE pc[w] = "unlink"
      <4>1. Abstract!Vanish(w)
        BY <2>1, <3>2 DEF Answered, Effect, OnSuccess, Abstract!Vanish, Progress
      <4> QED
        BY <4>1 DEF Abstract!Next
    <3>3. CASE pc[w] = "cleanup"
      <4>1. Abstract!GiveUp(w)
        BY <2>1, <3>3 DEF Answered, Effect, OnSuccess, Abstract!GiveUp, Progress
      <4> QED
        BY <4>1 DEF Abstract!Next
    <3>4. CASE pc[w] \in {"mkdir", "create", "copy", "close", "chmod"}
      BY <2>1, <3>4 DEF Answered, Effect, OnSuccess
    <3> QED
      BY <2>1, <3>1, <3>2, <3>3, <3>4 DEF Answered, CanCarry
  <2>2. ASSUME NEW w \in Writers, Refused(w) PROVE [Abstract!Next]_(Abstract!vars)
    <3>1. CASE pc[w] \in {"mkdir", "create", "cleanup"}
      <4>1. Abstract!GiveUp(w)
        BY <2>2, <3>1 DEF Refused, OnError, Abstract!GiveUp, Progress
      <4> QED
        BY <4>1 DEF Abstract!Next
    <3>2. CASE pc[w] \notin {"mkdir", "create", "cleanup"}
      BY <2>2, <3>2 DEF Refused, OnError
    <3> QED
      BY <3>1, <3>2
  <2>3. ASSUME NEW w \in Writers, ReplyLost(w) PROVE [Abstract!Next]_(Abstract!vars)
    <3>1. CASE pc[w] \in {"posix_rename", "rename"}
      <4>1. Abstract!Replace(w)
        BY <2>3, <3>1 DEF ReplyLost, Effect, OnError, Abstract!Replace, Progress, Temp
      <4> QED
        BY <4>1 DEF Abstract!Next
    <3>2. CASE pc[w] = "unlink"
      <4>1. Abstract!Vanish(w)
        BY <2>3, <3>2 DEF ReplyLost, Effect, OnError, Abstract!Vanish, Progress
      <4> QED
        BY <4>1 DEF Abstract!Next
    <3>3. CASE pc[w] \in {"mkdir", "create", "cleanup"}
      <4>1. Abstract!GiveUp(w)
        BY <2>3, <3>3 DEF ReplyLost, Effect, OnError, Abstract!GiveUp, Progress
      <4> QED
        BY <4>1 DEF Abstract!Next
    <3>4. CASE pc[w] \in {"copy", "close", "chmod"}
      BY <2>3, <3>4 DEF ReplyLost, Effect, OnError
    <3> QED
      BY <2>3, <3>1, <3>2, <3>3, <3>4 DEF ReplyLost, CanCarry
  <2>4. CASE Disconnect
    BY <2>4 DEF Disconnect
  <2>5. CASE UNCHANGED vars
    BY <2>5 DEF vars
  <2> QED
    BY <2>1, <2>2, <2>3, <2>4, <2>5 DEF Next
<1> QED
  BY <1>1, <1>2, Invariance, PTL DEF Spec, ReplacesAtOnce, Abstract!Spec

-----------------------------------------------------------------------------
(* What NeverMissing promises holds where the fallback is not needed, and      *)
(* every write comes to an end.                                                *)

\* On a server with posix-rename a file that is at the path stays there: only the
\* fallback of atomicWriteMode removes it.
THEOREM KeptWhereRenamed ==
    Spec => [][posix = Writers /\ dest # Absent => dest' # Absent]_vars
<1>1. IInv /\ [Next]_vars => [posix = Writers /\ dest # Absent => dest' # Absent]_vars
  <2> SUFFICES ASSUME IInv, Next, posix = Writers, dest # Absent PROVE dest' # Absent
    OBVIOUS
  <2> USE DEF IInv, TypeOK
  <2>1. ASSUME NEW w \in Writers, connected, CanCarry(w), Effect(w) PROVE dest' # Absent
    BY <2>1 DEF CanCarry, Effect, Progress, Temp
  <2>2. ASSUME NEW w \in Writers, Answered(w) \/ Refused(w) \/ ReplyLost(w) PROVE dest' # Absent
    BY <2>1, <2>2 DEF Answered, Refused, ReplyLost
  <2>3. CASE Disconnect
    BY <2>3 DEF Disconnect
  <2> QED
    BY <2>2, <2>3 DEF Next
<1> QED
  BY <1>1, Invariance, PTL DEF Spec

\* How many requests a write can still make: nine at the most, errors and all.
RequestsLeft(w) ==
    CASE pc[w] = "mkdir"        -> 9
      [] pc[w] = "create"       -> 8
      [] pc[w] = "copy"         -> 7
      [] pc[w] = "close"        -> 6
      [] pc[w] = "chmod"        -> 5
      [] pc[w] = "posix_rename" -> 4
      [] pc[w] = "unlink"       -> 3
      [] pc[w] = "rename"       -> 2
      [] pc[w] = "cleanup"      -> 1
      [] OTHER                  -> 0

\* Every request brings its write nearer to its end, whatever is answered: the fallback
\* and the removals of atomicWriteMode never go round in a circle.
THEOREM WritesDescend ==
    Spec => [][\A w \in Writers : pc'[w] # pc[w] => RequestsLeft(w)' < RequestsLeft(w)]_vars
<1>1. IInv /\ [Next]_vars =>
        [\A w \in Writers : pc'[w] # pc[w] => RequestsLeft(w)' < RequestsLeft(w)]_vars
  <2> SUFFICES ASSUME IInv, Next, NEW w \in Writers, pc'[w] # pc[w]
               PROVE  RequestsLeft(w)' < RequestsLeft(w)
    OBVIOUS
  <2> USE DEF IInv, TypeOK
  <2>1. pc[w] \in Requests /\ (OnSuccess(w) \/ OnError(w))
    BY DEF Next, Answered, Refused, ReplyLost, Disconnect, OnSuccess, OnError
  <2> QED
    BY <2>1 DEF OnSuccess, OnError, RequestsLeft
<1> QED
  BY <1>1, Invariance, PTL DEF Spec
=============================================================================
