---------------------------- MODULE NativeProofs -----------------------------
(***************************************************************************)
(* What the program does about native code, for any values of the          *)
(* constants: NativeCapture (what the args maps hold belongs to the calls   *)
(* that are running, or to an abandoned one; the scans keep to their        *)
(* budget), JniSymbols (functions have the names first registered for them) *)
(* and SoModules (each library and each image is one module, and whole).    *)
(***************************************************************************)
EXTENDS NativeCapture, JniSymbols, SoModules, SequenceTheorems, WellFoundedInduction, TLAPS

-----------------------------------------------------------------------------
(* NativeCapture.                                                            *)

(* What Disturbed changes of the frames of a thread. *)
LEMMA DisturbedFacts ==
  ASSUME ProbeType, NEW t \in Threads, NEW m \in Maps
  PROVE  /\ Disturbed(t, m) \in Seq(Frames)
         /\ Len(Disturbed(t, m)) = Len(calls[t])
         /\ \A n \in 1..Len(calls[t]) :
              /\ Disturbed(t, m)[n].map = calls[t][n].map
              /\ Disturbed(t, m)[n].args = calls[t][n].args
              /\ Disturbed(t, m)[n].kept <=> calls[t][n].kept /\ calls[t][n].map # m
<1> DEFINE f(n) == [calls[t][n] EXCEPT !.kept = @ /\ calls[t][n].map # m]
<1>1. calls[t] \in Seq(Frames) /\ Len(calls[t]) \in Nat
  BY DEF ProbeType
<1>2. ASSUME NEW n \in 1..Len(calls[t])
      PROVE  /\ f(n) \in Frames
             /\ f(n).map = calls[t][n].map /\ f(n).args = calls[t][n].args
             /\ f(n).kept <=> calls[t][n].kept /\ calls[t][n].map # m
  <2>1. calls[t][n] \in Frames
    BY <1>1, ElementOfSeq
  <2>2. PICK k \in Maps : calls[t][n] \in [map : {k}, args : Args(k), kept : BOOLEAN]
    BY <2>1 DEF Frames
  <2>3. f(n) \in [map : {k}, args : Args(k), kept : BOOLEAN]
    BY <2>2
  <2> QED
    BY <2>2, <2>3 DEF Frames
<1>3. [n \in 1..Len(calls[t]) |-> f(n)] \in Seq(Frames)
  BY <1>1, <1>2, SeqDef
<1> QED
  BY <1>1, <1>2, <1>3, LenProperties DEF Disturbed

(* The frames after the entry of a call. *)
LEMMA Pushed ==
  ASSUME ProbeType, NEW t \in Threads, NEW m \in Maps, NEW a \in Args(m), NEW b \in BOOLEAN
  PROVE  LET s == Append(Disturbed(t, m), [map |-> m, args |-> a, kept |-> b])
         IN /\ s \in Seq(Frames) /\ Len(s) = Len(calls[t]) + 1
            /\ s[Len(calls[t]) + 1] = [map |-> m, args |-> a, kept |-> b]
            /\ \A n \in 1..Len(calls[t]) :
                 /\ s[n].map = calls[t][n].map /\ s[n].args = calls[t][n].args
                 /\ s[n].kept <=> calls[t][n].kept /\ calls[t][n].map # m
<1> DEFINE x == [map |-> m, args |-> a, kept |-> b]
<1>1. x \in Frames
  BY DEF Frames
<1> HIDE DEF x
<1>2. Append(Disturbed(t, m), x) \in Seq(Frames)
  BY <1>1, DisturbedFacts
<1>3. /\ Len(Append(Disturbed(t, m), x)) = Len(calls[t]) + 1
      /\ Append(Disturbed(t, m), x)[Len(calls[t]) + 1] = x
      /\ \A n \in 1..Len(calls[t]) : Append(Disturbed(t, m), x)[n] = Disturbed(t, m)[n]
  BY <1>1, DisturbedFacts, AppendProperties
<1> QED
  BY <1>2, <1>3, DisturbedFacts DEF x

(* The frames after a return. *)
LEMMA Popped ==
  ASSUME ProbeType, NEW t \in Threads, calls[t] # <<>>
  PROVE  /\ Len(calls[t]) \in Nat \ {0} /\ Top(t) \in Frames
         /\ SubSeq(calls[t], 1, Len(calls[t]) - 1) \in Seq(Frames)
         /\ Len(SubSeq(calls[t], 1, Len(calls[t]) - 1)) = Len(calls[t]) - 1
         /\ \A n \in 1..Len(calls[t]) - 1 :
              SubSeq(calls[t], 1, Len(calls[t]) - 1)[n] = calls[t][n]
<1>1. calls[t] \in Seq(Frames) /\ Len(calls[t]) \in Nat \ {0}
  BY EmptySeq DEF ProbeType
<1>2. Top(t) \in Frames
  BY <1>1, ElementOfSeq DEF Top
<1> QED
  BY <1>1, <1>2, SubSeqProperties

-----------------------------------------------------------------------------

LEMMA EnterType ==
  ASSUME NativeAssumption, ProbeType, NEW t \in Threads, NEW m \in Maps, NEW a \in Args(m), Enter(t, m, a)
  PROVE  ProbeType'
<1> DEFINE b == a.size # 0 /\ a.size <= MaxSize /\ Takes(m, t)
           s == Append(Disturbed(t, m), [map |-> m, args |-> a, kept |-> b])
<1>1. s \in Seq(Frames)
  BY Pushed
<1>2. calls' = [calls EXCEPT ![t] = s]
  BY DEF Enter
<1>3. args' = args \/ args' = [args EXCEPT ![m][t] = a]
  BY DEF Enter, Key
<1>4. ncalls' \in 0..MaxCalls
  BY DEF Enter, ProbeType, NativeAssumption
<1>5. abandoned' = abandoned /\ mixed' = mixed /\ nested' \subseteq Threads
  BY DEF Enter, ProbeType
<1> HIDE DEF s, b
<1>6. calls' \in [Threads -> Seq(Frames)]
  BY <1>1, <1>2 DEF ProbeType
<1>7. DOMAIN args' = Maps /\ \A k \in Maps : args'[k] \in [Threads -> Args(k) \cup {NoArgs}]
  <2>1. ASSUME NEW k \in Maps PROVE args[k] \in [Threads -> Args(k) \cup {NoArgs}] /\ DOMAIN args = Maps
    BY DEF ProbeType
  <2>2. ASSUME args' = [args EXCEPT ![m][t] = a], NEW k \in Maps
        PROVE  args'[k] \in [Threads -> Args(k) \cup {NoArgs}]
    <3>1. args'[k] = IF k = m THEN [args[m] EXCEPT ![t] = a] ELSE args[k]
      BY <2>1, <2>2
    <3> QED
      BY <2>1, <3>1
  <2>3. DOMAIN args' = Maps
    BY <1>3, <2>1 DEF Maps
  <2> QED
    BY <1>3, <2>1, <2>2, <2>3
<1> QED
  BY <1>4, <1>5, <1>6, <1>7 DEF ProbeType

LEMMA LeaveType ==
  ASSUME ProbeType, NEW t \in Threads, NEW m \in Maps, Leave(t, m), mixed' \subseteq Threads
  PROVE  ProbeType'
<1>1. calls' = [calls EXCEPT ![t] = SubSeq(calls[t], 1, Len(calls[t]) - 1)] /\ calls[t] # <<>>
  BY DEF Leave
<1>2. calls' \in [Threads -> Seq(Frames)]
  BY <1>1, Popped DEF ProbeType
<1>3. DOMAIN args' = Maps /\ \A k \in Maps : args'[k] \in [Threads -> Args(k) \cup {NoArgs}]
  BY DEF Leave, Key, ProbeType
<1> QED
  BY <1>2, <1>3 DEF Leave, ProbeType

LEMMA AnnounceType ==
  ASSUME NativeAssumption, ring \in Seq(Events), Len(ring) <= Room,
         NEW b \in Buffers, NEW n \in Sizes, NEW x \in BOOLEAN,
         Announce([buf |-> b, size |-> n, exec |-> x])
  PROVE  ring' \in Seq(Events) /\ Len(ring') <= Room
<1> DEFINE e == [buf |-> b, size |-> n, exec |-> x]
<1>1. CASE ring' = ring
  BY <1>1
<1>2. CASE n >= MinSize /\ n <= MaxSize /\ Len(ring) < Room /\ ring' = Append(ring, e)
  <2>1. e \in Events
    BY <1>2 DEF Events, NativeAssumption
  <2> HIDE DEF e
  <2> QED
    BY <1>2, <2>1, AppendProperties, LenProperties DEF NativeAssumption
<1> QED
  BY <1>1, <1>2 DEF Announce, NativeAssumption

(* What handle_native_buffer_event does to the budget: nothing, or it skips  *)
(* the event, or it scans it, in the window that is open or in a new one.    *)
Have == IF Expired THEN Budget ELSE budget

Opened == window' = IF Expired THEN now ELSE window

Spent ==
  /\ Opened /\ Have = 0 /\ budget' = 0 /\ scans' = scans
  /\ skipped' = skipped \cup {[at |-> now, after |-> Len(scans)]}

Scanned ==
  /\ Opened /\ Have # 0 /\ budget' = Have - 1 /\ scans' = Append(scans, now)
  /\ skipped' = skipped

LEMMA HandleEffect ==
  HandleNativeBuffer => \/ UNCHANGED <<budget, window, scans, skipped>>
                        \/ Spent \/ Scanned
BY DEF HandleNativeBuffer, Scan, Spent, Scanned, Opened, Have

(* What the step of Next does not touch keeps its type. *)
THEOREM TypeCorrect == Spec => []TypeOK
<1> USE NativeAssumption, NoArgsAssumption
<1>1. Init => TypeOK
  <2> SUFFICES ASSUME Init PROVE TypeOK
    OBVIOUS
  <2>1. ProbeType
    BY EmptySeq DEF Init, ProbeType, NativeAssumption
  <2>2. UserType
    BY DEF Init, UserType, NativeAssumption
  <2> QED
    BY <2>1, <2>2, EmptySeq DEF Init, TypeOK, NativeAssumption
<1>2. TypeOK /\ [Next]_vars => TypeOK'
  <2> SUFFICES ASSUME TypeOK, [Next]_vars PROVE TypeOK'
    OBVIOUS
  <2> USE DEF TypeOK
  <2>1. ASSUME NEW t \in Threads, NEW m \in Maps, NEW a \in Args(m), Enter(t, m, a) PROVE TypeOK'
    <3>1. UNCHANGED <<ring, userVars>>
      BY <2>1 DEF Enter
    <3> QED
      BY <2>1, <3>1, EnterType DEF userVars, UserType
  <2>2. ASSUME NEW t \in Threads, ReturnCopy(t) PROVE TypeOK'
    <3>1. ring' \in Seq(Events) /\ Len(ring') <= Room
      <4> DEFINE a == args["copy"][t]
      <4>1. a \in Args("copy") \cup {NoArgs}
        BY DEF ProbeType, Maps
      <4>2. CASE ring' = ring
        BY <4>2
      <4>3. ASSUME a # NoArgs, NEW n \in Sizes, Announce([buf |-> a.buf, size |-> n, exec |-> FALSE])
            PROVE  ring' \in Seq(Events) /\ Len(ring') <= Room
        <5>1. a.buf \in Buffers
          BY <4>1, <4>3 DEF Args
        <5> QED
          BY <4>3, <5>1, AnnounceType
      <4> QED
        BY <2>2, <4>2, <4>3 DEF ReturnCopy, Key
    <3>2. ProbeType'
      BY <2>2, LeaveType DEF ReturnCopy, Maps, ProbeType
    <3>3. UserType'
      BY <2>2 DEF ReturnCopy, Leave, userVars, UserType
    <3> QED
      BY <3>1, <3>2, <3>3
  <2>3. ASSUME NEW t \in Threads, NEW b \in Buffers \cup {Failed}, ReturnMmap(t, b) PROVE TypeOK'
    <3> DEFINE a == args["alloc"][t]
    <3>1. ring' \in Seq(Events) /\ Len(ring') <= Room
      <4>1. a \in Args("alloc") \cup {NoArgs}
        BY DEF ProbeType, Maps
      <4>2. CASE ring' = ring
        BY <4>2
      <4>3. CASE a # NoArgs /\ b # Failed /\ Announce([buf |-> b, size |-> a.size, exec |-> a.exec])
        <5>1. a.size \in Sizes /\ a.exec \in BOOLEAN /\ b \in Buffers
          BY <4>1, <4>3 DEF Args
        <5> QED
          BY <4>3, <5>1, AnnounceType
      <4> QED
        BY <2>3, <4>2, <4>3 DEF ReturnMmap, Key
    <3>2. mixed' \subseteq Threads
      BY <2>3 DEF ReturnMmap, ProbeType
    <3>3. ProbeType'
      BY <2>3, <3>2, LeaveType DEF ReturnMmap, Maps
    <3>4. UserType'
      BY <2>3 DEF ReturnMmap, Leave, userVars, UserType
    <3> QED
      BY <3>1, <3>3, <3>4
  <2>4. ASSUME NEW t \in Threads, Abandon(t) PROVE TypeOK'
    <3>1. ProbeType'
      BY <2>4, EmptySeq DEF Abandon, ProbeType
    <3> QED
      BY <2>4, <3>1 DEF Abandon, userVars, UserType
  <2>5. ASSUME NEW b \in Buffers, NEW n \in Sizes, NEW x \in BOOLEAN, Mprotect(b, n, x) PROVE TypeOK'
    <3>1. ring' \in Seq(Events) /\ Len(ring') <= Room
      BY <2>5, AnnounceType DEF Mprotect
    <3>2. ProbeType'
      BY <2>5 DEF Mprotect, ProbeType
    <3> QED
      BY <2>5, <3>1, <3>2 DEF Mprotect, userVars, UserType
  <2>6. CASE HandleNativeBuffer
    <3>1. ring' \in Seq(Events) /\ Len(ring') <= Room
      BY <2>6, HeadTailProperties, LenProperties DEF HandleNativeBuffer
    <3>2. UNCHANGED <<probeVars, running, now>>
      BY <2>6 DEF HandleNativeBuffer
    <3>3. /\ window' \in 0..now /\ budget' \in 0..Budget
          /\ scans' \in Seq(0..MaxTime) /\ skipped' \subseteq [at : 0..MaxTime, after : Nat]
      <4>1. /\ Have \in 0..Budget /\ now \in 0..MaxTime /\ window \in 0..now
            /\ budget \in 0..Budget /\ scans \in Seq(0..MaxTime) /\ Len(scans) \in Nat
            /\ skipped \subseteq [at : 0..MaxTime, after : Nat]
        BY DEF UserType, NativeAssumption, Have
      <4>2. [at |-> now, after |-> Len(scans)] \in [at : 0..MaxTime, after : Nat]
        BY <4>1
      <4>3. CASE UNCHANGED <<budget, window, scans, skipped>>
        BY <4>1, <4>3
      <4>4. CASE Spent
        BY <4>1, <4>2, <4>4 DEF Spent, Opened
      <4>5. CASE Scanned
        BY <4>1, <4>5, AppendProperties DEF Scanned, Opened
      <4> QED
        BY <2>6, <4>3, <4>4, <4>5, HandleEffect
    <3>4. elfFiles' \subseteq elfCache' /\ elfCache' \subseteq Buffers
      BY <2>6 DEF HandleNativeBuffer, Scan, SaveNativeElf, UserType
    <3> QED
      BY <3>1, <3>2, <3>3, <3>4 DEF ProbeType, UserType, probeVars
  <2>7. CASE RequestStop
    BY <2>7 DEF RequestStop, ProbeType, UserType, probeVars
  <2>8. CASE Tick
    <3>1. ProbeType' /\ UNCHANGED ring
      BY <2>8 DEF Tick, ProbeType, probeVars
    <3>2. UserType'
      BY <2>8 DEF Tick, UserType
    <3> QED
      BY <3>1, <3>2
  <2>9. CASE UNCHANGED vars
    BY <2>9 DEF vars, probeVars, userVars, ProbeType, UserType
  <2> QED
    BY <2>1, <2>2, <2>3, <2>4, <2>5, <2>6, <2>7, <2>8, <2>9 DEF Next
<1> QED
  BY <1>1, <1>2, PTL DEF Spec

-----------------------------------------------------------------------------

(* A kept frame is the innermost one of its map; a thread that neither nested *)
(* nor abandoned a call has one frame of a map, and its entry or none.        *)
Matched ==
  /\ EntriesOwned /\ ArgsKept /\ OwnSize
  /\ \A t \in Threads : \A k, n \in 1..Len(calls[t]) :
       k < n /\ calls[t][k].map = calls[t][n].map => ~calls[t][k].kept
  /\ \A t \in Threads \ (abandoned \cup nested) : \A n \in 1..Len(calls[t]) :
       /\ args[calls[t][n].map][t] \in {calls[t][n].args, NoArgs}
       /\ \A k \in 1..Len(calls[t]) \ {n} : calls[t][k].map # calls[t][n].map

LEMMA EnterMatched ==
  ASSUME ProbeType, Matched, NEW t \in Threads, NEW m \in Maps, NEW a \in Args(m), Enter(t, m, a)
  PROVE  Matched'
<1> DEFINE b == a.size # 0 /\ a.size <= MaxSize /\ Takes(m, t)
           N == Len(calls[t])
           s == Append(Disturbed(t, m), [map |-> m, args |-> a, kept |-> b])
<1>0. EntriesOwned /\ ArgsKept /\ OwnSize
  BY DEF Matched
<1>1. /\ s \in Seq(Frames) /\ Len(s) = N + 1
      /\ s[N + 1].map = m /\ s[N + 1].args = a /\ (s[N + 1].kept <=> b)
      /\ \A n \in 1..N : /\ s[n].map = calls[t][n].map /\ s[n].args = calls[t][n].args
                         /\ s[n].kept <=> calls[t][n].kept /\ calls[t][n].map # m
  <2>1. b \in BOOLEAN
    OBVIOUS
  <2> HIDE DEF b
  <2> QED
    BY <2>1, Pushed
<1>2. calls'[t] = s /\ \A u \in Threads \ {t} : calls'[u] = calls[u]
  <2>1. calls' = [calls EXCEPT ![t] = s] /\ DOMAIN calls = Threads
    BY DEF Enter, ProbeType
  <2> HIDE DEF s
  <2> QED
    BY <2>1
<1>3. /\ b => args'[m][t] = a
      /\ ~b => args'[m][t] = args[m][t]
      /\ \A k \in Maps, u \in Threads : k # m \/ u # t => args'[k][u] = args[k][u]
  <2>1. DOMAIN args = Maps /\ DOMAIN args[m] = Threads
    BY DEF ProbeType
  <2>2. args' = IF b THEN [args EXCEPT ![m][t] = a] ELSE args
    BY DEF Enter, Key
  <2> HIDE DEF b
  <2>3. CASE b
    BY <2>1, <2>2, <2>3
  <2>4. CASE ~b
    BY <2>2, <2>4
  <2> QED
    BY <2>3, <2>4
<1>4. abandoned' = abandoned /\ mixed' = mixed /\ nested \subseteq nested'
      /\ (t \notin nested' => ~Within(t, m))
  BY DEF Enter
<1>5. N \in Nat /\ \A u \in Threads : Len(calls[u]) \in Nat
  BY LenProperties DEF ProbeType
<1>6. \A u \in Threads : \A n \in 1..Len(calls[u]) : calls[u][n].map \in Maps
  <2> TAKE u \in Threads
  <2> TAKE n \in 1..Len(calls[u])
  <2>1. calls[u][n] \in Frames
    BY ElementOfSeq DEF ProbeType
  <2> QED
    BY <2>1 DEF Frames
<1> HIDE DEF s, b, N
<1>7. \A n \in 1..Len(calls'[t]) : n \in 1..N \/ n = N + 1
  BY <1>1, <1>2, <1>5
<1>7a. Len(calls'[t]) = N + 1 /\ N + 1 \in 1..Len(calls'[t]) /\ \A n \in 1..N : n \in 1..Len(calls'[t])
  BY <1>1, <1>2, <1>5
<1>8. EntriesOwned'
  <2> SUFFICES ASSUME NEW k \in Maps, NEW u \in Threads, args'[k][u] # NoArgs
               PROVE  Within(u, k)' \/ u \in abandoned'
    BY DEF EntriesOwned
  <2>1. CASE u = t /\ k = m
    BY <1>1, <1>2, <1>7a, <2>1 DEF Within
  <2>2. CASE u = t /\ k # m
    <3>1. Within(t, k) \/ t \in abandoned
      BY <1>0, <1>3, <2>2 DEF EntriesOwned
    <3> QED
      BY <1>1, <1>2, <1>4, <1>7a, <2>2, <3>1 DEF Within, N
  <2>3. CASE u # t
    <3>1. Within(u, k) \/ u \in abandoned
      BY <1>0, <1>3, <2>3 DEF EntriesOwned
    <3> QED
      BY <1>2, <1>4, <2>3, <3>1 DEF Within
  <2> QED
    BY <2>1, <2>2, <2>3
<1>9. ArgsKept'
  <2> SUFFICES ASSUME NEW u \in Threads, NEW n \in 1..Len(calls'[u]), calls'[u][n].kept
               PROVE  args'[calls'[u][n].map][u] = calls'[u][n].args
    BY DEF ArgsKept
  <2>1. CASE u # t
    <3>1. args[calls[u][n].map][u] = calls[u][n].args
      BY <1>0, <1>2, <2>1 DEF ArgsKept
    <3> QED
      BY <1>2, <1>3, <1>6, <2>1, <3>1
  <2>2. CASE u = t /\ n = N + 1
    BY <1>1, <1>2, <1>3, <2>2
  <2>3. CASE u = t /\ n \in 1..N
    <3>1. calls[t][n].kept /\ calls[t][n].map # m
      BY <1>1, <1>2, <2>3
    <3>2. args[calls[t][n].map][t] = calls[t][n].args
      BY <1>0, <2>3, <3>1 DEF ArgsKept, N
    <3>3. calls'[t][n].map = calls[t][n].map /\ calls'[t][n].args = calls[t][n].args
      BY <1>1, <1>2, <2>3
    <3>4. calls[t][n].map \in Maps
      BY <1>6, <2>3 DEF N
    <3>5. args'[calls[t][n].map][t] = args[calls[t][n].map][t]
      BY <1>3, <3>1, <3>4
    <3> HIDE DEF N, s, b
    <3> QED
      BY <2>3, <3>2, <3>3, <3>5, Zenon
  <2> QED
    BY <1>7, <2>1, <2>2, <2>3
<1>10. OwnSize'
  BY <1>4 DEF Matched, OwnSize
<1>11. \A u \in Threads : \A k, n \in 1..Len(calls'[u]) :
         k < n /\ calls'[u][k].map = calls'[u][n].map => ~calls'[u][k].kept
  <2> SUFFICES ASSUME NEW u \in Threads, NEW k \in 1..Len(calls'[u]), NEW n \in 1..Len(calls'[u]),
                      k < n, calls'[u][k].map = calls'[u][n].map
               PROVE  ~calls'[u][k].kept
    OBVIOUS
  <2>1. CASE u # t
    BY <1>2, <2>1 DEF Matched
  <2>2. CASE u = t /\ n = N + 1
    <3>1. k \in 1..N
      BY <1>5, <1>7, <2>2
    <3> QED
      BY <1>1, <1>2, <2>2, <3>1
  <2>3. CASE u = t /\ n \in 1..N
    <3>1. k \in 1..N
      BY <1>5, <1>7, <2>3
    <3>2. ~calls[t][k].kept
      BY <1>1, <1>2, <2>3, <3>1 DEF Matched, N
    <3> QED
      BY <1>1, <1>2, <2>3, <3>1, <3>2
  <2> QED
    BY <1>7, <2>1, <2>2, <2>3
<1>12. ASSUME NEW u \in Threads \ (abandoned' \cup nested'), NEW n \in 1..Len(calls'[u])
       PROVE  /\ args'[calls'[u][n].map][u] \in {calls'[u][n].args, NoArgs}
              /\ \A k \in 1..Len(calls'[u]) \ {n} : calls'[u][k].map # calls'[u][n].map
  <2>0. u \in Threads \ (abandoned \cup nested)
    BY <1>4
  <2>1. CASE u # t
    BY <1>2, <1>3, <1>6, <2>0, <2>1 DEF Matched
  <2>2. CASE u = t
    <3>1. \A k \in 1..N : calls[t][k].map # m
      BY <1>4, <2>2 DEF Within, N
    <3>2. args[m][t] = NoArgs
      BY <2>0, <2>2, <3>1 DEF Matched, EntriesOwned, Within, N
    <3>3. CASE n = N + 1
      BY <1>1, <1>2, <1>3, <1>7, <2>2, <3>1, <3>2, <3>3
    <3>4. CASE n \in 1..N
      <4>1. /\ args[calls[t][n].map][t] \in {calls[t][n].args, NoArgs}
            /\ \A k \in 1..N \ {n} : calls[t][k].map # calls[t][n].map
        BY <2>0, <2>2, <3>4 DEF Matched, N
      <4>2. args'[calls[t][n].map][t] = args[calls[t][n].map][t]
        BY <1>3, <1>6, <3>1, <3>4 DEF N
      <4>3. \A k \in 1..Len(calls'[t]) \ {n} : calls'[t][k].map # calls'[t][n].map
        BY <1>1, <1>2, <1>7, <3>1, <3>4, <4>1
      <4> QED
        BY <1>1, <1>2, <2>2, <3>4, <4>1, <4>2, <4>3
    <3> QED
      BY <1>7, <2>2, <3>3, <3>4
  <2> QED
    BY <2>1, <2>2
<1> QED
  BY <1>8, <1>9, <1>10, <1>11, <1>12 DEF Matched

LEMMA LeaveMatched ==
  ASSUME ProbeType, Matched, NEW t \in Threads, NEW m \in Maps, Leave(t, m),
         mixed' \subseteq abandoned \cup nested
  PROVE  Matched'
<1> DEFINE N == Len(calls[t])
<1>0. EntriesOwned /\ ArgsKept
  BY DEF Matched
<1>1. /\ calls'[t] = SubSeq(calls[t], 1, N - 1) /\ calls[t] # <<>> /\ calls[t][N].map = m
      /\ \A u \in Threads \ {t} : calls'[u] = calls[u]
  BY DEF Leave, Top, ProbeType
<1>2. /\ N \in Nat \ {0} /\ Len(calls'[t]) = N - 1
      /\ \A n \in 1..N - 1 : calls'[t][n] = calls[t][n]
  BY <1>1, Popped
<1>3. /\ args'[m][t] = NoArgs
      /\ \A k \in Maps, u \in Threads : k # m \/ u # t => args'[k][u] = args[k][u]
  BY DEF Leave, Key, ProbeType
<1>4. abandoned' = abandoned /\ nested' = nested
  BY DEF Leave
<1>6. \A u \in Threads : \A n \in 1..Len(calls[u]) : calls[u][n].map \in Maps
  <2> TAKE u \in Threads
  <2> TAKE n \in 1..Len(calls[u])
  <2>1. calls[u][n] \in Frames
    BY ElementOfSeq DEF ProbeType
  <2> QED
    BY <2>1 DEF Frames
<1>7. /\ \A n \in 1..Len(calls'[t]) : n \in 1..N /\ n \in 1..N - 1 /\ n < N
      /\ N \in 1..N /\ \A n \in 1..N : n # N => n \in 1..Len(calls'[t])
  BY <1>2
<1>8. EntriesOwned'
  <2> SUFFICES ASSUME NEW k \in Maps, NEW u \in Threads, args'[k][u] # NoArgs
               PROVE  Within(u, k)' \/ u \in abandoned'
    BY DEF EntriesOwned
  <2>1. Within(u, k) \/ u \in abandoned
    BY <1>0, <1>3 DEF EntriesOwned
  <2>2. CASE u = t
    BY <1>1, <1>2, <1>3, <1>4, <1>7, <2>1, <2>2 DEF Within, N
  <2>3. CASE u # t
    BY <1>1, <1>4, <2>1, <2>3 DEF Within
  <2> QED
    BY <2>2, <2>3
<1>9. ArgsKept'
  <2> SUFFICES ASSUME NEW u \in Threads, NEW n \in 1..Len(calls'[u]), calls'[u][n].kept
               PROVE  args'[calls'[u][n].map][u] = calls'[u][n].args
    BY DEF ArgsKept
  <2>1. CASE u # t
    BY <1>0, <1>1, <1>3, <1>6, <2>1 DEF ArgsKept
  <2>2. CASE u = t
    <3>1. calls'[t][n] = calls[t][n] /\ n \in 1..N /\ n < N
      BY <1>2, <1>7, <2>2
    <3>2. calls[t][n].map # m
      BY <1>1, <1>7, <2>2, <3>1 DEF Matched, N
    <3> QED
      BY <1>0, <1>3, <1>6, <2>2, <3>1, <3>2 DEF ArgsKept, N
  <2> QED
    BY <2>1, <2>2
<1>10. OwnSize'
  BY <1>4 DEF OwnSize
<1>11. \A u \in Threads : \A k, n \in 1..Len(calls'[u]) :
         k < n /\ calls'[u][k].map = calls'[u][n].map => ~calls'[u][k].kept
  <2> SUFFICES ASSUME NEW u \in Threads, NEW k \in 1..Len(calls'[u]), NEW n \in 1..Len(calls'[u]),
                      k < n, calls'[u][k].map = calls'[u][n].map
               PROVE  ~calls'[u][k].kept
    OBVIOUS
  <2>1. CASE u # t
    BY <1>1, <2>1 DEF Matched
  <2>2. CASE u = t
    <3>1. /\ calls'[t][k] = calls[t][k] /\ k \in 1..N
          /\ calls'[t][n] = calls[t][n] /\ n \in 1..N
      BY <1>2, <1>7, <2>2
    <3> QED
      BY <2>2, <3>1 DEF Matched, N
  <2> QED
    BY <2>1, <2>2
<1>12. ASSUME NEW u \in Threads \ (abandoned' \cup nested'), NEW n \in 1..Len(calls'[u])
       PROVE  /\ args'[calls'[u][n].map][u] \in {calls'[u][n].args, NoArgs}
              /\ \A k \in 1..Len(calls'[u]) \ {n} : calls'[u][k].map # calls'[u][n].map
  <2>1. CASE u # t
    BY <1>1, <1>3, <1>4, <1>6, <2>1 DEF Matched
  <2>2. CASE u = t
    <3>1. calls'[t][n] = calls[t][n] /\ n \in 1..N
      BY <1>2, <1>7, <2>2
    <3>2. args'[calls[t][n].map][t] \in {args[calls[t][n].map][t], NoArgs}
      BY <1>3, <1>6, <3>1 DEF N
    <3>3. /\ args[calls[t][n].map][t] \in {calls[t][n].args, NoArgs}
          /\ \A k \in 1..N \ {n} : calls[t][k].map # calls[t][n].map
      BY <1>4, <2>2, <3>1 DEF Matched, N
    <3> QED
      BY <1>2, <1>7, <2>2, <3>1, <3>2, <3>3
  <2> QED
    BY <2>1, <2>2
<1> QED
  BY <1>8, <1>9, <1>10, <1>11, <1>12 DEF Matched

(* The entries, the frames and the history of Matched. *)
matchedVars == <<calls, args, abandoned, nested, mixed>>

(* What the args maps hold is accounted for: entries belong to running or    *)
(* abandoned calls, a call finds its own arguments, and a mapping is only    *)
(* announced with another call's size by a thread that nested or abandoned.  *)
THEOREM EntriesMatch == Spec => []ArgsMatchCalls
<1> USE NativeAssumption, NoArgsAssumption
<1>1. Init => Matched
  BY DEF Init, Matched, EntriesOwned, ArgsKept, OwnSize
<1>2. TypeOK /\ Matched /\ [Next]_vars => Matched'
  <2> SUFFICES ASSUME ProbeType, Matched, [Next]_vars PROVE Matched'
    BY DEF TypeOK
  <2>0. ASSUME UNCHANGED matchedVars PROVE Matched'
    BY <2>0 DEF matchedVars, Matched, EntriesOwned, ArgsKept, OwnSize, Within
  <2>1. ASSUME NEW t \in Threads, NEW m \in Maps, NEW a \in Args(m), Enter(t, m, a) PROVE Matched'
    BY <2>1, EnterMatched
  <2>2. ASSUME NEW t \in Threads, ReturnCopy(t) PROVE Matched'
    BY <2>2, LeaveMatched DEF ReturnCopy, Maps, Matched, OwnSize
  <2>3. ASSUME NEW t \in Threads, NEW b \in Buffers \cup {Failed}, ReturnMmap(t, b) PROVE Matched'
    <3> DEFINE n == Len(calls[t])
               a == args["alloc"][t]
    <3>1. calls[t] # <<>> /\ n \in 1..n /\ calls[t][n].map = "alloc"
      BY <2>3, Popped DEF ReturnMmap, Leave, Top
    <3>2. t \in abandoned \cup nested \/ a \in {Top(t).args, NoArgs}
      BY <3>1 DEF Matched, Top
    <3>3. mixed' = mixed \/ (a # NoArgs /\ a # Top(t).args /\ mixed' = mixed \cup {t})
      BY <2>3 DEF ReturnMmap, Key
    <3>4. mixed' \subseteq abandoned \cup nested
      BY <3>2, <3>3 DEF Matched, OwnSize
    <3> QED
      BY <2>3, <3>4, LeaveMatched DEF ReturnMmap, Maps
  <2>4. ASSUME NEW t \in Threads, Abandon(t) PROVE Matched'
    <3>1. /\ calls'[t] = <<>> /\ Len(calls'[t]) = 0
          /\ \A u \in Threads \ {t} : calls'[u] = calls[u]
          /\ args' = args /\ abandoned' = abandoned \cup {t} /\ nested' = nested /\ mixed' = mixed
      BY <2>4, EmptySeq DEF Abandon, ProbeType
    <3>2. EntriesOwned'
      BY <3>1 DEF Matched, EntriesOwned, Within
    <3>3. ArgsKept' /\ OwnSize'
      BY <3>1 DEF Matched, ArgsKept, OwnSize
    <3> QED
      BY <3>1, <3>2, <3>3 DEF Matched
  <2>5. ASSUME NEW b \in Buffers, NEW n \in Sizes, NEW x \in BOOLEAN, Mprotect(b, n, x) PROVE Matched'
    BY <2>0, <2>5 DEF Mprotect, matchedVars
  <2>6. CASE HandleNativeBuffer
    BY <2>0, <2>6 DEF HandleNativeBuffer, probeVars, matchedVars
  <2>7. CASE RequestStop \/ Tick
    BY <2>0, <2>7 DEF RequestStop, Tick, probeVars, matchedVars
  <2>8. CASE UNCHANGED vars
    BY <2>0, <2>8 DEF vars, probeVars, matchedVars
  <2> QED
    BY <2>1, <2>2, <2>3, <2>4, <2>5, <2>6, <2>7, <2>8 DEF Next
<1>3. Matched => ArgsMatchCalls
  BY DEF Matched, ArgsMatchCalls
<1> QED
  BY <1>1, <1>2, <1>3, TypeCorrect, PTL DEF Spec

(* An ELF image whose write failed is never written later. *)
THEOREM TriedOnce == Spec => ElfTriedOnce
<1>1. TypeOK /\ [Next]_vars => [\A b \in elfCache : b \in elfFiles <=> b \in elfFiles']_vars
  <2> SUFFICES ASSUME TypeOK, Next PROVE \A b \in elfCache : b \in elfFiles <=> b \in elfFiles'
    OBVIOUS
  <2>1. CASE elfFiles' = elfFiles
    BY <2>1
  <2>2. ASSUME NEW c \in Buffers, SaveNativeElf(c)
        PROVE  \A b \in elfCache : b \in elfFiles <=> b \in elfFiles'
    BY <2>2 DEF SaveNativeElf
  <2>3. CASE HandleNativeBuffer
    BY <2>1, <2>2, <2>3 DEF HandleNativeBuffer, Scan
  <2>4. CASE ~HandleNativeBuffer
    BY <2>1, <2>4 DEF Next, Enter, ReturnCopy, ReturnMmap, Leave, Abandon, Mprotect, RequestStop, Tick,
                      userVars
  <2> QED
    BY <2>3, <2>4
<1> QED
  BY <1>1, TypeCorrect, PTL DEF Spec, ElfTriedOnce

-----------------------------------------------------------------------------

(* The scans before the open window.                                         *)
Before == Len(scans) - (Budget - budget)

(* The open window accounts for what was spent: the scans since it opened    *)
(* are the last ones, all of them younger than its end; those of the windows *)
(* before ended before it opened, and all but the last Budget of these a     *)
(* whole window before.                                                      *)
WindowInv ==
  /\ Before \in Nat
  /\ \A n \in 1..Len(scans) : scans[n] <= now /\ scans[n] <= window + Window
  /\ \A n \in 1..Len(scans) : n > Before => scans[n] >= window
  /\ \A n \in 1..Len(scans) : n + Budget <= Before => scans[n] + Window < window
  /\ \A n \in 1..Len(scans) : n <= Before => scans[n] < window

SkipsKnown == \A s \in skipped : s.after <= Len(scans)

BudgetInv == WindowInv /\ SkipsKnown /\ BudgetHeld

LEMMA AppendedScan ==
  ASSUME TypeOK, Scanned
  PROVE  /\ Len(scans') = Len(scans) + 1 /\ scans'[Len(scans) + 1] = now
         /\ \A n \in 1..Len(scans) : scans'[n] = scans[n]
BY AppendProperties DEF TypeOK, UserType, Scanned

LEMMA WithinWindow ==
  ASSUME NEW x \in Nat, NEW open \in Nat, NEW t \in Nat, NEW w \in Nat, x >= open, t <= open + w
  PROVE  x + w >= t
OBVIOUS

LEMMA BudgetInductive == TypeOK /\ BudgetInv /\ [Next]_vars => BudgetInv'
<1> SUFFICES ASSUME TypeOK, BudgetInv, [Next]_vars
             PROVE  BudgetInv'
  OBVIOUS
<1>t. /\ Budget \in Nat /\ Window \in Nat /\ now \in Nat /\ window \in 0..now /\ budget \in 0..Budget
      /\ scans \in Seq(Nat) /\ Len(scans) \in Nat /\ \A n \in 1..Len(scans) : scans[n] \in Nat
      /\ DOMAIN scans = 1..Len(scans) /\ \A s \in skipped : s.at \in Nat /\ s.after \in Nat
  BY NativeAssumption DEF TypeOK, UserType, NativeAssumption
<1>1. CASE UNCHANGED <<budget, window, scans, skipped, now>>
  BY <1>1 DEF BudgetInv, WindowInv, Before, SkipsKnown, BudgetHeld, RateBounded, SkipsUnderLoad
<1>2. CASE Tick
  <2>1. now' = now + 1 /\ UNCHANGED <<budget, window, scans, skipped>>
    BY <1>2 DEF Tick
  <2> QED
    BY <1>t, <2>1 DEF BudgetInv, WindowInv, Before, SkipsKnown, BudgetHeld, RateBounded, SkipsUnderLoad
<1>3. ASSUME Opened, now' = now, Have \in 0..Budget,
             Expired => Budget = Have, ~Expired => Have = budget
      PROVE  /\ window' \in 0..now /\ now <= window' + Window
             /\ Len(scans) - (Budget - Have) \in Nat
             /\ \A n \in 1..Len(scans) : scans[n] <= now /\ scans[n] <= window' + Window
             /\ \A n \in 1..Len(scans) : n > Len(scans) - (Budget - Have) => scans[n] >= window'
             /\ \A n \in 1..Len(scans) : n + Budget <= Len(scans) - (Budget - Have) => scans[n] + Window < window'
             /\ \A n \in 1..Len(scans) : n <= Len(scans) - (Budget - Have) => scans[n] < window'
  <2>0. WindowInv
    BY DEF BudgetInv
  <2>1. CASE Expired
    <3>1. window' = now /\ Have = Budget /\ now > window + Window
      BY <1>t, <1>3, <2>1 DEF Opened, Expired
    <3>2. Len(scans) - (Budget - Have) = Len(scans)
      BY <3>1, <1>t
    <3>3. ASSUME NEW n \in 1..Len(scans), n + Budget <= Len(scans)
          PROVE  scans[n] < window
      BY <3>3, <1>t, <2>0 DEF WindowInv, Before
    <3> QED
      BY <3>1, <3>2, <3>3, <1>t, <2>0 DEF WindowInv
  <2>2. CASE ~Expired
    <3>1. window' = window /\ Have = budget /\ now <= window + Window
      BY <1>t, <1>3, <2>2 DEF Opened, Expired
    <3> QED
      BY <3>1, <1>t, <2>0 DEF WindowInv, Before
  <2> QED
    BY <2>1, <2>2
<1>4. /\ Have \in 0..Budget /\ (Expired => Budget = Have) /\ (~Expired => Have = budget)
  BY <1>t DEF Have
<1>5. CASE Spent /\ now' = now
  <2>1. WindowInv'
    <3>1. UNCHANGED scans /\ Before' = Len(scans) - (Budget - Have)
      BY <1>4, <1>5 DEF Spent, Before
    <3>2. /\ Before' \in Nat
          /\ \A n \in 1..Len(scans) : scans[n] <= now /\ scans[n] <= window' + Window
          /\ \A n \in 1..Len(scans) : n > Before' => scans[n] >= window'
          /\ \A n \in 1..Len(scans) : n + Budget <= Before' => scans[n] + Window < window'
          /\ \A n \in 1..Len(scans) : n <= Before' => scans[n] < window'
      BY <1>3, <1>4, <1>5, <3>1 DEF Spent
    <3> QED
      BY <1>5, <3>1, <3>2 DEF WindowInv
  <2>2. SkipsKnown' /\ RateBounded'
    BY <1>5, <1>t DEF Spent, BudgetInv, SkipsKnown, BudgetHeld, RateBounded
  <2>3. ASSUME Budget > 0
        PROVE  Len(scans) >= Budget /\ scans[Len(scans) - Budget + 1] + Window >= now
    <3>1. Have = 0 /\ Len(scans) - Budget \in Nat
      BY <1>3, <1>4, <1>5, <1>t DEF Spent
    <3>2. Len(scans) - Budget + 1 \in 1..Len(scans)
      BY <3>1, <1>t, <2>3
    <3>3. /\ scans[Len(scans) - Budget + 1] >= window'
          /\ now <= window' + Window /\ window' \in Nat
      <4>1. /\ window' \in 0..now /\ now <= window' + Window
            /\ \A n \in 1..Len(scans) : n > Len(scans) - (Budget - Have) => scans[n] >= window'
        BY <1>3, <1>4, <1>5 DEF Spent
      <4>2. Len(scans) - Budget + 1 > Len(scans) - (Budget - Have)
        BY <3>1, <1>t
      <4>3. scans[Len(scans) - Budget + 1] >= window'
        BY <4>1, <4>2, <3>2
      <4>4. window' \in Nat
        BY <4>1, <1>t
      <4> QED
        BY <4>1, <4>3, <4>4, Zenon
    <3>4. scans[Len(scans) - Budget + 1] \in Nat
      BY <3>2, <1>t
    <3>5. Len(scans) >= Budget
      BY <3>1, <1>t
    <3> DEFINE x == scans[Len(scans) - Budget + 1]
    <3> HIDE DEF x
    <3>6. x \in Nat /\ x >= window' /\ now <= window' + Window /\ window' \in Nat
      BY <3>3, <3>4 DEF x
    <3>7. x + Window >= now
      BY <3>6, <1>t, WithinWindow
    <3> QED
      BY <3>5, <3>7 DEF x
  <2>4. SkipsUnderLoad'
    <3>1. /\ scans' = scans /\ SkipsUnderLoad
          /\ skipped' = skipped \cup {[at |-> now, after |-> Len(scans)]}
      BY <1>5 DEF Spent, BudgetInv, BudgetHeld
    <3> QED
      BY <1>5, <1>t, <2>3, <3>1 DEF SkipsUnderLoad
  <2> QED
    BY <2>1, <2>2, <2>4 DEF BudgetInv, BudgetHeld
<1>6. CASE Scanned /\ now' = now
  <2>0. /\ Len(scans') = Len(scans) + 1 /\ scans'[Len(scans) + 1] = now
        /\ \A n \in 1..Len(scans) : scans'[n] = scans[n]
        /\ DOMAIN scans' = 1..Len(scans) + 1 /\ skipped' = skipped /\ budget' = Have - 1
        /\ Have \in 1..Budget
    BY <1>4, <1>6, AppendedScan, <1>t, AppendProperties DEF Scanned
  <2>w. /\ window' \in 0..now /\ now <= window' + Window
        /\ Len(scans) - (Budget - Have) \in Nat
        /\ \A n \in 1..Len(scans) : scans[n] <= now /\ scans[n] <= window' + Window
        /\ \A n \in 1..Len(scans) : n > Len(scans) - (Budget - Have) => scans[n] >= window'
        /\ \A n \in 1..Len(scans) : n + Budget <= Len(scans) - (Budget - Have) => scans[n] + Window < window'
        /\ \A n \in 1..Len(scans) : n <= Len(scans) - (Budget - Have) => scans[n] < window'
    BY <1>3, <1>4, <1>6 DEF Scanned
  <2>b. Before' = Len(scans) - (Budget - Have)
    BY <2>0, <1>t DEF Before
  <2>1. WindowInv'
    <3>1. Before' \in Nat /\ now \in Nat /\ window' \in Nat /\ now >= window' /\ Before' <= Len(scans)
      BY <2>0, <2>w, <2>b, <1>t
    <3>2. ASSUME NEW n \in 1..Len(scans) + 1
          PROVE  /\ scans'[n] <= now /\ scans'[n] <= window' + Window
                 /\ n > Before' => scans'[n] >= window'
                 /\ n + Budget <= Before' => scans'[n] + Window < window'
                 /\ n <= Before' => scans'[n] < window'
      <4>1. CASE n = Len(scans) + 1
        <5>1. scans'[n] = now /\ now <= window' + Window /\ ~(n <= Before')
          <6>1. scans'[n] = now /\ ~(n <= Before')
            BY <4>1, <3>1, <2>0, <1>t
          <6> QED
            BY <6>1, <2>w
        <5>2. ~(n + Budget <= Before')
          BY <5>1, <3>1, <1>t
        <5> QED
          BY <5>1, <5>2, <3>1
      <4>2. CASE n \in 1..Len(scans)
        BY <4>2, <3>1, <2>0, <2>w, <2>b
      <4> QED
        BY <4>1, <4>2, <1>t
    <3> QED
      BY <3>1, <3>2, <2>0, <1>6 DEF WindowInv
  <2>2. SkipsKnown'
    BY <2>0, <1>t DEF BudgetInv, SkipsKnown
  <2>3. ASSUME NEW n \in 1..Len(scans) + 1, n + 2 * Budget <= Len(scans) + 1
        PROVE  scans'[n + 2 * Budget] > scans'[n] + Window
    <3>1. n \in 1..Len(scans)
      BY <2>0, <2>3, <1>t
    <3>2. CASE n + 2 * Budget <= Len(scans)
      <4>1. n + 2 * Budget \in 1..Len(scans)
        BY <3>1, <3>2, <1>t
      <4>2. scans[n + 2 * Budget] > scans[n] + Window
        BY <3>1, <3>2, <1>t DEF BudgetInv, BudgetHeld, RateBounded
      <4> QED
        BY <2>0, <3>1, <4>1, <4>2
    <3>3. CASE n + 2 * Budget = Len(scans) + 1
      <4>1. n + Budget <= Len(scans) - (Budget - Have)
        BY <2>0, <3>3, <1>t
      <4>2. scans[n] + Window < window' /\ window' <= now
        BY <2>w, <3>1, <4>1, <1>t
      <4>3. scans[n] \in Nat /\ scans'[n] = scans[n] /\ scans'[n + 2 * Budget] = now
        BY <2>0, <3>1, <3>3, <1>t
      <4> QED
        BY <2>w, <4>2, <4>3, <1>t
    <3> QED
      BY <2>3, <3>2, <3>3, <1>t
  <2>4. RateBounded'
    BY <2>0, <2>3 DEF RateBounded
  <2>5. SkipsUnderLoad'
    <3> SUFFICES ASSUME Budget > 0, NEW s \in skipped
                 PROVE  s.after >= Budget /\ scans'[s.after - Budget + 1] + Window >= s.at
      BY <2>0 DEF SkipsUnderLoad
    <3>1. /\ s.after >= Budget /\ s.after <= Len(scans)
          /\ scans[s.after - Budget + 1] + Window >= s.at
      BY DEF BudgetInv, SkipsKnown, BudgetHeld, SkipsUnderLoad
    <3>2. s.after - Budget + 1 \in 1..Len(scans)
      BY <3>1, <1>t
    <3> QED
      BY <2>0, <3>1, <3>2
  <2> QED
    BY <2>1, <2>2, <2>4, <2>5 DEF BudgetInv, BudgetHeld
<1>7. CASE HandleNativeBuffer
  <2>1. now' = now
    BY <1>7 DEF HandleNativeBuffer
  <2> QED
    BY <2>1, <1>1, <1>5, <1>6, <1>7, HandleEffect
<1> QED
  BY <1>1, <1>2, <1>7 DEF Next, Enter, ReturnCopy, ReturnMmap, Leave, Abandon, Mprotect, RequestStop,
                          vars, userVars

(* The budget is a bound: no second sees more than twice as many scans, and  *)
(* no event is skipped but within a second of as many as the budget allows.  *)
THEOREM BudgetBounds == Spec => []BudgetHeld
<1>1. Init => BudgetInv
  BY NativeAssumption, EmptySeq DEF Init, BudgetInv, WindowInv, Before, SkipsKnown, BudgetHeld,
        RateBounded, SkipsUnderLoad, NativeAssumption
<1>2. BudgetInv => BudgetHeld
  BY DEF BudgetInv
<1> QED
  BY <1>1, <1>2, BudgetInductive, TypeCorrect, PTL DEF Spec

-----------------------------------------------------------------------------
(* JniSymbols.                                                               *)

JniEvents == [pid : Pids, fn : Fns, name : Names \cup {NoName}]

Registrations == [pid : Pids, fn : Fns, name : Names \cup {NoName}, lib : Libs \cup {NoLib}]

JniType ==
  /\ table \in [Pids -> Seq(Entries)] /\ home \in [Pids -> [Fns -> Libs \cup {NoLib}]]
  /\ jni_events \in Seq(JniEvents)
  /\ methods \in Seq(JniEvents) /\ \A n \in 1..Len(methods) : methods[n].name # NoName
  /\ phase \in {"capture", "drain", "done"}
  /\ first \in [Pids -> [Fns -> Names \cup {NoName}]]
  /\ registered \subseteq Registrations

(* Where a name of function f of process p is in sequence s, and the name    *)
(* that is there first.                                                      *)
Hits(s, p, f) == {n \in 1..Len(s) : s[n].pid = p /\ s[n].fn = f /\ s[n].name # NoName}

Earliest(s, p, f, name) ==
  \E n \in Hits(s, p, f) : s[n].name = name /\ \A k \in Hits(s, p, f) : n <= k

FirstInv ==
  \A p \in Pids, f \in Fns :
    /\ first[p][f] = NoName <=> Hits(methods, p, f) = {} /\ Hits(jni_events, p, f) = {}
    /\ Hits(methods, p, f) # {} => Earliest(methods, p, f, first[p][f])
    /\ Hits(methods, p, f) = {} /\ Hits(jni_events, p, f) # {} =>
         Earliest(jni_events, p, f, first[p][f])

(* What is kept of an entry that was walked. *)
Same(r, e) == r.pid = e.pid /\ r.fn = e.fn /\ r.name = e.name
Walked(e) == \E r \in registered : Same(r, e)

RegisteredInv ==
  /\ \A n \in 1..Len(jni_events) : Walked(jni_events[n])
  /\ \A n \in 1..Len(methods) : Walked(methods[n])
  /\ \A r \in registered : <<r.pid, r.fn>> \in moved \/ home[r.pid][r.fn] = r.lib

FilesInv ==
  /\ phase # "done" => symbols = [f \in Files |-> {}]
  /\ RawNamesFirst /\ SymbolsExact

JniInv == JniType /\ FirstInv /\ RegisteredInv /\ FilesInv

-----------------------------------------------------------------------------

LEMMA EventFacts ==
  ASSUME NEW s \in Seq(JniEvents)
  PROVE  /\ Len(s) \in Nat /\ DOMAIN s = 1..Len(s)
         /\ \A n \in 1..Len(s) : /\ s[n] \in JniEvents /\ s[n].pid \in Pids /\ s[n].fn \in Fns
                                 /\ s[n].name \in Names \cup {NoName}
<1>1. Len(s) \in Nat /\ DOMAIN s = 1..Len(s)
  BY LenProperties
<1>2. ASSUME NEW n \in 1..Len(s)
      PROVE  s[n] \in JniEvents
  BY ElementOfSeq
<1> QED
  BY <1>1, <1>2 DEF JniEvents

LEMMA HitsAppend ==
  ASSUME NEW s \in Seq(JniEvents), NEW e \in JniEvents, NEW p, NEW f
  PROVE  /\ Hits(Append(s, e), p, f) =
              IF e.pid = p /\ e.fn = f /\ e.name # NoName THEN Hits(s, p, f) \cup {Len(s) + 1}
              ELSE Hits(s, p, f)
         /\ Len(s) \in Nat /\ Hits(s, p, f) \subseteq 1..Len(s)
         /\ Append(s, e)[Len(s) + 1] = e
         /\ \A n \in Hits(s, p, f) : Append(s, e)[n] = s[n]
<1>1. /\ Len(s) \in Nat /\ Len(Append(s, e)) = Len(s) + 1 /\ Append(s, e)[Len(s) + 1] = e
      /\ \A n \in 1..Len(s) : Append(s, e)[n] = s[n]
  BY AppendProperties, LenProperties
<1> QED
  BY <1>1 DEF Hits

(* A name that comes later leaves the first one, and the first is the first. *)
LEMMA EarliestAppend ==
  ASSUME NEW s \in Seq(JniEvents), NEW e \in JniEvents, NEW p, NEW f, NEW name
  PROVE  /\ Earliest(s, p, f, name) => Earliest(Append(s, e), p, f, name)
         /\ Hits(s, p, f) = {} /\ Hits(Append(s, e), p, f) # {} => Earliest(Append(s, e), p, f, e.name)
<1>1. ASSUME Earliest(s, p, f, name)
      PROVE  Earliest(Append(s, e), p, f, name)
  <2>1. PICK n \in Hits(s, p, f) : s[n].name = name /\ \A k \in Hits(s, p, f) : n <= k
    BY <1>1 DEF Earliest
  <2>2. /\ n \in Hits(Append(s, e), p, f) /\ Append(s, e)[n] = s[n] /\ n \in 1..Len(s) /\ Len(s) \in Nat
        /\ Hits(Append(s, e), p, f) \subseteq Hits(s, p, f) \cup {Len(s) + 1}
    BY <2>1, HitsAppend
  <2> QED
    BY <2>1, <2>2 DEF Earliest
<1>2. ASSUME Hits(s, p, f) = {}, Hits(Append(s, e), p, f) # {}
      PROVE  Earliest(Append(s, e), p, f, e.name)
  <2>1. /\ Hits(Append(s, e), p, f) = {Len(s) + 1} /\ Append(s, e)[Len(s) + 1] = e /\ Len(s) \in Nat
    BY <1>2, HitsAppend
  <2> QED
    BY <2>1 DEF Earliest
<1> QED
  BY <1>1, <1>2

LEMMA HitsTail ==
  ASSUME NEW s \in Seq(JniEvents), s # <<>>, NEW p, NEW f
  PROVE  /\ Tail(s) \in Seq(JniEvents) /\ Head(s) \in JniEvents /\ Head(s) = s[1] /\ 1 \in 1..Len(s)
         /\ \A n \in Nat : n \in Hits(Tail(s), p, f) <=> n >= 1 /\ n + 1 \in Hits(s, p, f)
         /\ \A n \in Hits(Tail(s), p, f) : n \in Nat /\ Tail(s)[n] = s[n + 1]
         /\ \A n \in Hits(s, p, f) : n \in Nat /\ n >= 1
<1>1. /\ Head(s) \in JniEvents /\ Tail(s) \in Seq(JniEvents) /\ Len(Tail(s)) = Len(s) - 1
      /\ \A n \in 1..Len(Tail(s)) : Tail(s)[n] = s[n + 1]
  BY HeadTailProperties
<1>2. Len(s) \in Nat /\ Len(s) # 0 /\ Head(s) = s[1]
  BY EmptySeq, LenProperties
<1> QED
  BY <1>1, <1>2 DEF Hits

(* What leaves the front of a sequence was the first, or leaves the first.   *)
LEMMA EarliestTail ==
  ASSUME NEW s \in Seq(JniEvents), s # <<>>, NEW p, NEW f, NEW name, Earliest(s, p, f, name)
  PROVE  IF 1 \in Hits(s, p, f) THEN name = Head(s).name ELSE Earliest(Tail(s), p, f, name)
<1>1. PICK n \in Hits(s, p, f) : s[n].name = name /\ \A k \in Hits(s, p, f) : n <= k
  BY DEF Earliest
<1>2. n \in Nat /\ n >= 1
  BY <1>1, HitsTail
<1>3. CASE 1 \in Hits(s, p, f)
  <2>1. n = 1
    BY <1>1, <1>2, <1>3
  <2> QED
    BY <1>1, <1>3, <2>1, HitsTail
<1>4. CASE 1 \notin Hits(s, p, f)
  <2>1. n - 1 \in Nat /\ n - 1 >= 1 /\ (n - 1) + 1 = n
    BY <1>1, <1>2, <1>4
  <2>2. n - 1 \in Hits(Tail(s), p, f)
    BY <1>1, <2>1, HitsTail
  <2>3. Tail(s)[n - 1].name = name
    BY <1>1, <2>1, <2>2, HitsTail
  <2>4. ASSUME NEW k \in Hits(Tail(s), p, f)
        PROVE  n - 1 <= k
    <3>1. k \in Nat /\ k + 1 \in Hits(s, p, f)
      BY <2>4, HitsTail
    <3> QED
      BY <1>1, <1>2, <3>1
  <2> QED
    BY <1>4, <2>2, <2>3, <2>4 DEF Earliest
<1> QED
  BY <1>3, <1>4
-----------------------------------------------------------------------------

(* Nothing is written yet. *)
LEMMA UnwrittenFiles ==
  ASSUME phase' # "done", symbols' = [f \in Files |-> {}]
  PROVE  FilesInv'
<1>1. RawNamesFirst' /\ SymbolsComplete'
  BY DEF RawNamesFirst, SymbolsComplete
<1>2. SymbolsInTheirLibrary'
  <2>1. \A f \in Files : symbols'[f] = {}
    OBVIOUS
  <2> QED
    BY <2>1 DEF SymbolsInTheirLibrary
<1> QED
  BY <1>1, <1>2 DEF FilesInv, SymbolsExact

LEMMA RegisterNativesInv ==
  ASSUME JniInv, NEW q \in Pids, NEW ms \in BoundedSeq(Entries, MaxLength), RegisterNatives(q, ms)
  PROVE  JniInv'
<1> DEFINE top == IF Len(ms) > Limit THEN Limit ELSE Len(ms)
<1>0. /\ UNCHANGED <<home, jni_events, methods, phase, raw, symbols, unwritten, registered, first, moved>>
      /\ table' = [table EXCEPT ![q] = SubSeq(ms, 1, top)] /\ phase = "capture"
  BY DEF RegisterNatives
<1>1. Len(ms) \in Nat /\ \A n \in 1..Len(ms) : ms[n] \in Entries
  <2>1. PICK n \in 0..MaxLength : ms \in [1..n -> Entries]
    BY DEF BoundedSeq, SeqOf
  <2>2. ms \in Seq(Entries)
    BY <2>1, JniAssumption, SeqDef
  <2> QED
    BY <2>2, LenProperties, ElementOfSeq
<1>2. top \in Int /\ \A n \in 1..top : ms[n] \in Entries
  BY <1>1, JniAssumption
<1>3. SubSeq(ms, 1, top) \in Seq(Entries)
  BY <1>2, SubSeqProperties
<1> HIDE DEF top
<1>4. table' \in [Pids -> Seq(Entries)]
  BY <1>0, <1>3 DEF JniInv, JniType
<1>5. JniType'
  BY <1>0, <1>4 DEF JniInv, JniType
<1>6. FirstInv'
  BY <1>0 DEF JniInv, FirstInv
<1>7. RegisteredInv'
  BY <1>0 DEF JniInv, RegisteredInv, Walked
<1>8. FilesInv'
  <2>1. phase' # "done" /\ symbols' = [f \in Files |-> {}]
    BY <1>0 DEF JniInv, FilesInv
  <2> QED
    BY <2>1, UnwrittenFiles
<1> QED
  BY <1>5, <1>6, <1>7, <1>8 DEF JniInv

(* The probe's next entry: a record more in the ring, or none.               *)
LEMMA WalkEntryInv ==
  ASSUME JniInv, NEW q \in Pids, WalkEntry(q)
  PROVE  JniInv'
<1> DEFINE e == Head(table[q])
           rec == [pid |-> q, fn |-> e.fn, name |-> e.name]
<1>0. /\ UNCHANGED <<home, methods, phase, raw, symbols, unwritten, moved>>
      /\ table' = [table EXCEPT ![q] = Tail(@)] /\ phase = "capture" /\ table[q] # <<>>
  BY DEF WalkEntry
<1>1. e \in Entries /\ table' \in [Pids -> Seq(Entries)]
  <2>1. table[q] \in Seq(Entries) /\ table \in [Pids -> Seq(Entries)]
    BY DEF JniInv, JniType
  <2>2. e \in Entries /\ Tail(table[q]) \in Seq(Entries)
    BY <1>0, <2>1, HeadTailProperties
  <2> QED
    BY <1>0, <2>1, <2>2
<1>2. FilesInv'
  <2>1. phase' # "done" /\ symbols' = [f \in Files |-> {}]
    BY <1>0 DEF JniInv, FilesInv
  <2> QED
    BY <2>1, UnwrittenFiles
<1>3. CASE UNCHANGED <<jni_events, registered, first>>
  <2>1. JniType'
    BY <1>0, <1>1, <1>3 DEF JniInv, JniType
  <2>2. FirstInv'
    BY <1>0, <1>3 DEF JniInv, FirstInv
  <2>3. RegisteredInv'
    BY <1>0, <1>3 DEF JniInv, RegisteredInv, Walked
  <2> QED
    BY <1>2, <2>1, <2>2, <2>3 DEF JniInv
<1>4. CASE /\ e.fn # NullFn
           /\ jni_events' = Append(jni_events, rec)
           /\ registered' = registered \cup {[pid |-> q, fn |-> e.fn, name |-> e.name, lib |-> home[q][e.fn]]}
           /\ first' = IF first[q][e.fn] = NoName THEN [first EXCEPT ![q][e.fn] = e.name] ELSE first
  <2> DEFINE reg == [pid |-> q, fn |-> e.fn, name |-> e.name, lib |-> home[q][e.fn]]
  <2>1. e.fn \in Fns /\ e.name \in Names \cup {NoName}
    BY <1>1, <1>4 DEF Entries
  <2>2. /\ rec \in JniEvents /\ rec.pid = q /\ rec.fn = e.fn /\ rec.name = e.name
        /\ reg \in Registrations /\ reg.pid = q /\ reg.fn = e.fn /\ reg.name = e.name
        /\ reg.lib = home[q][e.fn]
    BY <2>1 DEF JniEvents, Registrations, JniInv, JniType
  <2>3. jni_events \in Seq(JniEvents) /\ methods \in Seq(JniEvents) /\ Len(jni_events) \in Nat
    BY LenProperties DEF JniInv, JniType
  <2>4. /\ first \in [Pids -> [Fns -> Names \cup {NoName}]]
        /\ first' \in [Pids -> [Fns -> Names \cup {NoName}]]
        /\ \A p \in Pids, f \in Fns :
             first'[p][f] = IF p = q /\ f = e.fn /\ first[p][f] = NoName THEN e.name ELSE first[p][f]
    <3>1. first \in [Pids -> [Fns -> Names \cup {NoName}]]
      BY DEF JniInv, JniType
    <3> HIDE DEF e
    <3> QED
      BY <3>1, <1>4, <2>1
  <2> HIDE DEF rec, reg, e
  <2>5. jni_events' = Append(jni_events, rec) /\ registered' = registered \cup {reg}
    BY <1>4 DEF rec, reg
  <2>6. JniType'
    <3>1. jni_events' \in Seq(JniEvents)
      BY <2>2, <2>3, <2>5, AppendProperties
    <3> QED
      BY <1>0, <1>1, <2>2, <2>4, <2>5, <3>1 DEF JniInv, JniType
  <2>7. ASSUME NEW p \in Pids, NEW f \in Fns
        PROVE  /\ first'[p][f] = NoName <=> Hits(methods, p, f) = {} /\ Hits(jni_events', p, f) = {}
               /\ Hits(methods, p, f) # {} => Earliest(methods, p, f, first'[p][f])
               /\ Hits(methods, p, f) = {} /\ Hits(jni_events', p, f) # {} =>
                    Earliest(jni_events', p, f, first'[p][f])
    <3>1. /\ first[p][f] = NoName <=> Hits(methods, p, f) = {} /\ Hits(jni_events, p, f) = {}
          /\ Hits(methods, p, f) # {} => Earliest(methods, p, f, first[p][f])
          /\ Hits(methods, p, f) = {} /\ Hits(jni_events, p, f) # {} =>
               Earliest(jni_events, p, f, first[p][f])
      BY DEF JniInv, FirstInv
    <3>2. Hits(jni_events', p, f) = IF q = p /\ e.fn = f /\ e.name # NoName
                                    THEN Hits(jni_events, p, f) \cup {Len(jni_events) + 1}
                                    ELSE Hits(jni_events, p, f)
      BY <2>2, <2>3, <2>5, HitsAppend
    <3>3. \A name : /\ Earliest(jni_events, p, f, name) => Earliest(jni_events', p, f, name)
                    /\ Hits(jni_events, p, f) = {} /\ Hits(jni_events', p, f) # {} =>
                         Earliest(jni_events', p, f, e.name)
      BY <2>2, <2>3, <2>5, EarliestAppend
    <3>4. first'[p][f] = IF p = q /\ f = e.fn /\ first[p][f] = NoName THEN e.name ELSE first[p][f]
      BY <2>4
    <3>5. first'[p][f] = NoName <=> Hits(methods, p, f) = {} /\ Hits(jni_events', p, f) = {}
      BY <3>1, <3>2, <3>4
    <3>6. ASSUME Hits(methods, p, f) # {}
          PROVE  Earliest(methods, p, f, first'[p][f])
      BY <3>1, <3>4, <3>6
    <3>7. ASSUME Hits(methods, p, f) = {}, Hits(jni_events', p, f) # {}
          PROVE  Earliest(jni_events', p, f, first'[p][f])
      <4>1. CASE Hits(jni_events, p, f) = {}
        <5>1. first'[p][f] = e.name
          BY <3>1, <3>2, <3>4, <3>7, <4>1
        <5> QED
          BY <3>3, <3>7, <4>1, <5>1
      <4>2. CASE Hits(jni_events, p, f) # {}
        <5>1. first'[p][f] = first[p][f]
          BY <3>1, <3>4, <4>2
        <5> QED
          BY <3>1, <3>3, <3>7, <4>2, <5>1
      <4> QED
        BY <4>1, <4>2
    <3> QED
      BY <3>5, <3>6, <3>7
  <2>8. FirstInv'
    BY <2>7, <1>0 DEF FirstInv
  <2>9. RegisteredInv'
    <3>1. \A x : Walked(x) => \E r \in registered' : Same(r, x)
      BY <2>5 DEF Walked
    <3>2. Same(reg, rec) /\ reg \in registered'
      BY <2>2, <2>5 DEF Same
    <3>3. ASSUME NEW n \in 1..Len(jni_events')
          PROVE  \E r \in registered' : Same(r, jni_events'[n])
      <4>1. /\ Len(jni_events') = Len(jni_events) + 1 /\ jni_events'[Len(jni_events) + 1] = rec
            /\ \A k \in 1..Len(jni_events) : jni_events'[k] = jni_events[k]
        BY <2>2, <2>3, <2>5, AppendProperties
      <4>2. CASE n \in 1..Len(jni_events)
        <5>1. Walked(jni_events[n])
          BY <4>2 DEF JniInv, RegisteredInv
        <5> QED
          BY <3>1, <4>1, <4>2, <5>1
      <4>3. CASE n = Len(jni_events) + 1
        BY <3>2, <4>1, <4>3
      <4> QED
        BY <2>3, <4>1, <4>2, <4>3
    <3>4. \A n \in 1..Len(methods) : \E r \in registered' : Same(r, methods[n])
      BY <3>1 DEF JniInv, RegisteredInv
    <3>5. \A r \in registered' : <<r.pid, r.fn>> \in moved' \/ home'[r.pid][r.fn] = r.lib
      BY <1>0, <2>2, <2>5 DEF JniInv, RegisteredInv
    <3>6. methods' = methods
      BY <1>0
    <3> QED
      BY <3>3, <3>4, <3>5, <3>6 DEF RegisteredInv, Walked
  <2> QED
    BY <1>2, <2>6, <2>8, <2>9 DEF JniInv
<1> QED
  BY <1>3, <1>4 DEF WalkEntry

(* A record moves from the ring to the methods, if it has a name.            *)
LEMMA HandleJniEventInv ==
  ASSUME JniInv, HandleJniEvent
  PROVE  JniInv'
<1> DEFINE e == Head(jni_events)
<1>0. /\ UNCHANGED <<table, home, phase, raw, symbols, unwritten, registered, first, moved>>
      /\ jni_events # <<>> /\ jni_events' = Tail(jni_events) /\ phase # "done"
      /\ methods' = IF e.name = NoName THEN methods ELSE Append(methods, e)
  BY DEF HandleJniEvent
<1>1. jni_events \in Seq(JniEvents) /\ methods \in Seq(JniEvents) /\ Len(methods) \in Nat
  BY LenProperties DEF JniInv, JniType
<1>2. /\ e \in JniEvents /\ e = jni_events[1] /\ jni_events' \in Seq(JniEvents) /\ 1 \in 1..Len(jni_events)
      /\ \A p, f : /\ \A n \in Nat : n \in Hits(jni_events', p, f) <=>
                                       n >= 1 /\ n + 1 \in Hits(jni_events, p, f)
                   /\ \A n \in Hits(jni_events, p, f) : n \in Nat /\ n >= 1
                   /\ \A n \in Hits(jni_events', p, f) : n \in Nat
  BY <1>0, <1>1, HitsTail
<1>3. \A p, f : 1 \in Hits(jni_events, p, f) <=> e.pid = p /\ e.fn = f /\ e.name # NoName
  BY <1>2 DEF Hits
<1>4. \A n \in 1..Len(jni_events') : n + 1 \in 1..Len(jni_events) /\ jni_events'[n] = jni_events[n + 1]
  <2>1. Len(jni_events') = Len(jni_events) - 1 /\ Len(jni_events) \in Nat
    BY <1>0, <1>1, HeadTailProperties, LenProperties
  <2> QED
    BY <1>0, <1>1, <2>1, HeadTailProperties
<1> HIDE DEF e
<1>5. /\ methods' \in Seq(JniEvents)
      /\ \A n \in 1..Len(methods') : \/ n \in 1..Len(methods) /\ methods'[n] = methods[n]
                                     \/ e.name # NoName /\ methods'[n] = e
  <2>1. CASE e.name = NoName
    BY <1>0, <1>1, <2>1
  <2>2. CASE e.name # NoName
    <3>1. /\ methods' \in Seq(JniEvents) /\ Len(methods') = Len(methods) + 1
          /\ methods'[Len(methods) + 1] = e
          /\ \A n \in 1..Len(methods) : methods'[n] = methods[n]
      BY <1>0, <1>1, <1>2, <2>2, AppendProperties
    <3> QED
      BY <1>1, <2>2, <3>1
  <2> QED
    BY <2>1, <2>2
<1>6. JniType'
  <2>1. \A n \in 1..Len(methods') : methods'[n].name # NoName
    BY <1>5 DEF JniInv, JniType
  <2> QED
    BY <1>0, <1>2, <1>5, <2>1 DEF JniInv, JniType
<1>7. ASSUME NEW p \in Pids, NEW f \in Fns
      PROVE  /\ first[p][f] = NoName <=> Hits(methods', p, f) = {} /\ Hits(jni_events', p, f) = {}
             /\ Hits(methods', p, f) # {} => Earliest(methods', p, f, first[p][f])
             /\ Hits(methods', p, f) = {} /\ Hits(jni_events', p, f) # {} =>
                  Earliest(jni_events', p, f, first[p][f])
  <2>1. /\ first[p][f] = NoName <=> Hits(methods, p, f) = {} /\ Hits(jni_events, p, f) = {}
        /\ Hits(methods, p, f) # {} => Earliest(methods, p, f, first[p][f])
        /\ Hits(methods, p, f) = {} /\ Hits(jni_events, p, f) # {} =>
             Earliest(jni_events, p, f, first[p][f])
    BY DEF JniInv, FirstInv
  <2>2. CASE 1 \in Hits(jni_events, p, f)
    <3>1. methods' = Append(methods, e) /\ e.pid = p /\ e.fn = f /\ e.name # NoName
      BY <1>0, <1>3, <2>2
    <3>2. Hits(methods', p, f) = Hits(methods, p, f) \cup {Len(methods) + 1}
      BY <1>1, <1>2, <3>1, HitsAppend
    <3>3. first[p][f] # NoName
      BY <2>1, <2>2
    <3>4. Earliest(methods', p, f, first[p][f])
      <4>1. CASE Hits(methods, p, f) # {}
        BY <1>1, <1>2, <2>1, <3>1, <4>1, EarliestAppend
      <4>2. CASE Hits(methods, p, f) = {}
        <5>1. Earliest(jni_events, p, f, first[p][f])
          BY <2>1, <2>2, <4>2
        <5>2. first[p][f] = e.name
          BY <1>0, <1>1, <2>2, <5>1, EarliestTail DEF e
        <5> QED
          BY <1>1, <1>2, <3>1, <3>2, <4>2, <5>2, EarliestAppend
      <4> QED
        BY <4>1, <4>2
    <3> QED
      BY <3>2, <3>3, <3>4
  <2>3. CASE 1 \notin Hits(jni_events, p, f)
    <3>1. Hits(methods', p, f) = Hits(methods, p, f)
      BY <1>0, <1>1, <1>2, <1>3, <2>3, HitsAppend
    <3>2. \A name : Earliest(methods, p, f, name) => Earliest(methods', p, f, name)
      BY <1>0, <1>1, <1>2, EarliestAppend
    <3>3. Hits(jni_events', p, f) = {} <=> Hits(jni_events, p, f) = {}
      <4>1. ASSUME NEW n \in Hits(jni_events, p, f)
            PROVE  n - 1 \in Hits(jni_events', p, f)
        <5>1. n \in Nat /\ n >= 1 /\ n # 1
          BY <1>2, <2>3
        <5>2. n - 1 \in Nat /\ n - 1 >= 1 /\ (n - 1) + 1 = n
          BY <5>1
        <5> QED
          BY <1>2, <5>2
      <4>2. ASSUME NEW n \in Hits(jni_events', p, f)
            PROVE  n + 1 \in Hits(jni_events, p, f)
        BY <1>2
      <4> QED
        BY <4>1, <4>2
    <3>4. \A name : Earliest(jni_events, p, f, name) => Earliest(jni_events', p, f, name)
      BY <1>0, <1>1, <2>3, EarliestTail
    <3> QED
      BY <2>1, <3>1, <3>2, <3>3, <3>4
  <2> QED
    BY <2>2, <2>3
<1>8. FirstInv'
  BY <1>0, <1>7 DEF FirstInv
<1>9. RegisteredInv'
  <2>0. /\ \A n \in 1..Len(jni_events) : Walked(jni_events[n])
        /\ \A n \in 1..Len(methods) : Walked(methods[n])
        /\ \A r \in registered : <<r.pid, r.fn>> \in moved \/ home[r.pid][r.fn] = r.lib
    BY DEF JniInv, RegisteredInv
  <2>1. \A n \in 1..Len(jni_events') : Walked(jni_events'[n])
    BY <1>4, <2>0
  <2>2. \A n \in 1..Len(methods') : Walked(methods'[n])
    BY <1>2, <1>5, <2>0
  <2> QED
    BY <1>0, <2>0, <2>1, <2>2 DEF RegisteredInv, Walked
<1>10. FilesInv'
  <2>1. phase' # "done" /\ symbols' = [f \in Files |-> {}]
    BY <1>0 DEF JniInv, FilesInv
  <2> QED
    BY <2>1, UnwrittenFiles
<1> QED
  BY <1>6, <1>8, <1>9, <1>10 DEF JniInv

LEMMA RemapInv ==
  ASSUME JniInv, NEW q \in Pids, NEW g \in Fns, NEW l \in Libs \cup {NoLib}, Remap(q, g, l)
  PROVE  JniInv'
<1>0. /\ UNCHANGED <<table, jni_events, methods, phase, raw, symbols, unwritten, registered, first>>
      /\ home' = [home EXCEPT ![q][g] = l] /\ moved' = moved \cup {<<q, g>>} /\ phase # "done"
      /\ home \in [Pids -> [Fns -> Libs \cup {NoLib}]]
  BY DEF Remap, JniInv, JniType
<1>1. /\ home' \in [Pids -> [Fns -> Libs \cup {NoLib}]]
      /\ \A p \in Pids, f \in Fns : p # q \/ f # g => home'[p][f] = home[p][f]
  BY <1>0
<1>2. JniType'
  BY <1>0, <1>1 DEF JniInv, JniType
<1>3. FirstInv'
  BY <1>0 DEF JniInv, FirstInv
<1>4. RegisteredInv'
  <2>1. /\ \A n \in 1..Len(jni_events') : Walked(jni_events'[n])
        /\ \A n \in 1..Len(methods') : Walked(methods'[n])
    BY <1>0 DEF JniInv, RegisteredInv
  <2>2. ASSUME NEW r \in registered
        PROVE  <<r.pid, r.fn>> \in moved' \/ home'[r.pid][r.fn] = r.lib
    <3>1. r.pid \in Pids /\ r.fn \in Fns
      BY DEF JniInv, JniType, Registrations
    <3>2. <<r.pid, r.fn>> \in moved \/ home[r.pid][r.fn] = r.lib
      BY DEF JniInv, RegisteredInv
    <3>3. CASE r.pid = q /\ r.fn = g
      BY <1>0, <3>3
    <3>4. CASE ~(r.pid = q /\ r.fn = g)
      BY <1>0, <1>1, <3>1, <3>2, <3>4
    <3> QED
      BY <3>3, <3>4
  <2> QED
    BY <1>0, <2>1, <2>2 DEF RegisteredInv, Walked
<1>5. FilesInv'
  <2>1. phase' # "done" /\ symbols' = [f \in Files |-> {}]
    BY <1>0 DEF JniInv, FilesInv
  <2> QED
    BY <2>1, UnwrittenFiles
<1> QED
  BY <1>2, <1>3, <1>4, <1>5 DEF JniInv

LEMMA DetachInv ==
  ASSUME JniInv, Detach
  PROVE  JniInv'
<1>0. /\ UNCHANGED <<home, jni_events, methods, raw, symbols, unwritten, registered, first, moved>>
      /\ table' = [p \in Pids |-> <<>>] /\ phase = "capture" /\ phase' = "drain"
  BY DEF Detach
<1>1. JniType'
  <2>1. <<>> \in Seq(Entries)
    BY EmptySeq
  <2> QED
    BY <1>0, <2>1 DEF JniInv, JniType
<1>2. FirstInv'
  BY <1>0 DEF JniInv, FirstInv
<1>3. RegisteredInv'
  BY <1>0 DEF JniInv, RegisteredInv, Walked
<1>4. FilesInv'
  <2>1. phase' # "done" /\ symbols' = [f \in Files |-> {}]
    BY <1>0 DEF JniInv, FilesInv
  <2> QED
    BY <2>1, UnwrittenFiles
<1> QED
  BY <1>1, <1>2, <1>3, <1>4 DEF JniInv

(* What write_jni_symbols keeps once the ring is empty: the first name.      *)
LEMMA KeptFirst ==
  ASSUME JniInv, jni_events = <<>>
  PROVE  Kept = {[pid |-> x[1], fn |-> x[2], name |-> first[x[1]][x[2]]] :
                   x \in {x \in Pids \X Fns : first[x[1]][x[2]] # NoName}}
<1> DEFINE named == {x \in Pids \X Fns : first[x[1]][x[2]] # NoName}
           rec(p, f) == [pid |-> p, fn |-> f, name |-> first[p][f]]
<1>1. /\ methods \in Seq(JniEvents) /\ Len(methods) \in Nat /\ DOMAIN methods = 1..Len(methods)
      /\ \A n \in 1..Len(methods) :
           /\ methods[n] \in JniEvents /\ methods[n].pid \in Pids /\ methods[n].fn \in Fns
           /\ methods[n].name # NoName
  BY EventFacts DEF JniInv, JniType
<1>2. \A p \in Pids, f \in Fns :
        /\ first[p][f] # NoName => Hits(methods, p, f) # {}
        /\ Hits(methods, p, f) # {} => first[p][f] # NoName /\ Earliest(methods, p, f, first[p][f])
  <2>1. \A p \in Pids, f \in Fns : Hits(jni_events, p, f) = {}
    BY EmptySeq DEF Hits
  <2> QED
    BY <2>1 DEF JniInv, FirstInv
<1>3. ASSUME NEW m \in Kept
      PROVE  \E p \in Pids, f \in Fns : first[p][f] # NoName /\ m = rec(p, f)
  <2>1. PICK n \in 1..Len(methods) : /\ m = methods[n]
                                     /\ \A k \in 1..n - 1 : SeenKey(methods[k]) # SeenKey(methods[n])
    BY <1>1 DEF Kept
  <2> DEFINE p == methods[n].pid
             f == methods[n].fn
  <2>2. p \in Pids /\ f \in Fns /\ n \in Hits(methods, p, f)
    BY <1>1 DEF Hits
  <2>3. PICK k \in Hits(methods, p, f) : /\ methods[k].name = first[p][f]
                                         /\ \A i \in Hits(methods, p, f) : k <= i
    BY <1>2, <2>2 DEF Earliest
  <2>4. k \in 1..Len(methods) /\ k <= n /\ SeenKey(methods[k]) = SeenKey(methods[n])
    BY <2>2, <2>3 DEF Hits, SeenKey
  <2>5. k = n
    BY <1>1, <2>1, <2>4
  <2>6. m \in JniEvents /\ m.pid = p /\ m.fn = f /\ m.name = first[p][f]
    BY <1>1, <2>1, <2>3, <2>5
  <2>7. m = rec(p, f)
    BY <2>6 DEF JniEvents
  <2> QED
    BY <1>2, <2>2, <2>7
<1>4. ASSUME NEW p \in Pids, NEW f \in Fns, first[p][f] # NoName
      PROVE  rec(p, f) \in Kept
  <2>1. PICK n \in Hits(methods, p, f) : /\ methods[n].name = first[p][f]
                                         /\ \A i \in Hits(methods, p, f) : n <= i
    BY <1>2, <1>4 DEF Earliest
  <2>2. n \in 1..Len(methods) /\ methods[n].pid = p /\ methods[n].fn = f
    BY <2>1 DEF Hits
  <2>3. methods[n] = rec(p, f)
    BY <1>1, <2>1, <2>2 DEF JniEvents
  <2>4. ASSUME NEW k \in 1..n - 1
        PROVE  SeenKey(methods[k]) # SeenKey(methods[n])
    <3>1. k \in 1..Len(methods) /\ ~(n <= k)
      BY <1>1, <2>2
    <3>2. k \notin Hits(methods, p, f)
      BY <2>1, <3>1
    <3>3. methods[k].pid # p \/ methods[k].fn # f
      BY <1>1, <3>1, <3>2 DEF Hits
    <3> QED
      BY <2>2, <3>3 DEF SeenKey
  <2> QED
    BY <1>1, <2>2, <2>3, <2>4 DEF Kept
<1>5. \A x \in named : x[1] \in Pids /\ x[2] \in Fns /\ first[x[1]][x[2]] # NoName
  OBVIOUS
<1>6. \A p \in Pids, f \in Fns : first[p][f] # NoName => <<p, f>> \in named
  OBVIOUS
<1>7. {rec(x[1], x[2]) : x \in named} \subseteq Kept
  BY <1>4, <1>5
<1>8. Kept \subseteq {rec(x[1], x[2]) : x \in named}
  <2> SUFFICES ASSUME NEW m \in Kept
               PROVE  \E x \in named : m = rec(x[1], x[2])
    OBVIOUS
  <2>1. PICK p \in Pids, f \in Fns : first[p][f] # NoName /\ m = rec(p, f)
    BY <1>3
  <2>2. <<p, f>> \in named /\ <<p, f>>[1] = p /\ <<p, f>>[2] = f
    BY <1>6, <2>1
  <2> QED
    BY <2>1, <2>2
<1> QED
  BY <1>7, <1>8

LEMMA WriteJniSymbolsInv ==
  ASSUME JniInv, WriteJniSymbols
  PROVE  JniInv'
<1>0. /\ UNCHANGED <<table, home, jni_events, methods, registered, first, moved>>
      /\ jni_events = <<>> /\ phase' = "done"
  BY DEF WriteJniSymbols
<1>1. PICK bad \in SUBSET (Files \cup {"raw"}) :
        /\ unwritten' = bad
        /\ raw' = IF "raw" \in bad THEN {} ELSE Kept
        /\ \A f \in Files : symbols'[f] \in Outcomes(f, bad)
  BY DEF WriteJniSymbols
<1>2. /\ methods \in Seq(JniEvents) /\ Len(methods) \in Nat /\ DOMAIN methods = 1..Len(methods)
      /\ \A n \in 1..Len(methods) : methods[n].pid \in Pids /\ methods[n].fn \in Fns
      /\ \A p \in Pids, f \in Fns : home[p][f] \in Libs \cup {NoLib}
  BY EventFacts DEF JniInv, JniType
<1>3. \A m \in Kept : \E n \in 1..Len(methods) : m = methods[n]
  BY <1>2 DEF Kept
<1>4. JniType'
  BY <1>0 DEF JniInv, JniType
<1>5. FirstInv'
  BY <1>0 DEF JniInv, FirstInv
<1>6. RegisteredInv'
  BY <1>0 DEF JniInv, RegisteredInv, Walked
<1>7. RawNamesFirst'
  BY <1>0, <1>1, KeptFirst DEF RawNamesFirst
<1>8. ASSUME NEW f \in Files, NEW s \in symbols'[f]
      PROVE  \E r \in registered : /\ r.fn = s.fn /\ r.name = s.name
                                   /\ \/ <<r.pid, r.fn>> \in moved
                                      \/ r.lib # NoLib /\ FileOf[NameOf[r.lib]] = f
  <2>1. symbols'[f] \in Bodies(f)
    BY <1>1, <1>8 DEF Outcomes
  <2>2. PICK l \in Libs : FileOf[NameOf[l]] = f /\ symbols'[f] = Body(Group(l))
    BY <2>1 DEF Bodies
  <2>3. PICK m \in Kept : /\ Home(m) # NoLib /\ Group(Home(m)) = Group(l)
                          /\ s = [fn |-> m.fn, name |-> m.name]
    BY <2>2, <1>8 DEF Body
  <2>4. PICK n \in 1..Len(methods) : m = methods[n]
    BY <1>3
  <2>5. PICK r \in registered : Same(r, m)
    BY <2>4 DEF JniInv, RegisteredInv, Walked
  <2>6. <<r.pid, r.fn>> \in moved \/ home[r.pid][r.fn] = r.lib
    BY DEF JniInv, RegisteredInv
  <2>7. r.fn = s.fn /\ r.name = s.name
    BY <2>3, <2>5 DEF Same
  <2>8. CASE home[r.pid][r.fn] = r.lib
    <3>1. r.lib = Home(m)
      BY <2>5, <2>8 DEF Home, Same
    <3>2. FileOf[NameOf[r.lib]] = f
      BY <2>2, <2>3, <3>1 DEF Group
    <3> QED
      BY <2>3, <2>7, <3>1, <3>2
  <2> QED
    BY <2>6, <2>7, <2>8
<1>9. SymbolsInTheirLibrary'
  BY <1>0, <1>8 DEF SymbolsInTheirLibrary
<1>10. ASSUME NEW m \in raw', home[m.pid][m.fn] # NoLib, ~Shared(NameOf[home[m.pid][m.fn]]),
              FileOf[NameOf[home[m.pid][m.fn]]] \notin unwritten'
       PROVE  [fn |-> m.fn, name |-> m.name] \in symbols'[FileOf[NameOf[home[m.pid][m.fn]]]]
  <2> DEFINE l == home[m.pid][m.fn]
             file == FileOf[NameOf[l]]
             line == [fn |-> m.fn, name |-> m.name]
  <2>1. m \in Kept
    BY <1>1
  <2>2. PICK n \in 1..Len(methods) : m = methods[n]
    BY <1>3, <2>1
  <2>3. l \in Libs /\ l = Home(m) /\ l # NoLib
    BY <1>2, <1>10, <2>2 DEF Home
  <2>4. NameOf[l] \in LibNames /\ file \in Files
    BY <2>3 DEF LibNames, Files
  <2>5. line \in Body(NameOf[l])
    BY <2>1, <2>3 DEF Body, Group
  <2>6. Body(NameOf[l]) \in Bodies(file)
    BY <2>3, <2>5 DEF Bodies, Group
  <2>7. symbols'[file] \in Bodies(file)
    BY <1>1, <1>10, <2>4, <2>6 DEF Outcomes
  <2>8. PICK k \in Libs : FileOf[NameOf[k]] = file /\ symbols'[file] = Body(Group(k))
    BY <2>7 DEF Bodies
  <2>9. NameOf[k] = NameOf[l]
    BY <2>8, <1>10 DEF Shared, LibNames
  <2> QED
    BY <2>5, <2>8, <2>9 DEF Group
<1>11. SymbolsComplete'
  BY <1>0, <1>10 DEF SymbolsComplete, Shared
<1>12. FilesInv'
  BY <1>0, <1>7, <1>9, <1>11 DEF FilesInv, SymbolsExact
<1> QED
  BY <1>4, <1>5, <1>6, <1>12 DEF JniInv

(* The inductive invariant of the sessions that name native methods: what    *)
(* the ring and the list say of a function, in the order it was submitted.   *)
THEOREM JniInvariance == JniSpec => []JniInv
<1>1. JniInit => JniInv
  <2> SUFFICES ASSUME JniInit
               PROVE  JniInv
    OBVIOUS
  <2>0. /\ table = [p \in Pids |-> <<>>] /\ home \in [Pids -> [Fns -> Libs \cup {NoLib}]]
        /\ jni_events = <<>> /\ methods = <<>> /\ phase = "capture"
        /\ symbols = [f \in Files |-> {}] /\ registered = {}
        /\ first = [p \in Pids |-> [f \in Fns |-> NoName]]
    BY DEF JniInit
  <2>1. <<>> \in Seq(Entries) /\ <<>> \in Seq(JniEvents) /\ Len(methods) = 0 /\ Len(jni_events) = 0
    BY <2>0, EmptySeq
  <2>2. JniType
    BY <2>0, <2>1 DEF JniType
  <2>3. \A p, f : Hits(methods, p, f) = {} /\ Hits(jni_events, p, f) = {}
    BY <2>1 DEF Hits
  <2>4. FirstInv
    BY <2>0, <2>3 DEF FirstInv
  <2>5. RegisteredInv
    BY <2>0, <2>1 DEF RegisteredInv
  <2>6. \A f \in Files : symbols[f] = {}
    BY <2>0
  <2>7. FilesInv
    BY <2>0, <2>6 DEF FilesInv, RawNamesFirst, SymbolsExact, SymbolsInTheirLibrary, SymbolsComplete
  <2> QED
    BY <2>2, <2>4, <2>5, <2>7 DEF JniInv
<1>2. JniInv /\ [JniNext]_jniVars => JniInv'
  <2> SUFFICES ASSUME JniInv, [JniNext]_jniVars
               PROVE  JniInv'
    OBVIOUS
  <2>1. CASE \E p \in Pids : \E ms \in BoundedSeq(Entries, MaxLength) \ {<<>>} : RegisterNatives(p, ms)
    BY <2>1, RegisterNativesInv
  <2>2. CASE \E p \in Pids : WalkEntry(p)
    BY <2>2, WalkEntryInv
  <2>3. CASE \E p \in Pids, f \in Fns, l \in Libs \cup {NoLib} : Remap(p, f, l)
    BY <2>3, RemapInv
  <2>4. CASE HandleJniEvent
    BY <2>4, HandleJniEventInv
  <2>5. CASE Detach
    BY <2>5, DetachInv
  <2>6. CASE WriteJniSymbols
    BY <2>6, WriteJniSymbolsInv
  <2>7. CASE UNCHANGED jniVars
    <3>1. JniType' /\ RegisteredInv'
      BY <2>7 DEF jniVars, JniInv, JniType, RegisteredInv, Walked
    <3>2. FirstInv'
      BY <2>7 DEF jniVars, JniInv, FirstInv
    <3>3. RawNamesFirst' /\ SymbolsInTheirLibrary'
      BY <2>7 DEF jniVars, JniInv, FilesInv, RawNamesFirst, SymbolsExact, SymbolsInTheirLibrary
    <3>4. SymbolsComplete'
      BY <2>7 DEF jniVars, JniInv, FilesInv, SymbolsExact, SymbolsComplete, Shared
    <3>5. FilesInv'
      BY <2>7, <3>3, <3>4 DEF jniVars, JniInv, FilesInv, SymbolsExact
    <3> QED
      BY <3>1, <3>2, <3>5 DEF JniInv
  <2> QED
    BY <2>1, <2>2, <2>3, <2>4, <2>5, <2>6, <2>7 DEF JniNext, Exited
<1> QED
  BY <1>1, <1>2, PTL DEF JniSpec

(* For any processes, functions and names, any limit of the walk and any     *)
(* size of the ring, the raw dump names each captured function of each       *)
(* process once, by the name that reached the ring first.                    *)
THEOREM NamedFirst == JniSpec => []RawNamesFirst
<1>1. JniInv => RawNamesFirst
  BY DEF JniInv, FilesInv
<1> QED
  BY <1>1, JniInvariance, PTL

(* A line of a library's file is of a function registered in a library of    *)
(* that file, unless its mapping changed; and no function of a library that  *)
(* shares its file with no other name is missing from it.                    *)
THEOREM SymbolsPlaced == JniSpec => []SymbolsExact
<1>1. JniInv => SymbolsExact
  BY DEF JniInv, FilesInv
<1> QED
  BY <1>1, JniInvariance, PTL

-----------------------------------------------------------------------------
(* SoModules.                                                                *)

LEMMA LeastOf ==
  ASSUME NEW F \in SUBSET Nat, F # {}
  PROVE  \E n \in F : \A k \in F : n <= k
<1> DEFINE R == OpToRel(<, Nat)
<1>1. IsWellFoundedOn(R, Nat)
  BY NatLessThanWellFounded
<1>2. \A a, b \in Nat : a < b => <<a, b>> \in R
  BY DEF OpToRel
<1> HIDE DEF R
<1>3. PICK n \in F : \A k \in F : ~(<<k, n>> \in R)
  BY <1>1, WFMin
<1>4. ASSUME NEW k \in F PROVE n <= k
  <2>1. n \in Nat /\ k \in Nat /\ ~(<<k, n>> \in R)
    BY <1>3
  <2>2. ~(k < n)
    BY <1>2, <2>1
  <2> QED
    BY <2>1, <2>2
<1> QED
  BY <1>4

-----------------------------------------------------------------------------
SoModule == [path : SoPaths \cup {Nameless}, base : Nat, end : Nat]

LaidOut ==
  /\ maps \in Seq(Entry)
  /\ \A n \in 1..Len(maps) : maps[n].start < maps[n].end
  /\ \A n \in 1..Len(maps) : \A m \in 1..n - 1 : maps[m].end <= maps[n].start

GroupType ==
  /\ LaidOut /\ modules \in Seq(SoModule)
  /\ pass \in {"files", "anon", "done"}
  /\ at_entry \in 1..Len(maps) + 1

(* The entries the first pass has looked at. *)
Filed == IF pass = "files" THEN at_entry - 1 ELSE Len(maps)

Its(p) == {n \in 1..Filed : maps[n].path = p /\ Selected(maps[n])}

(* Module k is the span of the entries in set. *)
Span(k, set) ==
  /\ \A n \in set : modules[k].base <= maps[n].start /\ maps[n].end <= modules[k].end
  /\ \E n \in set : maps[n].start = modules[k].base
  /\ \E n \in set : maps[n].end = modules[k].end

SpansInv ==
  \A p \in SoPaths :
    /\ Its(p) = {} <=> Of(p) = {}
    /\ \A k, l \in Of(p) : k = l
    /\ \A k \in Of(p) : Span(k, Its(p))

(* Module k is the run of nameless entries from s to the one before j.       *)
RunOf(k, s, j) ==
  /\ maps[s].path = Nameless /\ \A n \in s + 1..j - 1 : Joins(n)
  /\ modules[k].base = maps[s].start /\ modules[k].end = maps[j - 1].end

Image(n) == maps[n].path = Nameless /\ maps[n].head = "elf"

Holds(k, n) == modules[k].base <= maps[n].start /\ maps[n].end <= modules[k].end

AnonInv ==
  /\ pass = "files" => Anons = {}
  /\ \A k \in Anons : \E s \in 1..Len(maps) : \E j \in s + 1..Len(maps) + 1 :
       RunOf(k, s, j) /\ (pass = "anon" => j <= at_entry)
  /\ \A k, l \in Anons : k < l => modules[k].end <= modules[l].base
  /\ pass = "anon" => \A n \in 1..at_entry - 1 : Image(n) => \E k \in Anons : Holds(k, n)
  /\ pass = "done" /\ options.anon /\ options.filter = NoFilter =>
       \A n \in 1..Len(maps) : Image(n) => \E k \in Anons : Holds(k, n)

GroupInv == GroupType /\ SpansInv /\ AnonInv

-----------------------------------------------------------------------------

LEMMA MapFacts ==
  ASSUME LaidOut
  PROVE  /\ Len(maps) \in Nat /\ DOMAIN maps = 1..Len(maps)
         /\ \A n \in 1..Len(maps) : /\ maps[n] \in Entry /\ maps[n].start \in Nat /\ maps[n].end \in Nat
                                    /\ maps[n].path \in SoPaths \cup {Nameless, Named}
<1>1. Len(maps) \in Nat /\ DOMAIN maps = 1..Len(maps)
  BY LenProperties DEF LaidOut
<1>2. ASSUME NEW n \in 1..Len(maps)
      PROVE  maps[n] \in Entry
  BY <1>2, ElementOfSeq DEF LaidOut
<1> QED
  BY <1>1, <1>2 DEF Entry

LEMMA ModuleFacts ==
  ASSUME modules \in Seq(SoModule)
  PROVE  /\ Len(modules) \in Nat /\ DOMAIN modules = 1..Len(modules)
         /\ \A k \in 1..Len(modules) : /\ modules[k] \in SoModule
                                       /\ modules[k].path \in SoPaths \cup {Nameless}
                                       /\ modules[k].base \in Nat /\ modules[k].end \in Nat
<1>1. Len(modules) \in Nat /\ DOMAIN modules = 1..Len(modules)
  BY LenProperties
<1>2. ASSUME NEW k \in 1..Len(modules)
      PROVE  modules[k] \in SoModule
  BY <1>2, ElementOfSeq
<1> QED
  BY <1>1, <1>2 DEF SoModule

(* The inner loop ends at the first entry that does not join the run. *)
LEMMA RunEnds ==
  ASSUME LaidOut, NEW n \in 1..Len(maps)
  PROVE  /\ RunEnd(n) \in n + 1..Len(maps) + 1
         /\ \A k \in n + 1..RunEnd(n) - 1 : Joins(k)
<1> DEFINE F == {j \in n + 1..Len(maps) + 1 : j = Len(maps) + 1 \/ ~Joins(j)}
<1>1. Len(maps) \in Nat /\ F \in SUBSET Nat /\ Len(maps) + 1 \in F
  BY MapFacts
<1>2. PICK j \in F : \A k \in F : j <= k
  BY <1>1, LeastOf
<1>3. /\ j \in n + 1..Len(maps) + 1
      /\ \A k \in n + 1..j - 1 : Joins(k)
      /\ j <= Len(maps) => ~Joins(j)
  BY <1>1, <1>2
<1>4. \E i \in n + 1..Len(maps) + 1 :
        (\A k \in n + 1..i - 1 : Joins(k)) /\ (i <= Len(maps) => ~Joins(i))
  BY <1>3
<1> QED
  BY <1>4 DEF RunEnd

(* The span of a run holds each of its entries, and they leave no gap in it. *)
LEMMA RunHolds ==
  ASSUME LaidOut, NEW s \in 1..Len(maps), NEW j \in s + 1..Len(maps) + 1,
         NEW n \in s..j - 1
  PROVE  maps[s].start <= maps[n].start /\ maps[n].end <= maps[j - 1].end
<1>1. /\ Len(maps) \in Nat /\ n \in 1..Len(maps) /\ j - 1 \in 1..Len(maps)
      /\ maps[s].start \in Nat /\ maps[s].end \in Nat /\ maps[n].start \in Nat /\ maps[n].end \in Nat
      /\ maps[j - 1].start \in Nat /\ maps[j - 1].end \in Nat
  BY MapFacts
<1>2. ASSUME NEW i \in 1..Len(maps), NEW k \in 1..Len(maps), i <= k
      PROVE  maps[i].start <= maps[k].start /\ maps[i].end <= maps[k].end
  <2>0. maps[i].start \in Nat /\ maps[i].end \in Nat /\ maps[k].start \in Nat /\ maps[k].end \in Nat
    BY MapFacts
  <2>1. CASE i = k
    BY <2>0, <2>1
  <2>2. CASE i # k
    <3>1. i \in 1..k - 1
      BY <1>2, <2>2, <1>1
    <3>2. maps[i].end <= maps[k].start /\ maps[i].start < maps[i].end /\ maps[k].start < maps[k].end
      BY <3>1 DEF LaidOut
    <3> QED
      BY <2>0, <3>2
  <2> QED
    BY <2>1, <2>2
<1>3. s <= n /\ n <= j - 1
  OBVIOUS
<1> QED
  BY <1>1, <1>2, <1>3

LEMMA RunWhole ==
  ASSUME LaidOut, NEW s \in 1..Len(maps), NEW j \in s + 1..Len(maps) + 1,
         maps[s].path = Nameless, \A n \in s + 1..j - 1 : Joins(n),
         NEW a \in maps[s].start..maps[j - 1].end - 1
  PROVE  \E n \in 1..Len(maps) : maps[n].path = Nameless /\ maps[n].start <= a /\ a < maps[n].end
<1> DEFINE F == {n \in s..j - 1 : a < maps[n].end}
<1>0. /\ Len(maps) \in Nat /\ j - 1 \in s..j - 1 /\ s..j - 1 \subseteq 1..Len(maps)
  BY MapFacts
<1>1. \A n \in s..j - 1 : maps[n].start \in Nat /\ maps[n].end \in Nat
  BY <1>0, MapFacts
<1>2. a \in Nat /\ maps[s].start <= a /\ a < maps[j - 1].end
  BY <1>0, <1>1
<1>3. F \in SUBSET Nat /\ j - 1 \in F
  BY <1>0, <1>2
<1>4. PICK n \in F : \A k \in F : n <= k
  BY <1>3, LeastOf
<1>5. n \in s..j - 1 /\ a < maps[n].end
  BY <1>4
<1>6. CASE n = s
  BY <1>0, <1>2, <1>5, <1>6
<1>7. CASE n # s
  <2>1. n \in s + 1..j - 1 /\ n - 1 \in s..j - 1
    BY <1>5, <1>7, <1>0
  <2>2. n - 1 \notin F
    BY <1>4, <1>5, <1>0
  <2>3. maps[n - 1].end <= a
    BY <2>1, <2>2, <1>1, <1>2
  <2>4. maps[n].path = Nameless /\ maps[n].start = maps[n - 1].end
    BY <2>1 DEF Joins
  <2> QED
    BY <1>0, <1>5, <2>3, <2>4
<1> QED
  BY <1>6, <1>7

-----------------------------------------------------------------------------

LEMMA FileEntryType ==
  ASSUME GroupInv, FileEntry
  PROVE  GroupType'
<1>0. /\ Len(maps) \in Nat /\ at_entry \in 1..Len(maps) /\ at_entry' = at_entry + 1
      /\ maps' = maps /\ pass' = pass /\ modules \in Seq(SoModule)
  BY MapFacts DEF FileEntry, GroupInv, GroupType
<1> DEFINE e == maps[at_entry]
<1>1. e \in Entry /\ e.start \in Nat /\ e.end \in Nat
  BY <1>0, MapFacts DEF GroupInv, GroupType
<1> HIDE DEF e
<1>2. modules' \in Seq(SoModule)
  <2>1. CASE modules' = modules
    BY <1>0, <2>1
  <2>2. CASE modules' = [k \in DOMAIN modules |->
                           IF modules[k].path = e.path THEN Extended(modules[k], e) ELSE modules[k]]
    <3>1. ASSUME NEW k \in 1..Len(modules)
          PROVE  Extended(modules[k], e) \in SoModule
      BY <1>0, <1>1, ModuleFacts DEF Extended, SoModule
    <3> QED
      BY <2>2, <3>1, <1>0, ModuleFacts, IsASeq
  <2>3. CASE Selected(e) /\ modules' = Append(modules, [path |-> e.path, base |-> e.start, end |-> e.end])
    <3>1. [path |-> e.path, base |-> e.start, end |-> e.end] \in SoModule
      BY <2>3, <1>1 DEF Selected, SoModule
    <3> QED
      BY <2>3, <3>1, <1>0, AppendProperties
  <2> QED
    BY <2>1, <2>2, <2>3 DEF FileEntry, e
<1> QED
  BY <1>0, <1>2 DEF GroupInv, GroupType, LaidOut

(* The entry the first pass looks at: it belongs to one library, if any.     *)
LEMMA FileEntrySpans ==
  ASSUME GroupInv, FileEntry
  PROVE  SpansInv'
<1> DEFINE e == maps[at_entry]
<1>0. /\ Len(maps) \in Nat /\ at_entry \in 1..Len(maps) /\ at_entry' = at_entry + 1
      /\ maps' = maps /\ pass' = pass /\ pass = "files" /\ options' = options
      /\ modules \in Seq(SoModule) /\ modules' \in Seq(SoModule)
      /\ Filed = at_entry - 1 /\ Filed' = at_entry
  BY MapFacts, FileEntryType DEF FileEntry, GroupInv, GroupType, Filed
<1>1. e.start \in Nat /\ e.end \in Nat
  BY <1>0, MapFacts DEF GroupInv, GroupType
<1>2. \A p \in SoPaths : Its(p)' = IF e.path = p /\ Selected(e) THEN Its(p) \cup {at_entry} ELSE Its(p)
  BY <1>0 DEF Its, Selected
<1>m. \A n \in 1..Filed : maps[n].start \in Nat /\ maps[n].end \in Nat
  BY <1>0, MapFacts DEF GroupInv, GroupType
<1>d. /\ DOMAIN modules = 1..Len(modules) /\ Len(modules) \in Nat
      /\ \A k \in 1..Len(modules) : /\ modules[k].base \in Nat /\ modules[k].end \in Nat
                                    /\ modules[k] \in SoModule
  BY <1>0, ModuleFacts
<1>3. CASE ~Selected(e)
  <2>1. modules' = modules
    BY <1>3 DEF FileEntry
  <2>2. \A p \in SoPaths : Its(p)' = Its(p)
    BY <1>2, <1>3
  <2> QED
    BY <1>0, <2>1, <2>2 DEF GroupInv, SpansInv, Of, Span
<1>4. CASE Selected(e) /\ Of(e.path) # {}
  <2>1. modules' = [k \in DOMAIN modules |->
                      IF modules[k].path = e.path THEN Extended(modules[k], e) ELSE modules[k]]
    BY <1>4 DEF FileEntry, Of
  <2>2. ASSUME NEW k \in 1..Len(modules)
        PROVE  /\ modules'[k].path = modules[k].path
               /\ modules[k].path # e.path => modules'[k] = modules[k]
               /\ modules[k].path = e.path =>
                    /\ modules'[k].base = IF e.start < modules[k].base THEN e.start ELSE modules[k].base
                    /\ modules'[k].end = IF e.end > modules[k].end THEN e.end ELSE modules[k].end
    BY <2>1, <1>d DEF Extended, SoModule
  <2>3. DOMAIN modules' = DOMAIN modules /\ \A p : Of(p)' = Of(p)
    BY <2>1, <2>2, <1>d DEF Of
  <2>4. ASSUME NEW p \in SoPaths
        PROVE  /\ Its(p)' = {} <=> Of(p)' = {}
               /\ \A k, l \in Of(p)' : k = l
    BY <1>2, <1>4, <2>3 DEF GroupInv, SpansInv
  <2>5. ASSUME NEW p \in SoPaths, NEW k \in Of(p)'
        PROVE  Span(k, Its(p))'
    <3>a. k \in Of(p)
      BY <2>3, <2>5
    <3>b. Span(k, Its(p))
      BY <3>a DEF GroupInv, SpansInv
    <3>0. k \in 1..Len(modules) /\ modules[k].path = p /\ Span(k, Its(p))
      BY <3>a, <3>b, <1>d DEF Of
    <3>1. CASE p # e.path
      BY <3>0, <3>1, <2>2, <1>2, <1>0 DEF Span
    <3>2. CASE p = e.path
      <4> DEFINE base == modules[k].base
                 last == modules[k].end
      <4>1. /\ base \in Nat /\ last \in Nat /\ Its(p)' = Its(p) \cup {at_entry}
            /\ modules'[k].base = IF e.start < base THEN e.start ELSE base
            /\ modules'[k].end = IF e.end > last THEN e.end ELSE last
            /\ Its(p) \subseteq 1..Filed
        BY <3>0, <3>2, <2>2, <1>2, <1>4, <1>d DEF Its
      <4>2. /\ \A n \in Its(p) : base <= maps[n].start /\ maps[n].end <= last
            /\ \E n \in Its(p) : maps[n].start = base
            /\ \E n \in Its(p) : maps[n].end = last
        BY <3>0 DEF Span
      <4> HIDE DEF base, last
      <4>3. \A n \in Its(p)' : modules'[k].base <= maps[n].start /\ maps[n].end <= modules'[k].end
        BY <4>1, <4>2, <1>1, <1>m
      <4>4. \E n \in Its(p)' : maps[n].start = modules'[k].base
        BY <4>1, <4>2
      <4>5. \E n \in Its(p)' : maps[n].end = modules'[k].end
        BY <4>1, <4>2
      <4> QED
        BY <4>3, <4>4, <4>5, <1>0 DEF Span
    <3> QED
      BY <3>1, <3>2
  <2> QED
    BY <2>4, <2>5 DEF SpansInv
<1>5. CASE Selected(e) /\ Of(e.path) = {}
  <2> DEFINE new == [path |-> e.path, base |-> e.start, end |-> e.end]
  <2>1. modules' = Append(modules, new)
    BY <1>5 DEF FileEntry, Of
  <2>p. new.path = e.path /\ new.base = e.start /\ new.end = e.end /\ new \in SoModule
    BY <1>1, <1>5 DEF Selected, SoModule
  <2> HIDE DEF new
  <2>2. /\ DOMAIN modules' = 1..Len(modules) + 1 /\ modules'[Len(modules) + 1] = new
        /\ \A k \in 1..Len(modules) : modules'[k] = modules[k]
    BY <2>1, <2>p, <1>0, <1>d, AppendProperties
  <2>3. ASSUME NEW p
        PROVE  Of(p)' = IF p = e.path THEN Of(p) \cup {Len(modules) + 1} ELSE Of(p)
    BY <2>2, <2>p, <1>d DEF Of
  <2>4. Its(e.path) = {} /\ e.path \in SoPaths
    BY <1>5 DEF Selected, GroupInv, SpansInv
  <2>5. ASSUME NEW p \in SoPaths
        PROVE  /\ Its(p)' = {} <=> Of(p)' = {}
               /\ \A k, l \in Of(p)' : k = l
               /\ \A k \in Of(p)' : Span(k, Its(p))'
    <3>1. CASE p = e.path
      <4>1. Its(p)' = {at_entry} /\ Of(p)' = {Len(modules) + 1}
        BY <3>1, <2>3, <2>4, <1>2, <1>5, Zenon
      <4>2. ASSUME NEW k \in Of(p)'
            PROVE  Span(k, Its(p))'
        <5>1. k = Len(modules) + 1 /\ modules'[k] = new
          BY <4>1, <4>2, <2>2
        <5> QED
          BY <4>1, <5>1, <2>p, <1>0, <1>1 DEF Span
      <4> QED
        BY <4>1, <4>2
    <3>2. CASE p # e.path
      <4>1. Its(p)' = Its(p) /\ Of(p)' = Of(p)
        BY <3>2, <2>3, <1>2
      <4>2. ASSUME NEW k \in Of(p)
            PROVE  Span(k, Its(p))'
        <5>1. k \in 1..Len(modules) /\ Span(k, Its(p))
          BY <4>2, <1>d DEF Of, GroupInv, SpansInv
        <5> QED
          BY <5>1, <4>1, <2>2, <1>0 DEF Span
      <4> QED
        BY <4>1, <4>2 DEF GroupInv, SpansInv
    <3> QED
      BY <3>1, <3>2
  <2> QED
    BY <2>5 DEF SpansInv
<1> QED
  BY <1>3, <1>4, <1>5

(* The first pass adds no nameless module.                                   *)
LEMMA FileEntryAnon ==
  ASSUME GroupInv, FileEntry
  PROVE  AnonInv'
<1> DEFINE e == maps[at_entry]
<1>0. /\ pass = "files" /\ pass' = "files" /\ modules \in Seq(SoModule) /\ Nameless \notin SoPaths
      /\ Anons = {}
  BY SoAssumption DEF FileEntry, GroupInv, GroupType, AnonInv
<1>1. /\ DOMAIN modules = 1..Len(modules) /\ Len(modules) \in Nat
      /\ \A k \in 1..Len(modules) : modules[k] \in SoModule /\ modules[k].path # Nameless
  BY <1>0, ModuleFacts DEF Of, Anons
<1>2. \A k \in DOMAIN modules' : modules'[k].path # Nameless
  <2>1. CASE modules' = modules
    BY <1>1, <2>1
  <2>2. CASE modules' = [k \in DOMAIN modules |->
                           IF modules[k].path = e.path THEN Extended(modules[k], e) ELSE modules[k]]
    <3>1. \A k \in 1..Len(modules) : Extended(modules[k], e).path = modules[k].path
      BY <1>1 DEF Extended, SoModule
    <3> QED
      BY <2>2, <3>1, <1>1
  <2>3. CASE Selected(e) /\ modules' = Append(modules, [path |-> e.path, base |-> e.start, end |-> e.end])
    <3> DEFINE new == [path |-> e.path, base |-> e.start, end |-> e.end]
    <3>1. new.path \in SoPaths
      BY <2>3 DEF Selected
    <3> HIDE DEF new
    <3>2. /\ DOMAIN modules' = 1..Len(modules) + 1 /\ modules'[Len(modules) + 1] = new
          /\ \A k \in 1..Len(modules) : modules'[k] = modules[k]
      BY <2>3, <1>1 DEF new
    <3> QED
      BY <3>1, <3>2, <1>0, <1>1
  <2> QED
    BY <2>1, <2>2, <2>3 DEF FileEntry
<1>3. Anons' = {}
  BY <1>2 DEF Anons, Of
<1> QED
  BY <1>0, <1>3 DEF AnonInv

(* A nameless module more, of the run that begins at the entry in hand.      *)
LEMMA AnonEntryInv ==
  ASSUME GroupInv, AnonEntry
  PROVE  GroupInv'
<1> DEFINE s == at_entry
           j == RunEnd(at_entry)
           new == [path |-> Nameless, base |-> maps[at_entry].start, end |-> maps[RunEnd(at_entry) - 1].end]
<1>0. /\ LaidOut /\ Len(maps) \in Nat /\ s \in 1..Len(maps) /\ maps' = maps /\ options' = options
      /\ pass = "anon" /\ pass' = "anon" /\ modules \in Seq(SoModule) /\ Filed' = Filed
  BY MapFacts DEF AnonEntry, GroupInv, GroupType, Filed
<1>d. /\ DOMAIN modules = 1..Len(modules) /\ Len(modules) \in Nat
      /\ \A k \in 1..Len(modules) : modules[k] \in SoModule /\ modules[k].base \in Nat /\ modules[k].end \in Nat
  BY <1>0, ModuleFacts
<1>i. /\ \A k \in Anons : \E i \in 1..Len(maps) : \E l \in i + 1..Len(maps) + 1 :
           RunOf(k, i, l) /\ l <= at_entry
      /\ \A k, l \in Anons : k < l => modules[k].end <= modules[l].base
      /\ \A n \in 1..at_entry - 1 : Image(n) => \E k \in Anons : Holds(k, n)
  BY <1>0 DEF GroupInv, AnonInv
<1>1. CASE ~Image(at_entry)
  <2>1. at_entry' = at_entry + 1 /\ modules' = modules
    BY <1>1 DEF AnonEntry, Image
  <2>2. GroupType'
    BY <1>0, <2>1 DEF GroupInv, GroupType, LaidOut
  <2>3. SpansInv'
    BY <1>0, <2>1 DEF GroupInv, SpansInv, Of, Its, Selected, Span
  <2>4. AnonInv'
    <3>1. Anons' = Anons
      BY <2>1 DEF Anons, Of
    <3>2. \A n \in 1..at_entry' - 1 : Image(n)' => n \in 1..at_entry - 1
      BY <1>0, <1>1, <2>1 DEF Image
    <3>3. \A n \in 1..at_entry' - 1 : Image(n)' => \E k \in Anons' : Holds(k, n)'
      BY <1>0, <1>i, <2>1, <3>1, <3>2 DEF Image, Holds
    <3>4. \A k \in Anons' : \E i \in 1..Len(maps') : \E l \in i + 1..Len(maps') + 1 :
            RunOf(k, i, l)' /\ l <= at_entry'
      <4>1. \A k, i, l : RunOf(k, i, l)' <=> RunOf(k, i, l)
        BY <1>0, <2>1 DEF RunOf, Joins
      <4>2. \A l \in Nat : l <= at_entry => l <= at_entry'
        BY <1>0, <2>1
      <4>3. \A i \in 1..Len(maps) : i + 1..Len(maps) + 1 \subseteq Nat
        BY <1>0
      <4> QED
        BY <1>0, <1>i, <3>1, <4>1, <4>2, <4>3
    <3>5. \A k, l \in Anons' : k < l => modules'[k].end <= modules'[l].base
      BY <1>i, <2>1, <3>1
    <3> QED
      BY <1>0, <3>3, <3>4, <3>5 DEF AnonInv
  <2> QED
    BY <2>2, <2>3, <2>4 DEF GroupInv
<1>2. CASE Image(at_entry)
  <2>1. at_entry' = j /\ modules' = Append(modules, new)
    BY <1>2 DEF AnonEntry, Image, AfterRun
  <2>2. j \in s + 1..Len(maps) + 1 /\ \A k \in s + 1..j - 1 : Joins(k)
    BY <1>0, RunEnds
  <2> HIDE DEF j
  <2>3. /\ j - 1 \in 1..Len(maps) /\ maps[s].start \in Nat /\ maps[j - 1].end \in Nat
    BY <1>0, <2>2, MapFacts
  <2>n. /\ new.path = Nameless /\ new.base = maps[s].start /\ new.end = maps[j - 1].end
        /\ new \in SoModule
    BY <2>3 DEF SoModule, j
  <2> HIDE DEF new
  <2>4. /\ DOMAIN modules' = 1..Len(modules) + 1 /\ modules'[Len(modules) + 1] = new
        /\ \A k \in 1..Len(modules) : modules'[k] = modules[k]
        /\ modules' \in Seq(SoModule)
    BY <2>1, <2>n, <1>0, <1>d, AppendProperties
  <2>5. GroupType'
    BY <1>0, <2>1, <2>2, <2>4 DEF GroupInv, GroupType, LaidOut
  <2>6. SpansInv'
    <3>1. \A p \in SoPaths : Of(p)' = Of(p)
      BY <2>4, <2>n, <1>d, SoAssumption DEF Of
    <3>2. \A p \in SoPaths : Its(p)' = Its(p)
      BY <1>0 DEF Its, Selected
    <3>3. ASSUME NEW p \in SoPaths, NEW k \in Of(p)
          PROVE  Span(k, Its(p))'
      <4>1. k \in 1..Len(modules) /\ Span(k, Its(p))
        BY <1>d, <3>3 DEF Of, GroupInv, SpansInv
      <4> QED
        BY <4>1, <3>2, <2>4, <1>0 DEF Span
    <3> QED
      BY <3>1, <3>2, <3>3 DEF GroupInv, SpansInv
  <2>7. Anons' = Anons \cup {Len(modules) + 1} /\ Anons \subseteq 1..Len(modules)
    BY <2>4, <2>n, <1>d DEF Anons, Of
  <2>8. ASSUME NEW k \in Anons'
        PROVE  \E i \in 1..Len(maps) : \E l \in i + 1..Len(maps) + 1 : RunOf(k, i, l)' /\ l <= j
    <3>1. CASE k \in Anons
      <4>1. PICK i \in 1..Len(maps) : \E l \in i + 1..Len(maps) + 1 : RunOf(k, i, l) /\ l <= at_entry
        BY <1>i, <3>1
      <4>2. PICK l \in i + 1..Len(maps) + 1 : RunOf(k, i, l) /\ l <= at_entry
        BY <4>1
      <4>3. modules'[k] = modules[k]
        BY <3>1, <2>7, <2>4
      <4>4. RunOf(k, i, l)' /\ l <= j
        BY <4>2, <4>3, <2>2, <1>0 DEF RunOf, Joins
      <4> QED
        BY <4>4
    <3>2. CASE k = Len(modules) + 1
      <4>1. modules'[k].base = maps[s].start /\ modules'[k].end = maps[j - 1].end
        BY <3>2, <2>4, <2>n
      <4>2. maps[s].path = Nameless
        BY <1>2 DEF Image
      <4>3. ASSUME NEW i, NEW l, i = s, l = j
            PROVE  RunOf(k, i, l)'
        BY <4>1, <4>2, <4>3, <2>2, <1>0 DEF RunOf, Joins
      <4> QED
        BY <4>3, <2>2, <1>0
    <3> QED
      BY <3>1, <3>2, <2>7
  <2>9. ASSUME NEW k \in Anons', NEW l \in Anons', k < l
        PROVE  modules'[k].end <= modules'[l].base
    <3>1. k \in Anons /\ k \in 1..Len(modules) /\ modules'[k] = modules[k]
      BY <2>7, <2>9, <2>4, <1>d
    <3>2. CASE l \in Anons
      BY <3>1, <3>2, <2>7, <2>4, <2>9, <1>i
    <3>3. CASE l = Len(modules) + 1
      <4>1. PICK i \in 1..Len(maps) : \E r \in i + 1..Len(maps) + 1 : RunOf(k, i, r) /\ r <= at_entry
        BY <1>i, <3>1
      <4>2. PICK r \in i + 1..Len(maps) + 1 : RunOf(k, i, r) /\ r <= at_entry
        BY <4>1
      <4>3. r - 1 \in 1..s - 1 /\ modules[k].end = maps[r - 1].end
        BY <4>2, <1>0 DEF RunOf
      <4>4. maps[r - 1].end <= maps[s].start
        BY <4>3, <1>0 DEF LaidOut
      <4> QED
        BY <3>1, <3>3, <4>3, <4>4, <2>4, <2>n
    <3> QED
      BY <3>2, <3>3, <2>7
  <2>10. ASSUME NEW n \in 1..j - 1, Image(n)
         PROVE  \E k \in Anons' : Holds(k, n)'
    <3>1. CASE n < s
      <4>1. PICK k \in Anons : Holds(k, n)
        BY <1>i, <3>1, <2>10, <1>0
      <4> QED
        BY <4>1, <2>7, <2>4, <1>0 DEF Holds
    <3>2. CASE n >= s
      <4>1. n \in s..j - 1
        BY <3>2, <2>2, <1>0
      <4>2. maps[s].start <= maps[n].start /\ maps[n].end <= maps[j - 1].end
        BY <4>1, <2>2, <1>0, RunHolds
      <4> QED
        BY <4>2, <2>7, <2>4, <2>n, <1>0 DEF Holds
    <3> QED
      BY <3>1, <3>2, <2>2, <1>0
  <2>11. AnonInv'
    BY <2>1, <2>8, <2>9, <2>10, <1>0 DEF AnonInv, Image
  <2> QED
    BY <2>5, <2>6, <2>11 DEF GroupInv
<1> QED
  BY <1>1, <1>2

LEMMA GroupInductive == GroupInv /\ [GroupNext]_groupVars => GroupInv'
<1> SUFFICES ASSUME GroupInv, [GroupNext]_groupVars
             PROVE  GroupInv'
  OBVIOUS
<1>1. CASE FileEntry
  BY <1>1, FileEntryType, FileEntrySpans, FileEntryAnon DEF GroupInv
<1>2. CASE FilesGrouped
  <2>1. /\ maps' = maps /\ options' = options /\ modules' = modules /\ pass = "files"
        /\ at_entry = Len(maps) + 1 /\ at_entry' = 1 /\ Len(maps) \in Nat
        /\ pass' = IF options.anon /\ options.filter = NoFilter THEN "anon" ELSE "done"
    BY <1>2, MapFacts DEF FilesGrouped, GroupInv, GroupType
  <2>2. Filed = Len(maps) /\ Filed' = Len(maps)
    BY <2>1 DEF Filed
  <2>3. GroupType'
    BY <2>1 DEF GroupInv, GroupType, LaidOut
  <2>4. SpansInv'
    BY <2>1, <2>2 DEF GroupInv, SpansInv, Of, Its, Selected, Span
  <2>5. AnonInv'
    BY <2>1 DEF GroupInv, AnonInv, Anons, Of
  <2> QED
    BY <2>3, <2>4, <2>5 DEF GroupInv
<1>3. CASE AnonEntry
  BY <1>3, AnonEntryInv
<1>4. CASE Grouped
  <2>1. /\ maps' = maps /\ options' = options /\ modules' = modules /\ pass = "anon" /\ pass' = "done"
        /\ at_entry = Len(maps) + 1 /\ at_entry' = at_entry /\ Len(maps) \in Nat
    BY <1>4, MapFacts DEF Grouped, GroupInv, GroupType
  <2>2. Filed' = Filed
    BY <2>1 DEF Filed
  <2>3. GroupType'
    BY <2>1 DEF GroupInv, GroupType, LaidOut
  <2>4. SpansInv'
    BY <2>1, <2>2 DEF GroupInv, SpansInv, Of, Its, Selected, Span
  <2>5. AnonInv'
    <3>1. /\ Anons' = Anons
          /\ \A n : Image(n)' <=> Image(n)
          /\ \A k, n : Holds(k, n)' <=> Holds(k, n)
          /\ \A k, i, l : RunOf(k, i, l)' <=> RunOf(k, i, l)
      BY <2>1 DEF Anons, Of, RunOf, Joins, Image, Holds
    <3>2. AnonInv
      BY DEF GroupInv
    <3>3. \A n \in 1..Len(maps) : Image(n) => \E k \in Anons : Holds(k, n)
      BY <2>1, <3>2 DEF AnonInv
    <3>4. \A k \in Anons' : \E i \in 1..Len(maps') : \E l \in i + 1..Len(maps') + 1 : RunOf(k, i, l)'
      BY <2>1, <3>1, <3>2 DEF AnonInv
    <3>5. \A k, l \in Anons' : k < l => modules'[k].end <= modules'[l].base
      BY <2>1, <3>1, <3>2 DEF AnonInv
    <3>6. \A n \in 1..Len(maps') : Image(n)' => \E k \in Anons' : Holds(k, n)'
      BY <2>1, <3>1, <3>3
    <3> QED
      BY <2>1, <3>4, <3>5, <3>6 DEF AnonInv
  <2> QED
    BY <2>3, <2>4, <2>5 DEF GroupInv
<1>5. CASE UNCHANGED groupVars
  BY <1>5 DEF groupVars, GroupInv, GroupType, LaidOut, SpansInv, AnonInv, Filed, Its, Selected, Of, Anons,
              Span, RunOf, Joins, Image, Holds
<1> QED
  BY <1>1, <1>2, <1>3, <1>4, <1>5 DEF GroupNext, Returned

(* For every layout the kernel may list and every choice of options, each    *)
(* library and each self-mapped image is one module, and whole.              *)
THEOREM ModulesWhole == GroupSpec => []ModulesExact
<1>1. GroupInit => GroupInv
  <2> SUFFICES ASSUME GroupInit
               PROVE  GroupInv
    OBVIOUS
  <2>1. LaidOut
    BY SoAssumption, LenProperties DEF GroupInit, LaidOut
  <2>2. Len(maps) \in Nat /\ modules = <<>> /\ pass = "files" /\ at_entry = 1 /\ Filed = 0
    BY <2>1, MapFacts DEF GroupInit, Filed
  <2>3. GroupType
    BY <2>1, <2>2, EmptySeq DEF GroupType
  <2>4. \A p : Of(p) = {} /\ Its(p) = {}
    BY <2>2 DEF Of, Its
  <2> QED
    BY <2>2, <2>3, <2>4 DEF GroupInv, SpansInv, AnonInv, Anons
<1>2. GroupInv => ModulesExact
  <2> SUFFICES ASSUME GroupInv
               PROVE  ModulesExact
    OBVIOUS
  <2>0. /\ LaidOut /\ Len(maps) \in Nat /\ DOMAIN maps = 1..Len(maps)
        /\ modules \in Seq(SoModule) /\ Anons \subseteq 1..Len(modules)
        /\ \A k \in 1..Len(modules) : modules[k].base \in Nat /\ modules[k].end \in Nat
        /\ \A n \in 1..Len(maps) : maps[n].start \in Nat /\ maps[n].end \in Nat
    BY MapFacts, ModuleFacts DEF GroupInv, GroupType, Anons, Of
  <2>1. SpansExact
    <3> SUFFICES ASSUME pass = "done", NEW p \in SoPaths
                 PROVE  LET its == {n \in DOMAIN maps : maps[n].path = p /\ Selected(maps[n])}
                        IN /\ its = {} <=> Of(p) = {}
                           /\ \A k, l \in Of(p) : k = l
                           /\ \A k \in Of(p) : Span(k, its)
      BY DEF SpansExact, Span
    <3>1. {n \in DOMAIN maps : maps[n].path = p /\ Selected(maps[n])} = Its(p)
      BY <2>0 DEF Its, Filed
    <3>2. /\ Its(p) = {} <=> Of(p) = {}
          /\ \A k, l \in Of(p) : k = l
          /\ \A k \in Of(p) : Span(k, Its(p))
      BY DEF GroupInv, SpansInv
    <3> QED
      BY <3>1, <3>2
  <2>2. AnonWhole
    <3> SUFFICES ASSUME NEW k \in Anons, NEW a \in modules[k].base..modules[k].end - 1
                 PROVE  \E n \in DOMAIN maps : maps[n].path = Nameless /\ maps[n].start <= a /\ a < maps[n].end
      BY DEF AnonWhole
    <3>1. PICK s \in 1..Len(maps) : \E j \in s + 1..Len(maps) + 1 : RunOf(k, s, j)
      BY DEF GroupInv, AnonInv
    <3>2. PICK j \in s + 1..Len(maps) + 1 : RunOf(k, s, j)
      BY <3>1
    <3>3. a \in maps[s].start..maps[j - 1].end - 1
      BY <3>2 DEF RunOf
    <3> QED
      BY <3>2, <3>3, <2>0, RunWhole DEF RunOf
  <2>3. ElfFound
    <3> SUFFICES ASSUME pass = "done", options.anon, options.filter = NoFilter, NEW n \in 1..Len(maps),
                        Image(n)
                 PROVE  \E k \in Anons : /\ Holds(k, n)
                                         /\ \A l \in Anons \ {k} : \/ modules[l].end <= maps[n].start
                                                                   \/ maps[n].end <= modules[l].base
      BY <2>0 DEF ElfFound, Holds, Image
    <3>1. PICK k \in Anons : Holds(k, n)
      BY DEF GroupInv, AnonInv
    <3>2. ASSUME NEW l \in Anons \ {k}
          PROVE  modules[l].end <= maps[n].start \/ maps[n].end <= modules[l].base
      <4>1. k \in 1..Len(modules) /\ l \in 1..Len(modules) /\ Len(modules) \in Nat
        BY <2>0, ModuleFacts
      <4>2. /\ modules[k].base \in Nat /\ modules[k].end \in Nat /\ modules[l].base \in Nat
            /\ modules[l].end \in Nat /\ maps[n].start \in Nat /\ maps[n].end \in Nat
        BY <2>0, <4>1
      <4>3. CASE l < k
        <5>1. modules[l].end <= modules[k].base
          BY <4>3 DEF GroupInv, AnonInv
        <5> QED
          BY <4>2, <5>1, <3>1 DEF Holds
      <4>4. CASE k < l
        <5>1. modules[k].end <= modules[l].base
          BY <4>4 DEF GroupInv, AnonInv
        <5> QED
          BY <4>2, <5>1, <3>1 DEF Holds
      <4> QED
        BY <4>1, <4>3, <4>4
    <3> QED
      BY <3>1, <3>2
  <2> QED
    BY <2>1, <2>2, <2>3 DEF ModulesExact
<1> QED
  BY <1>1, <1>2, GroupInductive, PTL DEF GroupSpec
=============================================================================
