---------------------------- MODULE RecordingProofs ----------------------------
(* Theorems about Recording, for any schedule of pauses, any timeouts and    *)
(* any rhythm of flushing: what a tape is worth, that a silent connection    *)
(* is given up, and that a venue is not stormed.                             *)
EXTENDS Recording, FiniteSetTheorems, WellFoundedInduction, TLAPS

-------------------------------------------------------------------------------
(* The reconnect schedule.                                                   *)

LEMMA ScheduleType == /\ Base \in Nat /\ Cap \in Nat /\ MinStable \in Nat
                      /\ 1 <= Base /\ Base <= Cap /\ 1 <= MinStable
BY BackoffAssumption

\* A set of natural numbers has a least member.
LEMMA LeastOf ==
  ASSUME NEW T \in SUBSET Nat, T # {}
  PROVE  \E m \in T : \A k \in T : m <= k
<1> DEFINE Less == OpToRel(<, Nat)
<1>1. \A u, v \in Nat : u < v => <<u, v>> \in Less
  BY DEF OpToRel
<1>2. IsWellFoundedOn(Less, Nat)
  BY NatLessThanWellFounded
<1> HIDE DEF Less
<1>3. PICK m \in T : \A k \in T : ~ (<<k, m>> \in Less)
  BY <1>2, WFMin
<1>4. ASSUME NEW k \in T PROVE m <= k
  <2>1. m \in Nat /\ k \in Nat /\ ~(k < m)
    BY <1>1, <1>3
  <2> QED BY <2>1
<1> QED BY <1>3, <1>4

\* A ceiling after one more attempt.
Doubled(ceiling) == IF 2 * ceiling < Cap THEN 2 * ceiling ELSE Cap

\* The ceilings of the first n attempts.
Climbs(f, n) ==
    /\ f \in [0..n -> Base..Cap]
    /\ f[0] = Base
    /\ \A i \in 1..n : f[i] = Doubled(f[i - 1])

LEMMA DoubledType == \A c \in Base..Cap : Doubled(c) \in Base..Cap /\ (Doubled(c) = Cap \/ Doubled(c) > c)
BY ScheduleType DEF Doubled

\* The schedule is defined: what the ceilings of n attempts are, a further one
\* continues.
LEMMA SchedulesExist == \A n \in Nat : \E f : Climbs(f, n)
<1> DEFINE T == {n \in Nat : ~ \E f : Climbs(f, n)}
<1> SUFFICES ASSUME T # {} PROVE FALSE
  OBVIOUS
<1> HIDE DEF T
<1>1. PICK n \in T : \A k \in T : n <= k
  <2>1. T \in SUBSET Nat
    BY DEF T
  <2> QED BY <2>1, LeastOf
<1>2. n \in Nat /\ ~ \E f : Climbs(f, n)
  BY DEF T
<1>3. CASE n = 0
  <2> DEFINE f == [i \in 0..0 |-> Base]
  <2>1. Climbs(f, 0)
    BY ScheduleType DEF Climbs
  <2> QED BY <1>2, <1>3, <2>1
<1>4. CASE n # 0
  <2>1. n - 1 \in Nat /\ n - 1 \notin T
    BY <1>1, <1>2, <1>4
  <2>2. PICK g : Climbs(g, n - 1)
    BY <2>1 DEF T
  <2> DEFINE f == [i \in 0..n |-> IF i = n THEN Doubled(g[n - 1]) ELSE g[i]]
  <2>3. g \in [0..(n - 1) -> Base..Cap] /\ g[0] = Base /\ \A i \in 1..(n - 1) : g[i] = Doubled(g[i - 1])
    BY <2>2 DEF Climbs
  <2>4. Doubled(g[n - 1]) \in Base..Cap
    BY <2>1, <2>3, DoubledType
  <2>5. f \in [0..n -> Base..Cap]
    BY <1>2, <2>3, <2>4
  <2>6. f[0] = Base
    BY <1>2, <1>4, <2>3
  <2>7. \A i \in 1..n : f[i] = Doubled(f[i - 1])
    BY <1>2, <1>4, <2>3
  <2>8. Climbs(f, n)
    BY <2>5, <2>6, <2>7 DEF Climbs
  <2> QED BY <1>2, <2>8
<1> QED BY <1>3, <1>4

LEMMA CeilingClimbs == Climbs(Ceiling, Cap)
<1> DEFINE Schedule(f) ==
      [attempt \in 0..Cap |->
          IF attempt = 0 THEN Base
          ELSE LET twice == 2 * f[attempt - 1] IN IF twice < Cap THEN twice ELSE Cap]
<1>1. PICK f : Climbs(f, Cap)
  BY SchedulesExist, ScheduleType
<1>2. f = Schedule(f)
  <2>1. f = [i \in 0..Cap |-> f[i]]
    BY <1>1 DEF Climbs
  <2>2. \A i \in 0..Cap : f[i] = IF i = 0 THEN Base ELSE Doubled(f[i - 1])
    BY <1>1, ScheduleType DEF Climbs
  <2> QED BY <2>1, <2>2 DEF Doubled
<1>3. Ceiling = Schedule(Ceiling)
  BY <1>2 DEF Ceiling
<1> DEFINE c == Ceiling
<1>c. c = Schedule(c)
  BY <1>3
<1> HIDE DEF c
<1>4. /\ DOMAIN c = 0..Cap /\ c[0] = Base
      /\ \A i \in 1..Cap : c[i] = Doubled(c[i - 1])
  <2>1. DOMAIN c = 0..Cap
    BY <1>c
  <2>2. \A i \in 0..Cap : c[i] = Schedule(c)[i]
    BY <1>c
  <2>3. \A i \in 0..Cap : Schedule(c)[i] = IF i = 0 THEN Base ELSE Doubled(c[i - 1])
    BY DEF Doubled
  <2> HIDE DEF Schedule
  <2>4. \A i \in 0..Cap : c[i] = IF i = 0 THEN Base ELSE Doubled(c[i - 1])
    BY <2>2, <2>3
  <2>5. 0 \in 0..Cap /\ \A i \in 1..Cap : i \in 0..Cap /\ i # 0
    BY ScheduleType
  <2> QED BY <2>1, <2>4, <2>5
<1>5. \A i \in 0..Cap : c[i] \in Base..Cap
  <2> DEFINE T == {i \in 0..Cap : c[i] \notin Base..Cap}
  <2> SUFFICES ASSUME T # {} PROVE FALSE
    OBVIOUS
  <2> HIDE DEF T
  <2>1. PICK n \in T : \A k \in T : n <= k
    <3>1. T \in SUBSET Nat
      BY ScheduleType DEF T
    <3> QED BY <3>1, LeastOf
  <2>2. n \in 0..Cap /\ c[n] \notin Base..Cap
    BY DEF T
  <2>3. n # 0
    BY <1>4, <2>2, ScheduleType
  <2>4. c[n - 1] \in Base..Cap
    BY <2>1, <2>2, <2>3, ScheduleType DEF T
  <2> QED BY <1>4, <2>2, <2>3, <2>4, DoubledType, ScheduleType
<1>6. c = [i \in 0..Cap |-> c[i]]
  BY <1>c
<1>7. c \in [0..Cap -> Base..Cap]
  BY <1>5, <1>6
<1> QED BY <1>4, <1>7 DEF Climbs, c

\* The schedule reaches its cap, and no attempt is counted beyond that.
LEMMA AttemptsType ==
  /\ LastAttempt \in 0..Cap /\ 0 \in Attempts
  /\ \A attempt \in Attempts : AfterDelay(attempt) \in Attempts
  /\ \A attempt \in Attempts : NextDelays(attempt) \subseteq 0..Cap
<1>1. Climbs(Ceiling, Cap)
  BY CeilingClimbs
<1> DEFINE c == Ceiling
<1>2. /\ c \in [0..Cap -> Base..Cap] /\ c[0] = Base
      /\ \A i \in 1..Cap : c[i] = Doubled(c[i - 1])
  BY <1>1 DEF Climbs
<1> HIDE DEF c
<1>3. \A i \in 0..Cap : c[i] = Cap \/ c[i] > i
  <2> DEFINE T == {i \in 0..Cap : ~(c[i] = Cap \/ c[i] > i)}
  <2> SUFFICES ASSUME T # {} PROVE FALSE
    OBVIOUS
  <2> HIDE DEF T
  <2>1. PICK n \in T : \A k \in T : n <= k
    <3>1. T \in SUBSET Nat
      BY ScheduleType DEF T
    <3> QED BY <3>1, LeastOf
  <2>2. n \in 0..Cap /\ ~(c[n] = Cap \/ c[n] > n)
    BY DEF T
  <2>3. n # 0
    BY <1>2, <2>2, ScheduleType
  <2>4. n - 1 \in 0..Cap /\ (c[n - 1] = Cap \/ c[n - 1] > n - 1) /\ c[n - 1] \in Base..Cap
    BY <1>2, <2>1, <2>2, <2>3, ScheduleType DEF T
  <2>5. c[n] = Doubled(c[n - 1]) /\ c[n] \in Base..Cap
    BY <1>2, <2>2, <2>3, ScheduleType
  <2> QED BY <2>2, <2>4, <2>5, DoubledType, ScheduleType
<1>4. \E n \in 0..Cap : c[n] = Cap /\ \A k \in 0..Cap : c[k] = Cap => n <= k
  <2> DEFINE T == {i \in 0..Cap : c[i] = Cap}
  <2>1. Cap \in T
    BY <1>2, <1>3, ScheduleType
  <2>2. T \in SUBSET Nat /\ T # {}
    BY <2>1, ScheduleType
  <2> HIDE DEF T
  <2>3. PICK n \in T : \A k \in T : n <= k
    BY <2>2, LeastOf
  <2> QED BY <2>3 DEF T
<1>5. LastAttempt \in 0..Cap
  BY <1>4 DEF LastAttempt, c
<1>6. \A attempt \in Attempts : AfterDelay(attempt) \in Attempts
  BY <1>5, ScheduleType DEF Attempts, AfterDelay
<1>7. ASSUME NEW attempt \in Attempts PROVE NextDelays(attempt) \subseteq 0..Cap
  <2>1. attempt \in 0..Cap
    BY <1>5, ScheduleType DEF Attempts
  <2>2. c[attempt] \in Base..Cap
    BY <1>2, <2>1
  <2>3. Ceiling[attempt] \in Base..Cap
    BY <2>2 DEF c
  <2> QED BY <2>3, ScheduleType DEF NextDelays, Sample
<1> QED BY <1>5, <1>6, <1>7, ScheduleType DEF Attempts

-------------------------------------------------------------------------------
(* The inductive invariant.                                                  *)

LinesOf(messages) == [i \in DOMAIN messages |-> Line(messages[i])]

\* Everything the task published, wherever it is: in the file, in the writer's
\* buffer, or on its way to the recorder.
OnTape == (file \o buffer) \o LinesOf(tee)

Numbered(t) == \A i \in DOMAIN t : t[i].number = i

Ended(t, k, s) == t[k].session_ended /\ t[k].session = s

Parted(t) ==
    \A i, j \in DOMAIN t :
        (i < j /\ ~t[i].session_ended /\ ~t[j].session_ended /\ t[i].session # t[j].session)
        => \E k \in i..j : Ended(t, k, t[i].session)

\* What was published is numbered without a gap, and is all the task had, but for
\* the frame in its hands.
TapeIsExact ==
    /\ Numbered(OnTape)
    /\ recording /\ recorder.pc # "crashed" =>
          Len(OnTape) = IF task.pc = "holding" THEN sent - 1 ELSE sent

\* Nothing is from a session to come, and after the frames of a session that is
\* over there is its end.
EndsAreMarked ==
    recorder.pc # "crashed" =>
        \A i \in DOMAIN OnTape :
            /\ OnTape[i].session <= session
            /\ ~OnTape[i].session_ended
               /\ (OnTape[i].session < session \/ task.pc \in {"top", "sleeping"})
               => \E k \in DOMAIN OnTape : k > i /\ Ended(OnTape, k, OnTape[i].session)

TapeParts == TapeIsExact /\ Parted(OnTape) /\ EndsAreMarked

\* The recorder gives the task up only when it cannot have a frame in its hands:
\* it was told to stop, and time has passed since.  After its last try_recv no
\* frame is on its way.
RecorderFollows ==
    /\ recording <=> recorder.pc # "none"
    /\ ~recording => tee = <<>> /\ sent = 0 /\ file = <<>> /\ buffer = <<>>
    /\ recorder.pc \in {"waiting", "draining", "flushing"} => stop
    /\ recorder.waited > 0 => stop /\ task.pc # "holding"
    /\ recorder.pc \in {"draining", "flushing", "exited"} => task.pc # "holding"
    /\ recorder.pc \in {"flushing", "exited"} => \A i \in DOMAIN tee : ~IsFrame(tee[i])
    /\ recorder.pc = "exited" => buffer = <<>>
    /\ recorder.pc = "crashed" => tee = <<>> /\ buffer = <<>>

FramesIn(lines) == {i \in DOMAIN lines : ~lines[i].session_ended}

\* While it records, the recorder counts the frames it has not flushed.
FlushIsNear ==
    recorder.pc = "reading" =>
        IsFiniteSet(FramesIn(buffer)) /\ Cardinality(FramesIn(buffer)) = recorder.frames

\* How long the venue was silent is on the idle timeout, or was before the REST
\* answer armed it again.
QuietIsTimed ==
    /\ task.pc = "holding" => quiet = 0
    /\ task.pc = "open" =>
          quiet <= task.silent + IF fetch.pc = "done" THEN IdleTimeout ELSE 0

IInv == TypeOK /\ TapeParts /\ RecorderFollows /\ FlushIsNear /\ QuietIsTimed

-------------------------------------------------------------------------------
(* Sequences of lines.                                                       *)

LEMMA TimersType ==
  /\ IdleTimeout \in Nat /\ IdleTimeout >= 1 /\ Window \in Nat /\ Window >= 1
  /\ FlushEvery \in Nat /\ FlushEvery >= 1 /\ Grace \in Nat /\ Grace >= 1
BY SessionAssumption, RecordingAssumption

LEMMA LineType == \A m \in Messages : Line(m) \in Lines
BY DEF Messages, Line, Lines

LEMMA LinesOfType ==
  ASSUME NEW s \in Seq(Messages)
  PROVE  /\ LinesOf(s) \in Seq(Lines) /\ Len(LinesOf(s)) = Len(s)
         /\ \A i \in DOMAIN s : LinesOf(s)[i] = Line(s[i])
<1>1. DOMAIN s = 1..Len(s) /\ Len(s) \in Nat /\ \A i \in DOMAIN s : Line(s[i]) \in Lines
  BY LineType
<1>2. LinesOf(s) = [i \in 1..Len(s) |-> Line(s[i])]
  BY <1>1 DEF LinesOf
<1> QED BY <1>1, <1>2

LEMMA ConcatIs ==
  ASSUME NEW S, NEW s \in Seq(S), NEW t \in Seq(S)
  PROVE  /\ s \o t \in Seq(S) /\ Len(s \o t) = Len(s) + Len(t)
         /\ \A i \in 1..Len(s) : (s \o t)[i] = s[i]
         /\ \A i \in 1..Len(t) : (s \o t)[Len(s) + i] = t[i]
OBVIOUS

\* The tape, place by place.
LEMMA OnTapeIs ==
  ASSUME file \in Seq(Lines), buffer \in Seq(Lines), tee \in Seq(Messages)
  PROVE  /\ OnTape \in Seq(Lines)
         /\ Len(OnTape) = Len(file) + Len(buffer) + Len(tee)
         /\ \A i \in 1..Len(file) : OnTape[i] = file[i]
         /\ \A i \in 1..Len(buffer) : OnTape[Len(file) + i] = buffer[i]
         /\ \A i \in 1..Len(tee) : OnTape[Len(file) + Len(buffer) + i] = Line(tee[i])
<1> DEFINE w == file \o buffer
           l == LinesOf(tee)
<1>1. /\ w \in Seq(Lines) /\ Len(w) = Len(file) + Len(buffer)
      /\ \A i \in 1..Len(file) : w[i] = file[i]
      /\ \A i \in 1..Len(buffer) : w[Len(file) + i] = buffer[i]
  OBVIOUS
<1>2. l \in Seq(Lines) /\ Len(l) = Len(tee) /\ \A i \in 1..Len(tee) : l[i] = Line(tee[i])
  BY LinesOfType
<1>3. OnTape = w \o l
  BY DEF OnTape
<1> HIDE DEF w, l
<1>4. /\ OnTape \in Seq(Lines) /\ Len(OnTape) = Len(w) + Len(l)
      /\ \A i \in 1..Len(w) : OnTape[i] = w[i]
      /\ \A i \in 1..Len(l) : OnTape[Len(w) + i] = l[i]
  <2>1. w \in Seq(Lines) /\ l \in Seq(Lines)
    BY <1>1, <1>2
  <2> QED BY ONLY <1>3, <2>1, ConcatIs
<1>5. Len(file) \in Nat /\ Len(buffer) \in Nat /\ Len(tee) \in Nat
  OBVIOUS
<1> QED BY <1>1, <1>2, <1>4, <1>5

\* One message longer.
Longer(t, u, line) ==
    /\ u \in Seq(Lines) /\ Len(u) = Len(t) + 1
    /\ \A i \in 1..Len(t) : u[i] = t[i]
    /\ u[Len(t) + 1] = line

\* A published message is the last on the tape.
LEMMA PublishedIsLast ==
  ASSUME file \in Seq(Lines), buffer \in Seq(Lines), tee \in Seq(Messages),
         NEW m \in Messages, tee' = Append(tee, m), UNCHANGED <<file, buffer>>
  PROVE  tee' \in Seq(Messages) /\ OnTape \in Seq(Lines) /\ Longer(OnTape, OnTape', Line(m))
<1> DEFINE l == LinesOf(tee)
           k == LinesOf(tee')
           w == file \o buffer
<1>1. /\ tee' \in Seq(Messages) /\ Len(tee') = Len(tee) + 1 /\ Len(tee) \in Nat
      /\ \A i \in 1..Len(tee) : tee'[i] = tee[i]
      /\ tee'[Len(tee) + 1] = m
  OBVIOUS
<1>2. l \in Seq(Lines) /\ Len(l) = Len(tee) /\ \A i \in DOMAIN tee : l[i] = Line(tee[i])
  BY LinesOfType
<1>3. k \in Seq(Lines) /\ Len(k) = Len(tee') /\ \A i \in DOMAIN tee' : k[i] = Line(tee'[i])
  BY <1>1, LinesOfType
<1>4. w \in Seq(Lines)
  OBVIOUS
<1>5. /\ Len(k) = Len(l) + 1 /\ Len(l) \in Nat
      /\ \A i \in 1..Len(l) : k[i] = l[i]
      /\ k[Len(l) + 1] = Line(m)
  <2>1. DOMAIN tee = 1..Len(tee) /\ DOMAIN tee' = 1..(Len(tee) + 1)
    BY <1>1
  <2>2. \A i \in 1..Len(tee) : k[i] = l[i]
    BY <1>1, <1>2, <1>3, <2>1
  <2>3. k[Len(tee) + 1] = Line(m)
    BY <1>1, <1>3, <2>1
  <2>4. Len(k) = Len(tee) + 1 /\ Len(l) = Len(tee)
    BY <1>1, <1>2, <1>3
  <2> HIDE DEF k, l
  <2> QED BY <1>1, <2>2, <2>3, <2>4
<1>6. OnTape = w \o l /\ OnTape' = w \o k
  BY DEF OnTape
<1> HIDE DEF l, k, w
<1>7. /\ Len(w) \in Nat
      /\ w \o l \in Seq(Lines) /\ Len(w \o l) = Len(w) + Len(l)
      /\ \A i \in 1..Len(w) : (w \o l)[i] = w[i]
      /\ \A i \in 1..Len(l) : (w \o l)[Len(w) + i] = l[i]
      /\ w \o k \in Seq(Lines) /\ Len(w \o k) = Len(w) + Len(k)
      /\ \A i \in 1..Len(w) : (w \o k)[i] = w[i]
      /\ \A i \in 1..Len(k) : (w \o k)[Len(w) + i] = k[i]
  <2>1. w \in Seq(Lines) /\ l \in Seq(Lines) /\ k \in Seq(Lines)
    BY <1>2, <1>3, <1>4
  <2>2. Len(w) \in Nat
    BY ONLY <2>1
  <2> QED BY ONLY <2>1, <2>2, ConcatIs
<1>8. \A i \in 1..(Len(w) + Len(l)) : (w \o k)[i] = (w \o l)[i]
  <2> SUFFICES ASSUME NEW i \in 1..(Len(w) + Len(l)) PROVE (w \o k)[i] = (w \o l)[i]
    OBVIOUS
  <2>1. CASE i \in 1..Len(w)
    BY <1>7, <2>1
  <2>2. CASE i \notin 1..Len(w)
    <3>1. i - Len(w) \in 1..Len(l) /\ i = Len(w) + (i - Len(w)) /\ i - Len(w) \in 1..Len(k)
      BY <1>5, <1>7, <2>2
    <3> DEFINE j == i - Len(w)
    <3>2. (w \o k)[Len(w) + j] = k[j] /\ (w \o l)[Len(w) + j] = l[j] /\ k[j] = l[j]
      BY <1>5, <1>7, <3>1
    <3> QED BY <3>1, <3>2
  <2> QED BY <2>1, <2>2
<1>9. (w \o k)[Len(w) + Len(l) + 1] = Line(m)
  <2>1. Len(l) + 1 \in 1..Len(k) /\ Len(w) + Len(l) + 1 = Len(w) + (Len(l) + 1)
    BY <1>5, <1>7
  <2>2. (w \o k)[Len(w) + (Len(l) + 1)] = k[Len(l) + 1]
    BY <1>7, <2>1
  <2> QED BY <1>5, <2>1, <2>2
<1> QED BY <1>1, <1>5, <1>6, <1>7, <1>8, <1>9 DEF Longer

\* The first message on its way goes to the buffer or the file: the tape is the
\* same.
LEMMA TakenIsKept ==
  ASSUME file \in Seq(Lines), buffer \in Seq(Lines), tee \in Seq(Messages),
         tee # <<>>, tee' = Tail(tee),
         \/ file' = file /\ buffer' = Append(buffer, Line(Head(tee)))
         \/ file' = file \o buffer \o <<Line(Head(tee))>> /\ buffer' = <<>>
  PROVE  /\ tee' \in Seq(Messages) /\ file' \in Seq(Lines) /\ buffer' \in Seq(Lines)
         /\ OnTape' = OnTape
<1> DEFINE m == Head(tee)
           w == file \o buffer
           b == Append(w, Line(m))
           k == LinesOf(tee')
           l == LinesOf(tee)
<1>1. /\ m \in Messages /\ tee' \in Seq(Messages) /\ Len(tee) \in Nat /\ Len(tee) >= 1
      /\ Len(tee') = Len(tee) - 1 /\ m = tee[1]
      /\ \A i \in 1..(Len(tee) - 1) : tee'[i] = tee[i + 1]
  OBVIOUS
<1>2. Line(m) \in Lines
  BY <1>1, LineType
<1>3. l \in Seq(Lines) /\ Len(l) = Len(tee) /\ \A i \in DOMAIN tee : l[i] = Line(tee[i])
  BY LinesOfType
<1>4. k \in Seq(Lines) /\ Len(k) = Len(tee') /\ \A i \in DOMAIN tee' : k[i] = Line(tee'[i])
  BY <1>1, LinesOfType
<1>5. l[1] = Line(m) /\ \A i \in 1..Len(k) : k[i] = l[i + 1]
  <2>1. DOMAIN tee = 1..Len(tee) /\ DOMAIN tee' = 1..(Len(tee) - 1)
    BY <1>1
  <2> HIDE DEF k, l, m
  <2>2. l[1] = Line(m)
    <3>1. 1 \in DOMAIN tee
      BY ONLY <1>1, <2>1
    <3> QED BY ONLY <1>1, <1>3, <3>1
  <2>3. Len(k) = Len(tee) - 1 /\ \A i \in 1..(Len(tee) - 1) : i \in DOMAIN tee' /\ i + 1 \in DOMAIN tee
    BY ONLY <1>1, <1>4, <2>1
  <2>4. \A i \in 1..(Len(tee) - 1) : k[i] = Line(tee'[i]) /\ l[i + 1] = Line(tee[i + 1])
    BY <1>3, <1>4, <2>3
  <2> QED BY <1>1, <2>2, <2>3, <2>4
<1>6. /\ file' \in Seq(Lines) /\ buffer' \in Seq(Lines)
      /\ file' \o buffer' = b /\ w \in Seq(Lines)
  <2> DEFINE e == Line(m)
  <2>1. e \in Lines
    BY <1>2
  <2> HIDE DEF e
  <2>2. \/ file' = file /\ buffer' = Append(buffer, e)
        \/ file' = file \o buffer \o <<e>> /\ buffer' = <<>>
    BY DEF e, m
  <2>3. b = Append(file \o buffer, e)
    BY DEF e
  <2>4. file \o Append(buffer, e) = Append(file \o buffer, e)
    BY <2>1
  <2>5. file \o buffer \o <<e>> = Append(file \o buffer, e)
    BY <2>1
  <2>6. (file \o buffer \o <<e>>) \o <<>> = file \o buffer \o <<e>>
    BY <2>1
  <2>7. file \o buffer \in Seq(Lines) /\ Append(buffer, e) \in Seq(Lines)
        /\ file \o buffer \o <<e>> \in Seq(Lines)
    BY <2>1
  <2>8. CASE file' = file /\ buffer' = Append(buffer, e)
    BY ONLY <2>3, <2>4, <2>7, <2>8, file \in Seq(Lines) DEF w
  <2>9. CASE file' = file \o buffer \o <<e>> /\ buffer' = <<>>
    <3>1. <<>> \in Seq(Lines)
      OBVIOUS
    <3> QED BY ONLY <2>3, <2>5, <2>6, <2>7, <2>9, <3>1 DEF w
  <2> QED BY <2>2, <2>8, <2>9
<1>7. OnTape = w \o l /\ OnTape' = b \o k
  BY <1>6 DEF OnTape
<1> HIDE DEF m, w, k, l
<1>8. w \o l = b \o k
  <2>1. b = Append(w, Line(m))
    OBVIOUS
  <2>2. /\ b \in Seq(Lines) /\ Len(b) = Len(w) + 1 /\ Len(w) \in Nat
        /\ \A i \in 1..Len(w) : b[i] = w[i]
        /\ b[Len(w) + 1] = Line(m)
    BY <1>2, <1>6, <2>1
  <2> HIDE DEF b
  <2>3. /\ w \o l \in Seq(Lines) /\ Len(w \o l) = Len(w) + Len(l)
        /\ \A i \in 1..Len(w) : (w \o l)[i] = w[i]
        /\ \A i \in 1..Len(l) : (w \o l)[Len(w) + i] = l[i]
    <3>1. w \in Seq(Lines) /\ l \in Seq(Lines)
      BY <1>3, <1>6
    <3> QED BY ONLY <3>1, ConcatIs
  <2>4. /\ b \o k \in Seq(Lines) /\ Len(b \o k) = Len(b) + Len(k)
        /\ \A i \in 1..Len(b) : (b \o k)[i] = b[i]
        /\ \A i \in 1..Len(k) : (b \o k)[Len(b) + i] = k[i]
    <3>1. b \in Seq(Lines) /\ k \in Seq(Lines)
      BY <1>4, <2>2
    <3> QED BY ONLY <3>1, ConcatIs
  <2>5. Len(k) = Len(l) - 1 /\ Len(l) \in Nat /\ Len(k) \in Nat
    BY <1>1, <1>3, <1>4
  <2>6. Len(w \o l) = Len(b \o k)
    BY <2>2, <2>3, <2>4, <2>5
  <2>7. ASSUME NEW i \in 1..Len(w \o l) PROVE (w \o l)[i] = (b \o k)[i]
    <3>1. CASE i \in 1..Len(w)
      BY <2>2, <2>3, <2>4, <3>1
    <3>2. CASE i = Len(w) + 1
      BY <1>5, <2>2, <2>3, <2>4, <2>5, <3>2
    <3>3. CASE i \notin 1..(Len(w) + 1)
      <4> DEFINE j == i - Len(w) - 1
      <4>1. j \in 1..Len(k) /\ i = Len(b) + j /\ i = Len(w) + (j + 1) /\ j + 1 \in 1..Len(l)
        BY <2>2, <2>3, <2>5, <3>3
      <4> HIDE DEF j
      <4>2. (b \o k)[i] = k[j]
        BY ONLY <2>4, <4>1
      <4>3. (w \o l)[i] = l[j + 1]
        BY ONLY <2>3, <4>1
      <4>4. k[j] = l[j + 1]
        BY ONLY <1>5, <4>1
      <4> QED BY ONLY <4>2, <4>3, <4>4
    <3>4. i \in 1..Len(w) \/ i = Len(w) + 1 \/ i \notin 1..(Len(w) + 1)
      BY <2>2
    <3> QED BY ONLY <3>1, <3>2, <3>3, <3>4
  <2>8. w \o l \in Seq(Lines) /\ b \o k \in Seq(Lines)
    BY <2>3, <2>4
  <2> QED BY ONLY <2>6, <2>7, <2>8
<1> QED BY <1>1, <1>6, <1>7, <1>8

-------------------------------------------------------------------------------
(* What a step does to the tape.                                             *)

\* A longer tape stays parted when the frames of other sessions have their ends.
LEMMA LongerIsParted ==
  ASSUME NEW t \in Seq(Lines), NEW u, NEW line \in Lines, Longer(t, u, line), Parted(t),
         ~line.session_ended =>
             \A i \in DOMAIN t :
                ~t[i].session_ended /\ t[i].session # line.session
                => \E k \in DOMAIN t : k > i /\ Ended(t, k, t[i].session)
  PROVE  Parted(u)
<1>1. /\ Len(t) \in Nat /\ DOMAIN t = 1..Len(t) /\ DOMAIN u = 1..(Len(t) + 1)
      /\ \A i \in 1..Len(t) : u[i] = t[i]
      /\ u[Len(t) + 1] = line
  BY DEF Longer
<1> SUFFICES ASSUME NEW i \in DOMAIN u, NEW j \in DOMAIN u, i < j,
                    ~u[i].session_ended, ~u[j].session_ended, u[i].session # u[j].session
             PROVE  \E k \in i..j : Ended(u, k, u[i].session)
  BY DEF Parted
<1>2. i \in 1..Len(t) /\ u[i] = t[i] /\ i \in Nat /\ j \in Nat
  BY <1>1
<1>3. CASE j \in 1..Len(t)
  <2>1. u[j] = t[j]
    BY <1>1, <1>3
  <2>2. PICK k \in i..j : Ended(t, k, t[i].session)
    BY <1>1, <1>2, <1>3, <2>1 DEF Parted
  <2>3. u[k] = t[k]
    BY <1>1, <1>2, <1>3
  <2> QED BY <1>2, <2>2, <2>3 DEF Ended
<1>4. CASE j = Len(t) + 1
  <2>1. PICK k \in DOMAIN t : k > i /\ Ended(t, k, t[i].session)
    BY <1>1, <1>2, <1>4
  <2>2. u[k] = t[k] /\ k \in i..j
    BY <1>1, <1>2, <1>4, <2>1
  <2> QED BY <1>2, <2>1, <2>2 DEF Ended
<1> QED BY <1>1, <1>3, <1>4

LEMMA LongerIsNumbered ==
  ASSUME NEW t \in Seq(Lines), NEW u, NEW line \in Lines, Longer(t, u, line), Numbered(t),
         line.number = Len(t) + 1
  PROVE  Numbered(u)
BY DEF Longer, Numbered

\* Without a recorder there is no tape.
LEMMA NoTape ==
  ASSUME ~recording', tee' = <<>>, file' = <<>>, buffer' = <<>>
  PROVE  TapeParts'
<1>1. OnTape' = <<>>
  <2>1. LinesOf(tee') = <<>>
    BY DEF LinesOf
  <2> QED BY <2>1 DEF OnTape
<1>2. DOMAIN OnTape' = {}
  BY <1>1
<1> QED BY <1>2 DEF TapeParts, TapeIsExact, Parted, EndsAreMarked, Numbered

\* Nothing is published.
LEMMA TapeKept ==
  ASSUME TapeParts, OnTape' = OnTape, UNCHANGED <<recording, session, sent>>,
         recorder'.pc = "crashed" <=> recorder.pc = "crashed",
         task'.pc = "holding" <=> task.pc = "holding",
         task'.pc \in {"top", "sleeping"} => task.pc \in {"top", "sleeping"}
  PROVE  TapeParts'
<1>1. Parted(OnTape)' /\ Numbered(OnTape)'
  BY DEF TapeParts, TapeIsExact, Parted, Numbered, Ended
<1>2. TapeIsExact'
  BY <1>1 DEF TapeParts, TapeIsExact
<1>3. EndsAreMarked'
  BY DEF TapeParts, EndsAreMarked, Ended
<1> QED BY <1>1, <1>2, <1>3 DEF TapeParts

\* A frame is published.
LEMMA FrameKeepsTape ==
  ASSUME TapeParts, OnTape \in Seq(Lines), session \in Nat,
         NEW line \in Lines, Longer(OnTape, OnTape', line),
         ~line.session_ended, line.session = session, line.number = Len(OnTape) + 1,
         task'.pc \notin {"holding", "top", "sleeping"}, sent' = Len(OnTape) + 1,
         recorder.pc # "crashed", UNCHANGED <<recording, recorder, session>>
  PROVE  TapeParts'
<1> DEFINE t == OnTape
           u == OnTape'
<1>1. /\ Len(t) \in Nat /\ DOMAIN t = 1..Len(t) /\ Len(u) = Len(t) + 1 /\ DOMAIN u = 1..(Len(t) + 1)
      /\ \A i \in 1..Len(t) : u[i] = t[i]
      /\ u[Len(t) + 1] = line
  BY DEF Longer
<1>2. /\ Numbered(t) /\ Parted(t)
      /\ \A i \in DOMAIN t :
            /\ t[i].session <= session
            /\ ~t[i].session_ended /\ t[i].session < session
                 => \E k \in DOMAIN t : k > i /\ Ended(t, k, t[i].session)
  BY DEF TapeParts, TapeIsExact, EndsAreMarked
<1>3. t \in Seq(Lines) /\ \A i \in DOMAIN t : t[i].session \in Nat
  <2>1. t \in Seq(Lines)
    OBVIOUS
  <2> HIDE DEF t
  <2>2. \A i \in DOMAIN t : t[i] \in Lines
    BY <2>1
  <2> QED BY <2>1, <2>2 DEF Lines
<1>4. Longer(t, u, line)
  OBVIOUS
<1>5. Numbered(OnTape)' <=> Numbered(u)
  BY DEF Numbered
<1>6. Parted(OnTape)' <=> Parted(u)
  BY DEF Parted, Ended
<1>7. EndsAreMarked' <=>
        \A i \in DOMAIN u :
            /\ u[i].session <= session
            /\ ~u[i].session_ended /\ u[i].session < session
                 => \E k \in DOMAIN u : k > i /\ Ended(u, k, u[i].session)
  BY DEF EndsAreMarked, Ended
<1>8. TapeIsExact' <=> Numbered(u) /\ (recording => Len(u) = sent')
  BY <1>5 DEF TapeIsExact
<1> HIDE DEF t, u
<1>9. Numbered(u)
  BY <1>2, <1>3, <1>4, LongerIsNumbered DEF t
<1>10. Parted(u)
  <2>1. \A i \in DOMAIN t :
           ~t[i].session_ended /\ t[i].session # line.session
           => \E k \in DOMAIN t : k > i /\ Ended(t, k, t[i].session)
    BY <1>2, <1>3
  <2> QED BY <1>2, <1>3, <1>4, <2>1, LongerIsParted
<1>11. ASSUME NEW i \in DOMAIN u
       PROVE  /\ u[i].session <= session
              /\ ~u[i].session_ended /\ u[i].session < session
                   => \E k \in DOMAIN u : k > i /\ Ended(u, k, u[i].session)
  <2>1. CASE i = Len(t) + 1
    BY <1>1, <2>1
  <2>2. CASE i \in DOMAIN t
    <3>1. u[i] = t[i] /\ \A k \in DOMAIN t : k \in DOMAIN u /\ u[k] = t[k]
      BY <1>1, <2>2
    <3> QED BY <1>2, <2>2, <3>1 DEF Ended
  <2> QED BY <1>1, <2>1, <2>2
<1>12. Len(u) = sent'
  BY <1>1 DEF t
<1> QED BY <1>6, <1>7, <1>8, <1>9, <1>10, <1>11, <1>12 DEF TapeParts

\* The end of a session is published.
LEMMA EndKeepsTape ==
  ASSUME TapeParts, OnTape \in Seq(Lines), session \in Nat,
         NEW line \in Lines, Longer(OnTape, OnTape', line),
         line.session_ended, line.session = session, line.number = Len(OnTape) + 1,
         task'.pc = "sleeping", sent' = Len(OnTape) + 1,
         recorder.pc # "crashed", UNCHANGED <<recording, recorder, session>>
  PROVE  TapeParts'
<1> DEFINE t == OnTape
           u == OnTape'
<1>1. /\ Len(t) \in Nat /\ DOMAIN t = 1..Len(t) /\ Len(u) = Len(t) + 1 /\ DOMAIN u = 1..(Len(t) + 1)
      /\ \A i \in 1..Len(t) : u[i] = t[i]
      /\ u[Len(t) + 1] = line
  BY DEF Longer
<1>2. /\ Numbered(t) /\ Parted(t)
      /\ \A i \in DOMAIN t :
            /\ t[i].session <= session
            /\ ~t[i].session_ended /\ t[i].session < session
                 => \E k \in DOMAIN t : k > i /\ Ended(t, k, t[i].session)
  BY DEF TapeParts, TapeIsExact, EndsAreMarked
<1>3. t \in Seq(Lines) /\ \A i \in DOMAIN t : t[i].session \in Nat
  <2>1. t \in Seq(Lines)
    OBVIOUS
  <2> HIDE DEF t
  <2>2. \A i \in DOMAIN t : t[i] \in Lines
    BY <2>1
  <2> QED BY <2>1, <2>2 DEF Lines
<1>4. Longer(t, u, line)
  OBVIOUS
<1>5. Numbered(OnTape)' <=> Numbered(u)
  BY DEF Numbered
<1>6. Parted(OnTape)' <=> Parted(u)
  BY DEF Parted, Ended
<1>7. (\A i \in DOMAIN u :
            /\ u[i].session <= session
            /\ ~u[i].session_ended => \E k \in DOMAIN u : k > i /\ Ended(u, k, u[i].session))
      => EndsAreMarked'
  BY DEF EndsAreMarked, Ended
<1>8. TapeIsExact' <=> Numbered(u) /\ (recording => Len(u) = sent')
  BY <1>5 DEF TapeIsExact
<1> HIDE DEF t, u
<1>9. Numbered(u)
  BY <1>2, <1>3, <1>4, LongerIsNumbered DEF t
<1>10. Parted(u)
  BY <1>2, <1>3, <1>4, LongerIsParted
<1>11. ASSUME NEW i \in DOMAIN u
       PROVE  /\ u[i].session <= session
              /\ ~u[i].session_ended => \E k \in DOMAIN u : k > i /\ Ended(u, k, u[i].session)
  <2>1. CASE i = Len(t) + 1
    BY <1>1, <2>1
  <2>2. CASE i \in DOMAIN t
    <3>1. u[i] = t[i] /\ i \in 1..Len(t) /\ \A k \in DOMAIN t : k \in DOMAIN u /\ u[k] = t[k]
      BY <1>1, <2>2
    <3>2. t[i].session \in Nat /\ t[i].session <= session
      BY <1>2, <1>3, <2>2
    <3>3. CASE t[i].session < session
      BY <1>2, <2>2, <3>1, <3>2, <3>3 DEF Ended
    <3>4. CASE t[i].session = session
      <4>1. Len(t) + 1 \in DOMAIN u /\ Len(t) + 1 > i
        BY <1>1, <3>1
      <4>2. Ended(u, Len(t) + 1, u[i].session)
        BY <1>1, <3>1, <3>4 DEF Ended
      <4> QED BY <3>1, <3>2, <4>1, <4>2
    <3> QED BY <3>2, <3>3, <3>4
  <2> QED BY <1>1, <2>1, <2>2
<1>12. Len(u) = sent'
  BY <1>1 DEF t
<1> QED BY <1>6, <1>7, <1>8, <1>9, <1>10, <1>11, <1>12 DEF TapeParts

-------------------------------------------------------------------------------
(* The steps of the task.                                                    *)

Tasks == [pc : Pcs, attempt : Attempts, lasted : 0..MinStable, silent : 0..IdleTimeout,
          pause : 0..Cap]
Fetches == [pc : {"none", "fetching", "waiting", "done"}, attempt : Attempts, pause : 0..Cap]

LEMMA SessionTypeIs ==
  SessionTypeOK <=>
    /\ {recording, asked, stop} \subseteq BOOLEAN
    /\ task \in Tasks /\ fetch \in Fetches
    /\ tee \in Seq(Messages)
    /\ recent \in SUBSET [attempt : Nat, age : 0..Window - 1]
    /\ {sent, session} \subseteq Nat
    /\ quiet \in 0..2 * IdleTimeout + 1
BY DEF SessionTypeOK, Tasks, Fetches

LEMMA ZeroIsFine ==
  /\ 0 \in 0..MinStable /\ 0 \in 0..IdleTimeout /\ 0 \in 0..Cap /\ 0 \in 0..Grace
  /\ 0 \in 0..FlushEvery - 1 /\ 0 \in 0..2 * IdleTimeout + 1 /\ 0 \in 0..Window - 1
BY ScheduleType, TimersType

\* What becomes of the task's record.
LEMMA TaskMoves ==
  ASSUME NEW t \in Tasks, NEW pc \in Pcs
  PROVE  /\ [t EXCEPT !.pc = pc] \in Tasks /\ [t EXCEPT !.pc = pc].pc = pc
         /\ [t EXCEPT !.silent = 0] \in Tasks
         /\ [t EXCEPT !.silent = 0].pc = t.pc /\ [t EXCEPT !.silent = 0].silent = 0
         /\ [t EXCEPT !.pc = pc, !.silent = 0] \in Tasks
         /\ [t EXCEPT !.pc = pc, !.silent = 0].pc = pc
         /\ [t EXCEPT !.pc = pc, !.silent = 0].silent = 0
         /\ [t EXCEPT !.pc = pc, !.lasted = 0] \in Tasks
BY ZeroIsFine DEF Tasks

LEMMA TapeTypes ==
  ASSUME TypeOK
  PROVE  /\ file \in Seq(Lines) /\ buffer \in Seq(Lines) /\ tee \in Seq(Messages)
         /\ OnTape \in Seq(Lines) /\ session \in Nat /\ sent \in Nat /\ recording \in BOOLEAN
<1>1. file \in Seq(Lines) /\ buffer \in Seq(Lines) /\ tee \in Seq(Messages)
  BY DEF TypeOK, SessionTypeOK
<1>2. session \in Nat /\ sent \in Nat /\ recording \in BOOLEAN
  BY DEF TypeOK, SessionTypeOK
<1> QED BY <1>1, <1>2, OnTapeIs

\* A step that publishes nothing, opens no session and takes no frame in hand.
LEMMA SilentStepKeeps ==
  ASSUME IInv, UNCHANGED rvars, UNCHANGED <<recording, tee, sent, session>>,
         SessionTypeOK', QuietIsTimed',
         task'.pc = "holding" <=> task.pc = "holding",
         task'.pc \in {"top", "sleeping"} => task.pc \in {"top", "sleeping"},
         stop => stop'
  PROVE  IInv'
<1> USE DEF IInv, rvars
<1>1. TypeOK'
  BY DEF TypeOK
<1>2. OnTape' = OnTape
  BY DEF OnTape, LinesOf
<1>3. TapeParts'
  BY <1>2, TapeKept
<1>4. RecorderFollows'
  BY DEF RecorderFollows
<1>5. FlushIsNear'
  BY DEF FlushIsNear, FramesIn
<1> QED BY <1>1, <1>3, <1>4, <1>5

LEMMA BeginKeeps == ASSUME IInv, Running, Begin, UNCHANGED rvars PROVE IInv'
<1> USE DEF IInv, rvars
<1>1. /\ task.pc = "top" /\ task' = [task EXCEPT !.pc = "connecting", !.lasted = 0]
      /\ session' = session + 1
      /\ recent' = recent \union {[attempt |-> session', age |-> 0]}
      /\ UNCHANGED <<recording, fetch, asked, stop, tee, sent, quiet>>
  BY DEF Begin
<1>2. SessionTypeOK
  BY DEF TypeOK
<1>3. task' \in Tasks
  <2>1. task \in Tasks /\ "connecting" \in Pcs
    BY <1>2, SessionTypeIs DEF Pcs
  <2> QED BY <1>1, <2>1, TaskMoves
<1>4. session' \in Nat /\ 0 \in 0..Window - 1
  BY <1>1, <1>2, TimersType, SMTT(90) DEF SessionTypeOK
<1>5. recent' \in SUBSET [attempt : Nat, age : 0..Window - 1]
  BY <1>1, <1>2, <1>4 DEF SessionTypeOK
<1>6. SessionTypeOK'
  BY <1>1, <1>2, <1>3, <1>4, <1>5 DEF SessionTypeOK, Tasks
<1>7. TypeOK'
  BY <1>6 DEF TypeOK
<1>8. task'.pc = "connecting"
  BY <1>1, <1>2 DEF SessionTypeOK
<1>9. OnTape' = OnTape
  BY <1>1 DEF OnTape, LinesOf
<1>10. TapeParts'
  <2>1. TapeIsExact'
    BY <1>1, <1>8, <1>9 DEF TapeParts, TapeIsExact, Numbered
  <2>2. Parted(OnTape)'
    BY <1>9 DEF TapeParts, Parted, Ended
  <2>3. EndsAreMarked'
    <3>1. \A i \in DOMAIN OnTape : OnTape[i].session \in Nat
      <4> DEFINE t == OnTape
      <4>1. t \in Seq(Lines)
        BY TapeTypes
      <4> HIDE DEF t
      <4>2. \A i \in DOMAIN t : t[i] \in Lines
        BY <4>1
      <4>3. \A i \in DOMAIN t : t[i].session \in Nat
        BY <4>2 DEF Lines
      <4> QED BY <4>3 DEF t
    <3>2. session \in Nat
      BY TapeTypes
    <3> QED BY <1>1, <1>8, <1>9, <3>1, <3>2 DEF TapeParts, EndsAreMarked, Ended
  <2> QED BY <2>1, <2>2, <2>3 DEF TapeParts
<1>11. RecorderFollows'
  BY <1>1, <1>8 DEF RecorderFollows
<1>12. FlushIsNear'
  BY DEF FlushIsNear, FramesIn
<1>13. QuietIsTimed'
  BY <1>8 DEF QuietIsTimed
<1> QED BY <1>7, <1>10, <1>11, <1>12, <1>13

LEMMA StopAtTopKeeps == ASSUME IInv, StopAtTop, UNCHANGED rvars PROVE IInv'
<1>1. SessionTypeOK /\ SessionTypeOK' /\ task.pc = "top" /\ task'.pc = "done"
  BY DEF IInv, TypeOK, SessionTypeOK, StopAtTop, Pcs
<1>2. QuietIsTimed'
  BY <1>1 DEF QuietIsTimed
<1> QED BY <1>1, <1>2, SilentStepKeeps DEF StopAtTop

LEMMA WakeKeeps == ASSUME IInv, Wake, UNCHANGED rvars PROVE IInv'
<1>1. SessionTypeOK /\ SessionTypeOK' /\ task.pc = "sleeping" /\ task'.pc = "top"
  BY DEF IInv, TypeOK, SessionTypeOK, Wake, Pcs
<1>2. QuietIsTimed'
  BY <1>1 DEF QuietIsTimed
<1> QED BY <1>1, <1>2, SilentStepKeeps DEF Wake

LEMMA StopWhileSleepingKeeps == ASSUME IInv, StopWhileSleeping, UNCHANGED rvars PROVE IInv'
<1>1. SessionTypeOK /\ SessionTypeOK' /\ task.pc = "sleeping" /\ task'.pc = "done"
  BY DEF IInv, TypeOK, SessionTypeOK, StopWhileSleeping, Pcs
<1>2. QuietIsTimed'
  BY <1>1 DEF QuietIsTimed
<1> QED BY <1>1, <1>2, SilentStepKeeps DEF StopWhileSleeping

LEMMA NoFetchType ==
  /\ NoFetch \in Fetches
  /\ [NoFetch EXCEPT !.pc = "fetching"]
       \in Fetches
BY AttemptsType, ScheduleType DEF NoFetch, Fetches

LEMMA ConnectsKeeps == ASSUME IInv, Connects, UNCHANGED rvars PROVE IInv'
<1>1. SessionTypeOK
  BY DEF IInv, TypeOK
<1>2. /\ task' = [task EXCEPT !.pc = "open", !.silent = 0] /\ quiet' = 0 /\ task.pc = "connecting"
      /\ fetch' \in Fetches
      /\ UNCHANGED <<recording, asked, stop, tee, sent, session, recent>>
  BY NoFetchType DEF Connects
<1>3. /\ task' \in Tasks
      /\ task'.pc = "open" /\ task'.silent = 0 /\ quiet' \in 0..2 * IdleTimeout + 1
  <2>1. task \in Tasks /\ "open" \in Pcs
    BY <1>1, SessionTypeIs DEF Pcs
  <2> QED BY <1>2, <2>1, TaskMoves, ZeroIsFine
<1>4. SessionTypeOK'
  BY <1>1, <1>2, <1>3 DEF SessionTypeOK, Tasks, Fetches
<1>5. QuietIsTimed'
  BY <1>2, <1>3, TimersType DEF QuietIsTimed
<1> QED BY <1>2, <1>3, <1>4, <1>5, SilentStepKeeps

LEMMA SelectStopKeeps == ASSUME IInv, SelectStop, UNCHANGED rvars PROVE IInv'
<1>1. SessionTypeOK
  BY DEF IInv, TypeOK
<1>2. /\ task' = [task EXCEPT !.pc = "done"] /\ quiet' = 0 /\ task.pc = "open" /\ fetch' = NoFetch
      /\ UNCHANGED <<recording, asked, stop, tee, sent, session, recent>>
  BY DEF SelectStop
<1>3. /\ task' \in Tasks
      /\ task'.pc = "done" /\ quiet' \in 0..2 * IdleTimeout + 1
  <2>1. task \in Tasks /\ "done" \in Pcs
    BY <1>1, SessionTypeIs DEF Pcs
  <2> QED BY <1>2, <2>1, TaskMoves, ZeroIsFine
<1>4. SessionTypeOK'
  BY <1>1, <1>2, <1>3, NoFetchType DEF SessionTypeOK, Tasks, Fetches
<1>5. QuietIsTimed'
  BY <1>3 DEF QuietIsTimed
<1> QED BY <1>2, <1>3, <1>4, <1>5, SilentStepKeeps

LEMMA RestFailsKeeps == ASSUME IInv, RestFails, UNCHANGED rvars PROVE IInv'
<1>1. SessionTypeOK
  BY DEF IInv, TypeOK
<1>2. PICK pause \in NextDelays(fetch.attempt) :
        fetch' = [pc |-> "waiting", attempt |-> AfterDelay(fetch.attempt), pause |-> pause]
  BY DEF RestFails
<1>3. /\ fetch.pc = "fetching"
      /\ UNCHANGED <<recording, task, asked, stop, tee, sent, session, quiet, recent>>
  BY DEF RestFails
<1>4. fetch' \in Fetches /\ fetch'.pc = "waiting"
  BY <1>1, <1>2, SessionTypeIs, AttemptsType DEF Fetches
<1>5. SessionTypeOK'
  BY <1>1, <1>3, <1>4 DEF SessionTypeOK, Fetches
<1>6. QuietIsTimed'
  BY <1>3, <1>4 DEF IInv, QuietIsTimed
<1> QED BY <1>3, <1>5, <1>6, SilentStepKeeps

LEMMA RestRetriesKeeps == ASSUME IInv, RestRetries, UNCHANGED rvars PROVE IInv'
<1>1. SessionTypeOK
  BY DEF IInv, TypeOK
<1>2. /\ fetch.pc = "waiting" /\ fetch' = [fetch EXCEPT !.pc = "fetching"]
      /\ UNCHANGED <<recording, task, asked, stop, tee, sent, session, quiet, recent>>
  BY DEF RestRetries
<1>3. fetch' \in Fetches /\ fetch'.pc = "fetching"
  BY <1>1, <1>2, SessionTypeIs DEF Fetches
<1>4. SessionTypeOK'
  BY <1>1, <1>2, <1>3 DEF SessionTypeOK, Fetches
<1>5. QuietIsTimed'
  BY <1>2, <1>3 DEF IInv, QuietIsTimed
<1> QED BY <1>2, <1>4, <1>5, SilentStepKeeps

LEMMA RequestKeeps == ASSUME IInv, Request, UNCHANGED rvars PROVE IInv'
<1>1. SessionTypeOK /\ SessionTypeOK' /\ QuietIsTimed'
  BY DEF IInv, TypeOK, SessionTypeOK, QuietIsTimed, Request
<1> QED BY <1>1, SilentStepKeeps DEF Request

LEMMA StopKeeps == ASSUME IInv, Stop, UNCHANGED rvars PROVE IInv'
<1>1. SessionTypeOK /\ SessionTypeOK' /\ QuietIsTimed'
  BY DEF IInv, TypeOK, SessionTypeOK, QuietIsTimed, Stop
<1> QED BY <1>1, SilentStepKeeps DEF Stop

\* A frame read is counted as had, and is in the task's hands.
LEMMA ReceiveKeeps ==
  ASSUME IInv, Running, NEW wire \in WireMessages, Receive(wire), UNCHANGED rvars
  PROVE  IInv'
<1> USE DEF IInv, rvars
<1>1. /\ task.pc = "open" /\ ~stop
      /\ task' = [task EXCEPT !.pc = "holding"]
      /\ sent' = IF recording THEN sent + 1 ELSE sent
      /\ quiet' = 0
      /\ UNCHANGED <<recording, fetch, asked, stop, tee, session, recent>>
  BY DEF Receive, Unasked, Reading, Recv, WireMessages
<1>2. SessionTypeOK /\ task \in Tasks
  BY SessionTypeIs DEF TypeOK
<1>3. task' \in Tasks /\ task'.pc = "holding"
  BY <1>1, <1>2, TaskMoves DEF Pcs
<1>4. sent' \in Nat /\ quiet' \in 0..2 * IdleTimeout + 1
  BY <1>1, <1>2, ZeroIsFine DEF SessionTypeOK
<1>5. SessionTypeOK'
  BY <1>1, <1>2, <1>3, <1>4 DEF SessionTypeOK, Tasks
<1>6. TypeOK'
  BY <1>5 DEF TypeOK
<1>7. OnTape' = OnTape
  BY <1>1 DEF OnTape, LinesOf
<1>8. TapeParts'
  <2>1. TapeIsExact'
    BY <1>1, <1>2, <1>3, <1>7 DEF TapeParts, TapeIsExact, Numbered, SessionTypeOK
  <2>2. Parted(OnTape)'
    BY <1>7 DEF TapeParts, Parted, Ended
  <2>3. EndsAreMarked'
    BY <1>1, <1>3, <1>7 DEF TapeParts, EndsAreMarked, Ended
  <2> QED BY <2>1, <2>2, <2>3 DEF TapeParts
<1>9. RecorderFollows'
  BY <1>1, <1>3 DEF RecorderFollows, Running
<1>10. FlushIsNear'
  BY DEF FlushIsNear, FramesIn
<1>11. QuietIsTimed'
  BY <1>1, <1>3 DEF QuietIsTimed
<1> QED BY <1>6, <1>8, <1>9, <1>10, <1>11

\* A message of the task's as a line.
LEMMA MessageLine ==
  ASSUME session \in Nat, NEW kind \in {"websocket", "rest", "audit", "ended"}, NEW number \in Nat,
         NEW end, IF kind = "ended" THEN end \in Ends ELSE end = "none"
  PROVE  /\ Message(kind, end, number) \in Messages
         /\ Line(Message(kind, end, number)) \in Lines
         /\ Line(Message(kind, end, number)).session_ended <=> kind = "ended"
         /\ Line(Message(kind, end, number)).session = session
         /\ Line(Message(kind, end, number)).number = number
<1>1. Message(kind, end, number) \in Messages
  BY DEF Message, Messages
<1> QED BY <1>1, LineType DEF Message, Line

\* The frame in hand is published.
LEMMA EmitKeeps == ASSUME IInv, Running, Emit, UNCHANGED rvars PROVE IInv'
<1> USE DEF IInv, rvars
<1> DEFINE m == Message("websocket", "none", sent)
<1>1. /\ task.pc = "holding"
      /\ tee' = IF recording THEN Append(tee, m) ELSE tee
      /\ task' = [task EXCEPT !.pc = "open", !.silent = 0]
      /\ UNCHANGED <<recording, fetch, asked, stop, sent, session, quiet, recent>>
  BY DEF Emit
<1>2. SessionTypeOK /\ task \in Tasks
  BY SessionTypeIs DEF TypeOK
<1>3. task' \in Tasks /\ task'.pc = "open" /\ task'.silent = 0
  BY <1>1, <1>2, TaskMoves DEF Pcs
<1>4. /\ m \in Messages /\ Line(m) \in Lines /\ ~Line(m).session_ended
      /\ Line(m).session = session /\ Line(m).number = sent
  BY TapeTypes, MessageLine
<1> HIDE DEF m
<1>5. tee' \in Seq(Messages)
  BY <1>1, <1>4, TapeTypes
<1>6. SessionTypeOK'
  BY <1>1, <1>2, <1>3, <1>5 DEF SessionTypeOK, Tasks
<1>7. TypeOK'
  BY <1>6 DEF TypeOK
<1>8. TapeParts'
  <2>1. CASE ~recording
    BY <1>1, <2>1, NoTape DEF RecorderFollows
  <2>2. CASE recording
    <3>1. tee' = Append(tee, m)
      BY <1>1, <2>2
    <3>2. OnTape \in Seq(Lines) /\ Longer(OnTape, OnTape', Line(m))
      BY <1>4, <3>1, TapeTypes, PublishedIsLast
    <3>3. recorder.pc # "crashed" /\ Len(OnTape) + 1 = sent
      <4>1. recorder.pc # "crashed" /\ Len(OnTape) = sent - 1
        BY <1>1, <2>2 DEF Running, TapeParts, TapeIsExact
      <4> QED BY <4>1, TapeTypes
    <3> QED BY <1>1, <1>3, <1>4, <3>2, <3>3, FrameKeepsTape, TapeTypes
  <2> QED BY <1>2, <2>1, <2>2 DEF SessionTypeOK
<1>9. RecorderFollows'
  BY <1>1, <1>3 DEF RecorderFollows, Running
<1>10. FlushIsNear'
  BY DEF FlushIsNear, FramesIn
<1>11. QuietIsTimed'
  BY <1>1, <1>3, TimersType DEF QuietIsTimed
<1> QED BY <1>7, <1>8, <1>9, <1>10, <1>11

\* The answer of a fetch is published without being in the task's hands first.
LEMMA FrameKeeps ==
  ASSUME IInv, Running, UNCHANGED rvars, NEW kind \in {"rest", "audit"}, Publish(kind, "none"),
         task.pc = "open", ~stop, task'.pc = "open", SessionTypeOK /\ tee' \in Seq(Messages) => SessionTypeOK',
         QuietIsTimed', UNCHANGED <<recording, stop, session>>
  PROVE  IInv'
<1> USE DEF IInv, rvars
<1> DEFINE m == Message(kind, "none", sent + 1)
<1>1. /\ tee' = IF recording THEN Append(tee, m) ELSE tee
      /\ sent' = IF recording THEN sent + 1 ELSE sent
  BY DEF Publish
<1>2. SessionTypeOK /\ sent + 1 \in Nat
  BY TapeTypes DEF TypeOK
<1>3. /\ m \in Messages /\ Line(m) \in Lines /\ ~Line(m).session_ended
      /\ Line(m).session = session /\ Line(m).number = sent + 1
  BY <1>2, TapeTypes, MessageLine
<1> HIDE DEF m
<1>4. tee' \in Seq(Messages)
  BY <1>1, <1>3, TapeTypes
<1>5. TypeOK'
  BY <1>2, <1>4 DEF TypeOK
<1>6. TapeParts'
  <2>1. CASE ~recording
    BY <1>1, <2>1, NoTape DEF RecorderFollows
  <2>2. CASE recording
    <3>1. tee' = Append(tee, m)
      BY <1>1, <2>2
    <3>2. OnTape \in Seq(Lines) /\ Longer(OnTape, OnTape', Line(m))
      BY <1>3, <3>1, TapeTypes, PublishedIsLast
    <3>3. recorder.pc # "crashed" /\ Len(OnTape) = sent
      BY <2>2 DEF Running, TapeParts, TapeIsExact
    <3> QED BY <1>1, <1>3, <2>2, <3>2, <3>3, FrameKeepsTape, TapeTypes
  <2> QED BY <2>1, <2>2, TapeTypes
<1>7. RecorderFollows'
  BY <1>1 DEF RecorderFollows, Running
<1>8. FlushIsNear'
  BY DEF FlushIsNear, FramesIn
<1> QED BY <1>5, <1>6, <1>7, <1>8

LEMMA RestLandsKeeps == ASSUME IInv, Running, RestLands, UNCHANGED rvars PROVE IInv'
<1>1. /\ task.pc = "open" /\ ~stop /\ fetch.pc = "fetching" /\ Publish("rest", "none")
      /\ fetch' = [fetch EXCEPT !.pc = "done"]
      /\ task' = [task EXCEPT !.silent = 0]
      /\ UNCHANGED <<recording, asked, stop, session, quiet, recent>>
  BY DEF RestLands, Unasked, Reading
<1>2. SessionTypeOK /\ task \in Tasks /\ fetch \in Fetches
  BY SessionTypeIs DEF IInv, TypeOK
<1>3. task' \in Tasks /\ task'.pc = "open" /\ task'.silent = 0
  BY <1>1, <1>2, TaskMoves, ZeroIsFine DEF Pcs
<1>4. fetch' \in Fetches /\ fetch'.pc = "done"
  BY <1>1, <1>2 DEF Fetches
<1>5. sent' \in Nat
  BY <1>1, <1>2 DEF Publish, SessionTypeOK
<1>6. tee' \in Seq(Messages) => SessionTypeOK'
  BY <1>1, <1>2, <1>3, <1>4, <1>5 DEF SessionTypeOK, Tasks, Fetches
<1>7. QuietIsTimed'
  <2>1. quiet <= task.silent /\ task.silent \in 0..IdleTimeout /\ quiet \in Nat
    BY <1>1, <1>2, TimersType DEF IInv, QuietIsTimed, SessionTypeOK
  <2> QED BY <1>1, <1>3, <1>4, <2>1, TimersType DEF QuietIsTimed
<1> QED BY <1>1, <1>3, <1>6, <1>7, FrameKeeps

LEMMA AuditLandsKeeps == ASSUME IInv, Running, AuditLands, UNCHANGED rvars PROVE IInv'
<1>1. /\ task.pc = "open" /\ ~stop /\ Publish("audit", "none")
      /\ UNCHANGED <<recording, task, fetch, asked, stop, session, quiet, recent>>
  BY DEF AuditLands, Unasked, Reading
<1>2. SessionTypeOK
  BY DEF IInv, TypeOK
<1>3. sent' \in Nat
  BY <1>1, <1>2 DEF Publish, SessionTypeOK
<1>4. tee' \in Seq(Messages) => SessionTypeOK'
  BY <1>1, <1>2, <1>3 DEF SessionTypeOK
<1>5. QuietIsTimed'
  BY <1>1 DEF IInv, QuietIsTimed
<1> QED BY <1>1, <1>4, <1>5, FrameKeeps

\* The end of a session is published before the pause.
LEMMA RetryKeeps ==
  ASSUME IInv, Running, UNCHANGED rvars, NEW end \in Ends, Retry(end),
         task.pc \in {"connecting", "open"},
         asked' \in BOOLEAN, UNCHANGED <<recording, stop, session, recent>>
  PROVE  IInv'
<1> USE DEF IInv, rvars
<1> DEFINE m == Message("ended", end, sent + 1)
           attempt == NoteSession(task.attempt, task.lasted)
<1>1. /\ tee' = IF recording THEN Append(tee, m) ELSE tee
      /\ sent' = IF recording THEN sent + 1 ELSE sent
      /\ fetch' = NoFetch /\ quiet' = 0
  BY DEF Retry, Publish
<1>2. PICK pause \in NextDelays(attempt) :
        task' = [pc |-> "sleeping", attempt |-> AfterDelay(attempt), lasted |-> 0,
                 silent |-> 0, pause |-> pause]
  BY DEF Retry
<1>3. SessionTypeOK /\ task \in Tasks /\ sent + 1 \in Nat
  BY TapeTypes, SessionTypeIs DEF TypeOK
<1>4. attempt \in Attempts
  BY <1>3, AttemptsType DEF Tasks, NoteSession
<1> HIDE DEF attempt
<1>5. pause \in 0..Cap /\ AfterDelay(attempt) \in Attempts
  BY <1>4, AttemptsType
<1>6. task' \in Tasks /\ task'.pc = "sleeping"
  BY <1>2, <1>5, ZeroIsFine DEF Tasks, Pcs
<1>7. /\ m \in Messages /\ Line(m) \in Lines /\ Line(m).session_ended
      /\ Line(m).session = session /\ Line(m).number = sent + 1
  BY <1>3, TapeTypes, MessageLine
<1> HIDE DEF m
<1>8. tee' \in Seq(Messages) /\ sent' \in Nat
  BY <1>1, <1>3, <1>7, TapeTypes
<1>9. SessionTypeOK'
  BY <1>1, <1>3, <1>6, <1>8, NoFetchType, ZeroIsFine DEF SessionTypeOK, Tasks, Fetches
<1>10. TypeOK'
  BY <1>9 DEF TypeOK
<1>11. TapeParts'
  <2>1. CASE ~recording
    BY <1>1, <2>1, NoTape DEF RecorderFollows
  <2>2. CASE recording
    <3>1. tee' = Append(tee, m)
      BY <1>1, <2>2
    <3>2. OnTape \in Seq(Lines) /\ Longer(OnTape, OnTape', Line(m))
      BY <1>7, <3>1, TapeTypes, PublishedIsLast
    <3>3. recorder.pc # "crashed" /\ Len(OnTape) = sent
      BY <2>2 DEF Running, TapeParts, TapeIsExact
    <3> QED BY <1>1, <1>6, <1>7, <2>2, <3>2, <3>3, EndKeepsTape, TapeTypes
  <2> QED BY <2>1, <2>2, TapeTypes
<1>12. RecorderFollows'
  <2>1. ~IsFrame(m)
    BY DEF m, Message, IsFrame
  <2>2. ASSUME recorder.pc = "flushing" PROVE \A i \in DOMAIN tee' : ~IsFrame(tee'[i])
    <3>1. tee \in Seq(Messages) /\ \A i \in DOMAIN tee : ~IsFrame(tee[i])
      BY <2>2, TapeTypes DEF RecorderFollows
    <3>2. tee' = tee \/ tee' = Append(tee, m)
      BY <1>1
    <3> QED BY <1>7, <2>1, <3>1, <3>2
  <2>3. ~recording => tee' = tee
    BY <1>1
  <2> QED BY <1>1, <1>6, <2>2, <2>3 DEF RecorderFollows, Running
<1>13. FlushIsNear'
  BY DEF FlushIsNear, FramesIn
<1>14. QuietIsTimed'
  BY <1>6 DEF QuietIsTimed
<1> QED BY <1>10, <1>11, <1>12, <1>13, <1>14

LEMMA SessionEndsKeep ==
  ASSUME IInv, Running, UNCHANGED rvars,
         \/ ConnectFails \/ SelectResync \/ Errs \/ IdleOut
         \/ \E wire \in WireMessages : Closes(wire)
  PROVE  IInv'
<1>1. asked \in BOOLEAN
  BY DEF IInv, TypeOK, SessionTypeOK
<1>2. \E end \in Ends : Retry(end)
  BY DEF ConnectFails, SelectResync, Errs, IdleOut, Closes, Ends
<1>3. task.pc \in {"connecting", "open"} /\ asked' \in BOOLEAN
      /\ UNCHANGED <<recording, stop, session, recent>>
  BY <1>1 DEF ConnectFails, SelectResync, Errs, IdleOut, Closes, Unasked, Reading
<1> QED BY <1>2, <1>3, RetryKeeps

LEMMA TaskRunsKeeps == ASSUME IInv, TaskRuns PROVE IInv'
<1>1. Running /\ TaskStep /\ UNCHANGED rvars
  BY DEF TaskRuns
<1> QED BY <1>1, BeginKeeps, StopAtTopKeeps, WakeKeeps, StopWhileSleepingKeeps, SelectStopKeeps,
           SessionEndsKeep, RestRetriesKeeps, EmitKeeps DEF TaskStep

LEMMA NetworkActsKeeps == ASSUME IInv, NetworkActs PROVE IInv'
<1>1. Running /\ NetworkStep /\ UNCHANGED rvars
  BY DEF NetworkActs
<1>2. ASSUME NEW wire \in WireMessages, Receive(wire) PROVE IInv'
  BY <1>1, <1>2, ReceiveKeeps
<1>3. CASE \/ ConnectFails \/ Errs
           \/ \E wire \in WireMessages : Closes(wire)
  BY <1>1, <1>3, SessionEndsKeep
<1>4. CASE Connects \/ RestLands \/ RestFails \/ AuditLands
  BY <1>1, <1>4, ConnectsKeeps, RestLandsKeeps, RestFailsKeeps, AuditLandsKeeps
<1> QED BY <1>1, <1>2, <1>3, <1>4 DEF NetworkStep

-------------------------------------------------------------------------------
(* The steps of the recorder.                                                *)

\* The frames that are not flushed, when a line is added to the buffer.
LEMMA FramesOfLonger ==
  ASSUME NEW s \in Seq(Lines), NEW line \in Lines, IsFiniteSet(FramesIn(s))
  PROVE  /\ IsFiniteSet(FramesIn(Append(s, line)))
         /\ Cardinality(FramesIn(Append(s, line)))
              = Cardinality(FramesIn(s)) + IF line.session_ended THEN 0 ELSE 1
<1> DEFINE u == Append(s, line)
<1>1. /\ Len(s) \in Nat /\ DOMAIN s = 1..Len(s) /\ DOMAIN u = 1..(Len(s) + 1)
      /\ \A i \in 1..Len(s) : u[i] = s[i]
      /\ u[Len(s) + 1] = line
  OBVIOUS
<1> HIDE DEF u
<1>2. CASE line.session_ended
  <2>1. FramesIn(u) = FramesIn(s)
    BY <1>1, <1>2 DEF FramesIn
  <2>2. Cardinality(FramesIn(s)) \in Nat
    BY FS_CardinalityType
  <2> QED BY <1>2, <2>1, <2>2 DEF u
<1>3. CASE ~line.session_ended
  <2>1. FramesIn(u) = FramesIn(s) \union {Len(s) + 1}
    BY <1>1, <1>3 DEF FramesIn
  <2>2. Len(s) + 1 \notin FramesIn(s)
    BY <1>1 DEF FramesIn
  <2> QED BY <1>3, <2>1, <2>2, FS_AddElement DEF u
<1> QED BY <1>2, <1>3

LEMMA FramesOfNone == IsFiniteSet(FramesIn(<<>>)) /\ Cardinality(FramesIn(<<>>)) = 0
<1>1. FramesIn(<<>>) = {}
  BY DEF FramesIn
<1> QED BY <1>1, FS_EmptySet

\* The count of frames since the last flush.
LEMMA CountWraps ==
  ASSUME NEW n \in 0..FlushEvery - 1, NEW d \in {0, 1}
  PROVE  /\ (n + d) % FlushEvery \in 0..FlushEvery - 1
         /\ (n + d) % FlushEvery = 0 \/ (n + d) % FlushEvery = n + d
<1>1. FlushEvery \in Nat /\ FlushEvery >= 1
  BY TimersType
<1>2. CASE n + d = FlushEvery
  BY <1>1, <1>2
<1>3. CASE n + d < FlushEvery
  BY <1>1, <1>3
<1> QED BY <1>1, <1>2, <1>3

LEMMA RecordKeeps == ASSUME IInv, Record PROVE IInv'
<1> USE DEF IInv
<1> DEFINE m == Head(tee)
           d == IF IsFrame(m) THEN 1 ELSE 0
           frames == (recorder.frames + d) % FlushEvery
<1>1. /\ recorder.pc = "reading" /\ tee # <<>> /\ tee' = Tail(tee)
      /\ recorder' = [recorder EXCEPT !.frames = frames]
      /\ Write(m, frames)
      /\ UNCHANGED <<recording, task, fetch, asked, stop, sent, session, quiet, recent>>
  BY DEF Record
<1>2. m \in Messages /\ Line(m) \in Lines /\ (Line(m).session_ended <=> ~IsFrame(m))
  <2>1. m \in Messages
    BY <1>1, TapeTypes
  <2> HIDE DEF m
  <2>2. Line(m) \in Lines
    BY <2>1, LineType
  <2> QED BY <2>1, <2>2 DEF IsFrame, Line
<1> HIDE DEF m
<1>3. recorder.frames \in 0..FlushEvery - 1 /\ recorder \in [pc : RecorderPcs, frames : 0..FlushEvery - 1, waited : 0..Grace]
  BY DEF TypeOK
<1>4. d \in {0, 1} /\ (d = 0 <=> Line(m).session_ended)
  BY <1>2
<1> HIDE DEF d
<1>5. frames \in 0..FlushEvery - 1 /\ (frames = 0 \/ frames = recorder.frames + d)
  BY <1>3, <1>4, CountWraps
<1>6. \/ frames = 0 /\ file' = file \o buffer \o <<Line(m)>> /\ buffer' = <<>>
      \/ frames # 0 /\ file' = file /\ buffer' = Append(buffer, Line(m))
  BY <1>1 DEF Write
<1> HIDE DEF frames
<1>7. /\ tee' \in Seq(Messages) /\ file' \in Seq(Lines) /\ buffer' \in Seq(Lines)
      /\ OnTape' = OnTape
  BY <1>1, <1>6, TapeTypes, TakenIsKept DEF m
<1>8. recorder' \in [pc : RecorderPcs, frames : 0..FlushEvery - 1, waited : 0..Grace]
      /\ recorder'.pc = "reading" /\ recorder'.frames = frames /\ recorder'.waited = recorder.waited
  BY <1>1, <1>3, <1>5
<1>9. TypeOK'
  BY <1>1, <1>7, <1>8 DEF TypeOK, SessionTypeOK
<1>10. TapeParts'
  BY <1>1, <1>7, <1>8, TapeKept
<1>11. RecorderFollows'
  BY <1>1, <1>8 DEF RecorderFollows
<1>12. FlushIsNear'
  <2>1. CASE frames = 0
    <3>1. buffer' = <<>>
      BY <1>6, <2>1
    <3> QED BY <1>8, <2>1, <3>1, FramesOfNone DEF FlushIsNear
  <2>2. CASE frames # 0
    <3>1. buffer' = Append(buffer, Line(m))
      BY <1>6, <2>2
    <3>2. IsFiniteSet(FramesIn(buffer)) /\ Cardinality(FramesIn(buffer)) = recorder.frames
      BY <1>1 DEF FlushIsNear
    <3>3. /\ IsFiniteSet(FramesIn(buffer'))
          /\ Cardinality(FramesIn(buffer')) = recorder.frames + IF Line(m).session_ended THEN 0 ELSE 1
      BY <1>2, <3>1, <3>2, FramesOfLonger, TapeTypes
    <3>4. frames = recorder.frames + IF Line(m).session_ended THEN 0 ELSE 1
      BY <1>4, <1>5, <2>2
    <3> QED BY <1>8, <3>3, <3>4 DEF FlushIsNear, FramesIn
  <2> QED BY <2>1, <2>2
<1>13. QuietIsTimed'
  BY <1>1 DEF QuietIsTimed
<1> QED BY <1>9, <1>10, <1>11, <1>12, <1>13

LEMMA EndRecordingKeeps == ASSUME IInv, EndRecording PROVE IInv'
<1> USE DEF IInv
<1>1. /\ recorder.pc = "reading" /\ recorder' = [recorder EXCEPT !.pc = "waiting"]
      /\ stop' = TRUE
      /\ UNCHANGED <<recording, task, fetch, asked, tee, sent, session, quiet, recent, buffer, file>>
  BY DEF EndRecording, Stop
<1>2. recorder' \in [pc : RecorderPcs, frames : 0..FlushEvery - 1, waited : 0..Grace]
      /\ recorder'.pc = "waiting" /\ recorder'.waited = recorder.waited
  BY <1>1 DEF TypeOK, RecorderPcs
<1>3. TypeOK'
  BY <1>1, <1>2 DEF TypeOK, SessionTypeOK
<1>4. OnTape' = OnTape
  BY <1>1 DEF OnTape, LinesOf
<1>5. TapeParts'
  BY <1>1, <1>2, <1>4, TapeKept
<1>6. RecorderFollows' /\ FlushIsNear' /\ QuietIsTimed'
  BY <1>1, <1>2 DEF RecorderFollows, FlushIsNear, QuietIsTimed
<1> QED BY <1>3, <1>5, <1>6

LEMMA JoinKeeps == ASSUME IInv, Join PROVE IInv'
<1> USE DEF IInv
<1>1. /\ recorder.pc = "waiting" /\ (task.pc = "done" \/ recorder.waited = Grace)
      /\ recorder' = [recorder EXCEPT !.pc = "draining"]
      /\ UNCHANGED <<recording, task, fetch, asked, stop, tee, sent, session, quiet, recent, buffer, file>>
  BY DEF Join, svars
<1>2. recorder' \in [pc : RecorderPcs, frames : 0..FlushEvery - 1, waited : 0..Grace]
      /\ recorder'.pc = "draining" /\ recorder'.waited = recorder.waited
  BY <1>1 DEF TypeOK, RecorderPcs
<1>3. TypeOK'
  BY <1>1, <1>2 DEF TypeOK, SessionTypeOK
<1>4. OnTape' = OnTape
  BY <1>1 DEF OnTape, LinesOf
<1>5. TapeParts'
  BY <1>1, <1>2, <1>4, TapeKept
<1>6. task.pc # "holding"
  BY <1>1, TimersType DEF RecorderFollows
<1>7. RecorderFollows' /\ FlushIsNear' /\ QuietIsTimed'
  BY <1>1, <1>2, <1>6 DEF RecorderFollows, FlushIsNear, QuietIsTimed
<1> QED BY <1>3, <1>5, <1>7

LEMMA DrainKeeps == ASSUME IInv, Drain PROVE IInv'
<1> USE DEF IInv
<1>1. /\ recorder.pc = "draining" /\ tee # <<>> /\ tee' = Tail(tee)
      /\ buffer' = Append(buffer, Line(Head(tee)))
      /\ UNCHANGED <<recorder, file, recording, task, fetch, asked, stop, sent, session, quiet, recent>>
  BY DEF Drain
<1>2. /\ tee' \in Seq(Messages) /\ file' \in Seq(Lines) /\ buffer' \in Seq(Lines)
      /\ OnTape' = OnTape
  BY <1>1, TapeTypes, TakenIsKept
<1>3. TypeOK'
  BY <1>1, <1>2 DEF TypeOK, SessionTypeOK
<1>4. TapeParts'
  BY <1>1, <1>2, TapeKept
<1>5. RecorderFollows' /\ FlushIsNear' /\ QuietIsTimed'
  BY <1>1 DEF RecorderFollows, FlushIsNear, QuietIsTimed
<1> QED BY <1>3, <1>4, <1>5

LEMMA LastRecvKeeps == ASSUME IInv, LastRecv PROVE IInv'
<1> USE DEF IInv
<1>1. /\ recorder.pc = "draining" /\ tee = <<>>
      /\ recorder' = [recorder EXCEPT !.pc = "flushing"]
      /\ UNCHANGED <<recording, task, fetch, asked, stop, tee, sent, session, quiet, recent, buffer, file>>
  BY DEF LastRecv, svars
<1>2. recorder' \in [pc : RecorderPcs, frames : 0..FlushEvery - 1, waited : 0..Grace]
      /\ recorder'.pc = "flushing" /\ recorder'.waited = recorder.waited
  BY <1>1 DEF TypeOK, RecorderPcs
<1>3. TypeOK'
  BY <1>1, <1>2 DEF TypeOK, SessionTypeOK
<1>4. OnTape' = OnTape
  BY <1>1 DEF OnTape, LinesOf
<1>5. TapeParts'
  BY <1>1, <1>2, <1>4, TapeKept
<1>6. \A i \in DOMAIN tee' : ~IsFrame(tee'[i])
  BY <1>1
<1>7. RecorderFollows' /\ FlushIsNear' /\ QuietIsTimed'
  BY <1>1, <1>2, <1>6 DEF RecorderFollows, FlushIsNear, QuietIsTimed
<1> QED BY <1>3, <1>5, <1>7

LEMMA FinishKeeps == ASSUME IInv, Finish PROVE IInv'
<1> USE DEF IInv
<1>1. /\ recorder.pc = "flushing" /\ file' = file \o buffer /\ buffer' = <<>>
      /\ recorder' = [recorder EXCEPT !.pc = "exited"]
      /\ UNCHANGED <<recording, task, fetch, asked, stop, tee, sent, session, quiet, recent>>
  BY DEF Finish, svars
<1>2. recorder' \in [pc : RecorderPcs, frames : 0..FlushEvery - 1, waited : 0..Grace]
      /\ recorder'.pc = "exited" /\ recorder'.waited = recorder.waited
  BY <1>1 DEF TypeOK, RecorderPcs
<1>3. file' \in Seq(Lines) /\ buffer' \in Seq(Lines) /\ file' \o buffer' = file \o buffer
  <2>1. file \in Seq(Lines) /\ buffer \in Seq(Lines)
    BY TapeTypes
  <2>2. (file \o buffer) \o <<>> = file \o buffer /\ file \o buffer \in Seq(Lines) /\ <<>> \in Seq(Lines)
    BY <2>1
  <2> QED BY <1>1, <2>2
<1>4. TypeOK'
  BY <1>1, <1>2, <1>3 DEF TypeOK, SessionTypeOK
<1>5. OnTape' = OnTape
  BY <1>1, <1>3 DEF OnTape, LinesOf
<1>6. TapeParts'
  BY <1>1, <1>2, <1>5, TapeKept
<1>7. RecorderFollows' /\ FlushIsNear' /\ QuietIsTimed'
  BY <1>1, <1>2 DEF RecorderFollows, FlushIsNear, QuietIsTimed
<1> QED BY <1>4, <1>6, <1>7

\* What a process that dies leaves is the beginning of what it had.
LEMMA CrashKeeps == ASSUME IInv, Crash PROVE IInv'
<1> USE DEF IInv
<1>1. PICK n \in 0..Len(buffer) : file' = file \o SubSeq(buffer, 1, n)
  BY DEF Crash
<1>2. /\ recording /\ buffer' = <<>> /\ tee' = <<>>
      /\ recorder' = [pc |-> "crashed", frames |-> 0, waited |-> 0]
      /\ task' = [FreshTask EXCEPT !.pc = "done"]
      /\ fetch' = NoFetch /\ asked' = FALSE /\ stop' = FALSE
      /\ sent' = 0 /\ session' = 0 /\ quiet' = 0 /\ recent' = {}
      /\ UNCHANGED recording
  BY DEF Crash
<1>3. file \in Seq(Lines) /\ buffer \in Seq(Lines) /\ tee \in Seq(Messages) /\ OnTape \in Seq(Lines)
  BY TapeTypes
<1>4. task' \in Tasks /\ task'.pc = "done"
  BY <1>2, ZeroIsFine, AttemptsType DEF FreshTask, Tasks, Pcs
<1>5. SessionTypeOK'
  <2>1. recording \in BOOLEAN /\ {recording, asked, stop}' \subseteq BOOLEAN
    BY <1>2 DEF TypeOK, SessionTypeOK
  <2>2. tee' \in Seq(Messages)
    BY <1>2
  <2>3. recent' \in SUBSET [attempt : Nat, age : 0..Window - 1]
    BY <1>2
  <2>4. fetch' \in Fetches /\ {sent, session}' \subseteq Nat /\ quiet' \in 0..2 * IdleTimeout + 1
    BY <1>2, NoFetchType, ZeroIsFine
  <2> QED BY <2>1, <2>2, <2>3, <2>4, <1>4 DEF SessionTypeOK, Tasks, Fetches
<1> DEFINE b == SubSeq(buffer, 1, n)
<1>6. b \in Seq(Lines) /\ Len(b) = n /\ \A i \in 1..n : b[i] = buffer[i]
  BY <1>3
<1> HIDE DEF b
<1>7. /\ file' \in Seq(Lines) /\ Len(file') = Len(file) + n /\ Len(file) \in Nat /\ Len(buffer) \in Nat
      /\ \A i \in 1..Len(file) : file'[i] = file[i]
      /\ \A i \in 1..n : file'[Len(file) + i] = buffer[i]
  <2>1. file' = file \o b
    BY <1>1 DEF b
  <2>2. /\ file \o b \in Seq(Lines) /\ Len(file \o b) = Len(file) + Len(b)
        /\ \A i \in 1..Len(file) : (file \o b)[i] = file[i]
        /\ \A i \in 1..Len(b) : (file \o b)[Len(file) + i] = b[i]
    <3>1. file \in Seq(Lines) /\ b \in Seq(Lines)
      BY <1>3, <1>6
    <3> QED BY ONLY <3>1, ConcatIs
  <2> QED BY <1>3, <1>6, <2>1, <2>2
<1>8. OnTape' = file'
  <2>1. LinesOf(tee') = <<>>
    BY <1>2 DEF LinesOf
  <2>2. OnTape' = (file' \o <<>>) \o <<>>
    BY <1>2, <2>1 DEF OnTape
  <2> QED BY <1>7, <2>2
<1>9. /\ Len(OnTape') <= Len(OnTape) /\ Len(OnTape') \in Nat /\ OnTape' \in Seq(Lines)
      /\ \A i \in 1..Len(OnTape') : OnTape'[i] = OnTape[i]
  <2>1. /\ Len(OnTape) = Len(file) + Len(buffer) + Len(tee)
        /\ \A i \in 1..Len(file) : OnTape[i] = file[i]
        /\ \A i \in 1..Len(buffer) : OnTape[Len(file) + i] = buffer[i]
    BY <1>3, OnTapeIs
  <2>2. Len(tee) \in Nat /\ n \in 0..Len(buffer)
    BY <1>3
  <2>3. ASSUME NEW i \in 1..(Len(file) + n) PROVE file'[i] = OnTape[i]
    <3>1. CASE i \in 1..Len(file)
      BY <1>7, <2>1, <3>1
    <3>2. CASE i \notin 1..Len(file)
      <4> DEFINE j == i - Len(file)
      <4>1. j \in 1..n /\ j \in 1..Len(buffer) /\ i = Len(file) + j
        BY <1>7, <2>2, <3>2
      <4> HIDE DEF j
      <4>2. file'[i] = buffer[j]
        BY ONLY <1>7, <4>1
      <4>3. OnTape[i] = buffer[j]
        BY ONLY <2>1, <4>1
      <4> QED BY <4>2, <4>3
    <3> QED BY <3>1, <3>2
  <2> QED BY <1>7, <1>8, <2>1, <2>2, <2>3
<1>10. TapeParts'
  <2> DEFINE t == OnTape
             u == OnTape'
  <2>1. Parted(t) /\ Numbered(t)
    BY DEF TapeParts, TapeIsExact
  <2>2. (Parted(OnTape)' <=> Parted(u)) /\ (Numbered(OnTape)' <=> Numbered(u))
    BY DEF Parted, Numbered, Ended
  <2>3. recorder'.pc = "crashed"
    BY <1>2
  <2>4. Numbered(u) => TapeIsExact'
    BY <2>2, <2>3 DEF TapeIsExact
  <2>5. EndsAreMarked'
    BY <2>3 DEF EndsAreMarked
  <2>6. /\ t \in Seq(Lines) /\ u \in Seq(Lines) /\ Len(u) <= Len(t)
        /\ \A i \in 1..Len(u) : u[i] = t[i]
    BY <1>3, <1>9
  <2> HIDE DEF t, u
  <2>7. DOMAIN u = 1..Len(u) /\ DOMAIN t = 1..Len(t) /\ DOMAIN u \subseteq DOMAIN t
        /\ Len(u) \in Nat
    BY <2>6
  <2>8. Numbered(u)
    BY <2>1, <2>6, <2>7 DEF Numbered
  <2>9. Parted(u)
    <3> SUFFICES ASSUME NEW i \in DOMAIN u, NEW j \in DOMAIN u, i < j,
                        ~u[i].session_ended, ~u[j].session_ended, u[i].session # u[j].session
                 PROVE  \E k \in i..j : Ended(u, k, u[i].session)
      BY DEF Parted
    <3>1. u[i] = t[i] /\ u[j] = t[j] /\ i \in DOMAIN t /\ j \in DOMAIN t
      BY <2>6, <2>7
    <3>2. PICK k \in i..j : Ended(t, k, t[i].session)
      BY <2>1, <3>1 DEF Parted
    <3>3. u[k] = t[k]
      BY <2>6, <2>7
    <3> QED BY <3>1, <3>2, <3>3 DEF Ended
  <2> QED BY <2>2, <2>4, <2>5, <2>8, <2>9 DEF TapeParts
<1>11. recorder' \in [pc : RecorderPcs, frames : 0..FlushEvery - 1, waited : 0..Grace]
  BY <1>2, ZeroIsFine DEF RecorderPcs
<1>12. TypeOK'
  <2>1. buffer' \in Seq(Lines)
    BY <1>2
  <2> QED BY <1>5, <1>7, <1>11, <2>1 DEF TypeOK
<1>13. RecorderFollows' /\ FlushIsNear' /\ QuietIsTimed'
  BY <1>2, <1>4 DEF RecorderFollows, FlushIsNear, QuietIsTimed
<1> QED BY <1>10, <1>12, <1>13

LEMMA CountUpType == ASSUME NEW b \in Nat, NEW n \in 0..b PROVE CountUp(n, b) \in 0..b
BY DEF CountUp

LEMMA CountDownType == ASSUME NEW b \in Nat, NEW n \in 0..b PROVE CountDown(n) \in 0..b
BY DEF CountDown

LEMMA TickKeeps == ASSUME IInv, Tick PROVE IInv'
<1> USE DEF IInv
<1>1. SessionTypeOK /\ task \in Tasks /\ fetch \in Fetches
  BY SessionTypeIs DEF TypeOK
<1>2. task' = [task EXCEPT !.lasted = IF task.pc \in {"connecting", "open"}
                                      THEN CountUp(@, MinStable) ELSE @,
                           !.silent = IF task.pc = "open" THEN CountUp(@, IdleTimeout) ELSE @,
                           !.pause = CountDown(@)]
  BY DEF Tick, Passes
<1>3. /\ fetch' = [fetch EXCEPT !.pause = CountDown(@)]
      /\ quiet' = IF task.pc = "open" THEN CountUp(quiet, 2 * IdleTimeout + 1) ELSE quiet
      /\ recent' = {[r EXCEPT !.age = @ + 1] : r \in {r \in recent : r.age + 1 < Window}}
      /\ UNCHANGED <<recording, asked, stop, tee, sent, session, buffer, file>>
      /\ recorder' = [recorder EXCEPT !.waited = IF recorder.pc = "waiting"
                                                 THEN CountUp(@, Grace) ELSE @]
      /\ task.pc # "holding" /\ (task.pc = "open" => task.silent # IdleTimeout)
  BY DEF Tick, Passes, Due
<1>4. /\ task'.pc = task.pc /\ task' \in Tasks
      /\ task'.silent = IF task.pc = "open" THEN CountUp(task.silent, IdleTimeout) ELSE task.silent
  BY <1>1, <1>2, CountUpType, CountDownType, ScheduleType, TimersType DEF Tasks
<1>5. fetch' \in Fetches /\ fetch'.pc = fetch.pc
  BY <1>1, <1>3, CountDownType, ScheduleType DEF Fetches
<1>6. quiet' \in 0..2 * IdleTimeout + 1
  BY <1>1, <1>3, TimersType DEF SessionTypeOK, CountUp
<1>7. recent' \in SUBSET [attempt : Nat, age : 0..Window - 1]
  <2>1. SUFFICES ASSUME NEW r \in recent, r.age + 1 < Window
                 PROVE  [r EXCEPT !.age = @ + 1] \in [attempt : Nat, age : 0..Window - 1]
    BY <1>3
  <2>2. r \in [attempt : Nat, age : 0..Window - 1]
    BY <1>1 DEF SessionTypeOK
  <2> QED BY <2>1, <2>2, TimersType
<1>8. SessionTypeOK'
  BY <1>1, <1>3, <1>4, <1>5, <1>6, <1>7 DEF SessionTypeOK, Tasks, Fetches
<1>9. /\ recorder' \in [pc : RecorderPcs, frames : 0..FlushEvery - 1, waited : 0..Grace]
      /\ recorder'.pc = recorder.pc /\ recorder'.frames = recorder.frames
      /\ recorder'.waited = IF recorder.pc = "waiting" THEN CountUp(recorder.waited, Grace)
                            ELSE recorder.waited
  BY <1>3, CountUpType, TimersType DEF TypeOK
<1>10. TypeOK'
  BY <1>3, <1>8, <1>9 DEF TypeOK
<1>11. OnTape' = OnTape
  BY <1>3 DEF OnTape, LinesOf
<1>12. TapeParts'
  BY <1>3, <1>4, <1>9, <1>11, TapeKept
<1>13. RecorderFollows'
  BY <1>3, <1>4, <1>9 DEF RecorderFollows
<1>14. FlushIsNear'
  BY <1>3, <1>9 DEF FlushIsNear, FramesIn
<1>15. QuietIsTimed'
  <2>1. task'.pc # "holding"
    BY <1>3, <1>4
  <2>2. ASSUME task'.pc = "open"
        PROVE  quiet' <= task'.silent + IF fetch'.pc = "done" THEN IdleTimeout ELSE 0
    <3>1. quiet <= task.silent + IF fetch.pc = "done" THEN IdleTimeout ELSE 0
      BY <1>4, <2>2 DEF QuietIsTimed
    <3>2. task'.silent = task.silent + 1
      BY <1>1, <1>3, <1>4, <2>2, TimersType DEF CountUp, Tasks
    <3>3. quiet' <= quiet + 1 /\ quiet \in Nat /\ quiet' \in Nat /\ task.silent \in Nat
      BY <1>1, <1>3, TimersType DEF SessionTypeOK, CountUp
    <3> QED BY <1>5, <3>1, <3>2, <3>3, TimersType
  <2> QED BY <2>1, <2>2 DEF QuietIsTimed
<1> QED BY <1>10, <1>12, <1>13, <1>14, <1>15

-------------------------------------------------------------------------------
(* The theorems.                                                             *)

LEMMA InitInvariant == Init => IInv
<1> SUFFICES ASSUME Init PROVE IInv
  OBVIOUS
<1>1. /\ recording \in BOOLEAN /\ task = FreshTask /\ fetch = NoFetch
      /\ asked = FALSE /\ stop = FALSE /\ tee = <<>> /\ sent = 0 /\ session = 0
      /\ quiet = 0 /\ recent = {} /\ buffer = <<>> /\ file = <<>>
      /\ recorder = [pc |-> IF recording THEN "reading" ELSE "none", frames |-> 0, waited |-> 0]
  BY DEF Init, SessionInit
<1>2. task \in Tasks /\ task.pc = "top"
  BY <1>1, ZeroIsFine, AttemptsType DEF FreshTask, Tasks, Pcs
<1>3. SessionTypeOK
  <2>1. {recording, asked, stop} \subseteq BOOLEAN
    BY <1>1
  <2>2. tee \in Seq(Messages)
    BY <1>1
  <2>3. recent \in SUBSET [attempt : Nat, age : 0..Window - 1]
    BY <1>1
  <2>4. fetch \in Fetches /\ {sent, session} \subseteq Nat /\ quiet \in 0..2 * IdleTimeout + 1
    BY <1>1, NoFetchType, ZeroIsFine
  <2> QED BY <2>1, <2>2, <2>3, <2>4, <1>2 DEF SessionTypeOK, Tasks, Fetches
<1>4. /\ recorder \in [pc : RecorderPcs, frames : 0..FlushEvery - 1, waited : 0..Grace]
      /\ recorder.pc \in {"reading", "none"} /\ (recorder.pc = "none" <=> ~recording)
      /\ recorder.frames = 0 /\ recorder.waited = 0
  BY <1>1, ZeroIsFine DEF RecorderPcs
<1>5. TypeOK
  BY <1>1, <1>3, <1>4 DEF TypeOK
<1>6. OnTape = <<>> /\ DOMAIN OnTape = {} /\ Len(OnTape) = 0
  <2>1. LinesOf(tee) = <<>>
    BY <1>1 DEF LinesOf
  <2>2. OnTape = <<>>
    BY <1>1, <2>1 DEF OnTape
  <2> QED BY <2>2
<1>7. TapeParts
  BY <1>1, <1>2, <1>6 DEF TapeParts, TapeIsExact, Parted, EndsAreMarked, Numbered
<1>8. RecorderFollows /\ QuietIsTimed
  BY <1>1, <1>2, <1>4 DEF RecorderFollows, QuietIsTimed
<1>9. FlushIsNear
  BY <1>1, <1>4, FramesOfNone DEF FlushIsNear
<1> QED BY <1>5, <1>7, <1>8, <1>9 DEF IInv

LEMMA StepInvariant == IInv /\ [Next]_vars => IInv'
<1> SUFFICES ASSUME IInv, [Next]_vars PROVE IInv'
  OBVIOUS
<1>1. CASE UNCHANGED vars
  <2>1. UNCHANGED rvars /\ UNCHANGED svars
    BY <1>1 DEF vars
  <2>2. SessionTypeOK'
    BY <2>1 DEF IInv, TypeOK, SessionTypeOK, svars
  <2>3. QuietIsTimed'
    BY <2>1 DEF IInv, QuietIsTimed, svars
  <2> QED BY <2>1, <2>2, <2>3, SilentStepKeeps DEF svars
<1>2. CASE Asks
  BY <1>2, RequestKeeps DEF Asks
<1>3. CASE ServerStops
  BY <1>3, StopKeeps DEF ServerStops
<1>4. CASE RecorderSteps
  BY <1>4, RecordKeeps, JoinKeeps, DrainKeeps, LastRecvKeeps, FinishKeeps DEF RecorderSteps
<1> QED BY <1>1, <1>2, <1>3, <1>4, TaskRunsKeeps, NetworkActsKeeps, EndRecordingKeeps,
           CrashKeeps, TickKeeps DEF Next

\* The inductive invariant holds of every reachable state.
THEOREM Invariance == Spec => []IInv
BY InitInvariant, StepInvariant, PTL DEF Spec

\* What is in the file is the beginning of the tape.
LEMMA TapesAreGood == IInv => Inv
<1> SUFFICES ASSUME IInv PROVE Inv
  OBVIOUS
<1> USE DEF IInv
<1>1. /\ file \in Seq(Lines) /\ buffer \in Seq(Lines) /\ tee \in Seq(Messages) /\ OnTape \in Seq(Lines)
  BY TapeTypes
<1>2. /\ Len(OnTape) = Len(file) + Len(buffer) + Len(tee)
      /\ \A i \in 1..Len(file) : OnTape[i] = file[i]
  BY <1>1, OnTapeIs
<1>3. /\ DOMAIN file = 1..Len(file) /\ DOMAIN OnTape = 1..Len(OnTape)
      /\ DOMAIN file \subseteq DOMAIN OnTape /\ Len(file) \in Nat
  BY <1>1, <1>2
<1>4. /\ DOMAIN Replayed = DOMAIN file /\ Len(Replayed) = Len(file)
      /\ \A i \in DOMAIN file :
            /\ Replayed[i].number = OnTape[i].number
            /\ Replayed[i].session = OnTape[i].session
            /\ Replayed[i].kind = "ended" <=> OnTape[i].session_ended
            /\ IsFrame(Replayed[i]) <=> ~OnTape[i].session_ended
  <2>1. \A i \in DOMAIN file : file[i] \in Lines /\ file[i] = OnTape[i]
    BY <1>1, <1>2, <1>3
  <2>2. \A i \in DOMAIN file :
          /\ IntoMessage(file[i]).number = file[i].number
          /\ IntoMessage(file[i]).session = file[i].session
          /\ IntoMessage(file[i]).kind = "ended" <=> file[i].session_ended
    BY <2>1 DEF IntoMessage, Lines
  <2>3. Replayed = [i \in DOMAIN file |-> IntoMessage(file[i])]
    BY DEF Replayed
  <2> QED BY <1>3, <2>1, <2>2, <2>3 DEF IsFrame
<1>5. SessionsAreParted
  <2> SUFFICES ASSUME NEW i \in DOMAIN Replayed, NEW j \in DOMAIN Replayed, i < j,
                      IsFrame(Replayed[i]), IsFrame(Replayed[j]),
                      Replayed[i].session # Replayed[j].session
               PROVE  \E k \in i..j :
                         Replayed[k].kind = "ended" /\ Replayed[k].session = Replayed[i].session
    BY DEF SessionsAreParted
  <2>1. i \in DOMAIN file /\ j \in DOMAIN file
    BY <1>4
  <2>2. PICK k \in i..j : Ended(OnTape, k, OnTape[i].session)
    BY <1>3, <1>4, <2>1 DEF TapeParts, Parted
  <2>3. k \in DOMAIN file
    BY <1>3, <2>1
  <2> QED BY <1>4, <2>1, <2>2, <2>3 DEF Ended
<1>6. TapeIsWhole
  <2>1. \A i \in DOMAIN Replayed : Replayed[i].number = i
    BY <1>3, <1>4 DEF TapeParts, TapeIsExact, Numbered
  <2>2. ASSUME recorder.pc = "exited"
        PROVE  Len(Replayed) + Len(tee) = sent /\ \A i \in DOMAIN tee : ~IsFrame(tee[i])
    <3>1. recording /\ (\A i \in DOMAIN tee : ~IsFrame(tee[i])) /\ buffer = <<>> /\ task.pc # "holding"
      BY <2>2 DEF RecorderFollows, TypeOK, SessionTypeOK
    <3>2. Len(OnTape) = sent
      BY <2>2, <3>1 DEF TapeParts, TapeIsExact
    <3> QED BY <1>2, <1>3, <1>4, <3>1, <3>2
  <2> QED BY <2>1, <2>2 DEF TapeIsWhole
<1>7. CrashCostsLittle
  <2>1. recorder.frames < FlushEvery
    BY TimersType DEF TypeOK
  <2>2. FramesIn(buffer) = {i \in DOMAIN buffer : ~buffer[i].session_ended}
    BY DEF FramesIn
  <2> QED BY <2>1, <2>2 DEF FlushIsNear, CrashCostsLittle
<1> QED BY <1>5, <1>6, <1>7 DEF Inv

\* A tape, wherever it was cut off, has the end of a session between the frames
\* of two, has no hole, and loses less than a flush's worth in a crash
\* (record.rs, tape.rs replay).
THEOREM TapesAreWorthKeeping == Spec => []Inv
BY TapesAreGood, Invariance, PTL

\* A silent connection is given up after one idle timeout, or two when the REST
\* answer landed in between (ingest.rs session).
THEOREM SilentConnectionsEnd == Spec => []SilenceIsNoticed
<1>1. IInv => SilenceIsNoticed
  <2> SUFFICES ASSUME IInv, task.pc = "open"
               PROVE  quiet <= IF fetch.pc = "done" THEN 2 * IdleTimeout ELSE IdleTimeout
    BY DEF SilenceIsNoticed
  <2>1. quiet <= task.silent + IF fetch.pc = "done" THEN IdleTimeout ELSE 0
    BY DEF IInv, QuietIsTimed
  <2>2. task.silent \in 0..IdleTimeout /\ quiet \in Nat
    BY TimersType DEF IInv, TypeOK, SessionTypeOK
  <2> QED BY <2>1, <2>2, TimersType
<1> QED BY <1>1, Invariance, PTL

-------------------------------------------------------------------------------
(* The rate of attempts.                                                     *)

\* The least times of up to n more attempts.
Spaces(f, n) ==
    /\ f \in [0..n -> [Attempts -> Nat]]
    /\ \A k \in Attempts : f[0][k] = 0
    /\ \A i \in 1..n : \A k \in Attempts :
          LET goesOn == ShortestPause(k) + f[i - 1][AfterDelay(k)]
              startsAgain == MinStable + ShortestPause(0) + f[i - 1][AfterDelay(0)]
          IN  f[i][k] = IF goesOn <= startsAgain THEN goesOn ELSE startsAgain

LEMMA PausesType ==
  /\ 0 \in Attempts
  /\ \A k \in Attempts : /\ AfterDelay(k) \in Attempts
                         /\ ShortestPause(k) \in Nat
                         /\ \A pause \in NextDelays(k) : pause >= ShortestPause(k)
<1>1. Climbs(Ceiling, Cap)
  BY CeilingClimbs
<1> DEFINE c == Ceiling
<1>2. c \in [0..Cap -> Base..Cap]
  BY <1>1 DEF Climbs
<1> HIDE DEF c
<1>3. ASSUME NEW k \in Attempts
      PROVE  ShortestPause(k) \in Nat /\ \A pause \in NextDelays(k) : pause >= ShortestPause(k)
  <2>1. k \in 0..Cap
    BY AttemptsType, ScheduleType DEF Attempts
  <2>2. c[k] \in Base..Cap
    BY <1>2, <2>1
  <2>3. Ceiling[k] \in Nat
    BY <2>2, ScheduleType DEF c
  <2> QED BY <2>3 DEF ShortestPause, NextDelays, Sample
<1> QED BY <1>3, AttemptsType

LEMMA SpacesExist == \A n \in Nat : \E f : Spaces(f, n)
<1> DEFINE T == {n \in Nat : ~ \E f : Spaces(f, n)}
<1> SUFFICES ASSUME T # {} PROVE FALSE
  OBVIOUS
<1> HIDE DEF T
<1>1. PICK n \in T : \A k \in T : n <= k
  <2>1. T \in SUBSET Nat
    BY DEF T
  <2> QED BY <2>1, LeastOf
<1>2. n \in Nat /\ ~ \E f : Spaces(f, n)
  BY DEF T
<1>3. CASE n = 0
  <2> DEFINE f == [i \in 0..0 |-> [k \in Attempts |-> 0]]
  <2>1. Spaces(f, 0)
    BY DEF Spaces
  <2> QED BY <1>2, <1>3, <2>1
<1>4. CASE n # 0
  <2>1. n - 1 \in Nat /\ n - 1 \notin T
    BY <1>1, <1>2, <1>4
  <2>2. PICK g : Spaces(g, n - 1)
    BY <2>1 DEF T
  <2> DEFINE GoesOn(k) == ShortestPause(k) + g[n - 1][AfterDelay(k)]
             StartsAgain == MinStable + ShortestPause(0) + g[n - 1][AfterDelay(0)]
             last == [k \in Attempts |-> IF GoesOn(k) <= StartsAgain THEN GoesOn(k) ELSE StartsAgain]
             f == [i \in 0..n |-> IF i = n THEN last ELSE g[i]]
  <2>3. g \in [0..(n - 1) -> [Attempts -> Nat]] /\ g[n - 1] \in [Attempts -> Nat]
    BY <2>1, <2>2 DEF Spaces
  <2>4. /\ \A k \in Attempts : GoesOn(k) \in Nat
        /\ StartsAgain \in Nat
    <3>1. \A k \in Attempts : g[n - 1][AfterDelay(k)] \in Nat
      BY <2>3, PausesType
    <3> QED BY <3>1, PausesType, ScheduleType
  <2>5. last \in [Attempts -> Nat]
    BY <2>4
  <2> HIDE DEF last
  <2>6. f \in [0..n -> [Attempts -> Nat]]
    BY <1>2, <2>3, <2>5
  <2>7. \A i \in 0..(n - 1) : f[i] = g[i]
    BY <1>2
  <2>8. f[n] = last
    BY <1>2
  <2> HIDE DEF f
  <2>9. \A k \in Attempts : f[0][k] = 0
    BY <2>1, <2>2, <2>7 DEF Spaces
  <2>10. ASSUME NEW i \in 1..n, NEW k \in Attempts
         PROVE  LET goesOn == ShortestPause(k) + f[i - 1][AfterDelay(k)]
                    startsAgain == MinStable + ShortestPause(0) + f[i - 1][AfterDelay(0)]
                IN  f[i][k] = IF goesOn <= startsAgain THEN goesOn ELSE startsAgain
    <3>1. f[i - 1] = g[i - 1]
      BY <1>2, <2>7
    <3>2. CASE i = n
      BY <2>8, <3>1, <3>2 DEF last
    <3>3. CASE i # n
      <4>1. i \in 1..(n - 1) /\ f[i] = g[i]
        BY <1>2, <2>7, <3>3
      <4> QED BY <2>2, <3>1, <4>1 DEF Spaces
    <3> QED BY <3>2, <3>3
  <2>11. Spaces(f, n)
    BY <2>6, <2>9, <2>10 DEF Spaces
  <2> QED BY <1>2, <2>11
<1> QED BY <1>3, <1>4

LEMMA LeastTimeSpaces == Spaces(LeastTime, MostAttempts)
<1> DEFINE Times(f) ==
      [n \in 0..MostAttempts |->
          [attempt \in Attempts |->
              IF n = 0 THEN 0
              ELSE LET goesOn == ShortestPause(attempt) + f[n - 1][AfterDelay(attempt)]
                       startsAgain == MinStable + ShortestPause(0) + f[n - 1][AfterDelay(0)]
                   IN  IF goesOn <= startsAgain THEN goesOn ELSE startsAgain]]
<1>m. MostAttempts \in Nat
  BY ScheduleAssumption
<1>1. PICK f : Spaces(f, MostAttempts)
  BY <1>m, SpacesExist
<1>2. f = Times(f)
  <2>1. f = [n \in 0..MostAttempts |-> f[n]]
    BY <1>1 DEF Spaces
  <2>2. ASSUME NEW n \in 0..MostAttempts PROVE f[n] = Times(f)[n]
    <3>1. f[n] \in [Attempts -> Nat]
      BY <1>1 DEF Spaces
    <3>2. CASE n = 0
      BY <1>1, <3>1, <3>2 DEF Spaces
    <3>3. CASE n # 0
      <4>1. n \in 1..MostAttempts
        BY <1>m, <3>3
      <4> QED BY <1>1, <3>1, <3>3, <4>1 DEF Spaces
    <3> QED BY <3>2, <3>3
  <2> QED BY <2>1, <2>2
<1>3. LeastTime = Times(LeastTime)
  BY <1>2 DEF LeastTime
<1> DEFINE t == LeastTime
<1>t. t = Times(t)
  BY <1>3
<1> HIDE DEF t
<1>4. /\ DOMAIN t = 0..MostAttempts
      /\ \A n \in 0..MostAttempts : t[n] = Times(t)[n]
  BY <1>t
<1>5. \A n \in 0..MostAttempts : \A k \in Attempts :
        t[n][k] = IF n = 0 THEN 0
                  ELSE LET goesOn == ShortestPause(k) + t[n - 1][AfterDelay(k)]
                           startsAgain == MinStable + ShortestPause(0) + t[n - 1][AfterDelay(0)]
                       IN  IF goesOn <= startsAgain THEN goesOn ELSE startsAgain
  BY <1>4
<1>6. \A n \in 0..MostAttempts : DOMAIN t[n] = Attempts /\ t[n] = [k \in Attempts |-> t[n][k]]
  BY <1>4
<1> HIDE DEF Times
<1>7. \A n \in 0..MostAttempts : \A k \in Attempts : t[n][k] \in Nat
  <2> DEFINE T == {n \in 0..MostAttempts : \E k \in Attempts : t[n][k] \notin Nat}
  <2> SUFFICES ASSUME T # {} PROVE FALSE
    OBVIOUS
  <2> HIDE DEF T
  <2>1. PICK n \in T : \A m \in T : n <= m
    <3>1. T \in SUBSET Nat
      BY <1>m DEF T
    <3> QED BY <3>1, LeastOf
  <2>2. n \in 0..MostAttempts
    BY DEF T
  <2>3. PICK k \in Attempts : t[n][k] \notin Nat
    BY DEF T
  <2>4. n # 0
    BY <1>5, <2>2, <2>3
  <2>5. n - 1 \in 0..MostAttempts /\ n - 1 \notin T
    BY <1>m, <2>1, <2>2, <2>4
  <2>6. t[n - 1][AfterDelay(k)] \in Nat /\ t[n - 1][AfterDelay(0)] \in Nat
    BY <2>5, PausesType DEF T
  <2> QED BY <1>5, <2>2, <2>3, <2>4, <2>6, PausesType, ScheduleType
<1>8. t \in [0..MostAttempts -> [Attempts -> Nat]]
  <2>1. \A n \in 0..MostAttempts : t[n] \in [Attempts -> Nat]
    BY <1>6, <1>7
  <2>2. t = [n \in 0..MostAttempts |-> t[n]]
    BY <1>t, <1>4 DEF Times
  <2> QED BY <2>1, <2>2
<1>9. \A k \in Attempts : t[0][k] = 0
  BY <1>m, <1>5
<1>10. \A n \in 1..MostAttempts : n \in 0..MostAttempts /\ n # 0
  BY <1>m
<1> QED BY <1>5, <1>8, <1>9, <1>10 DEF Spaces, t

\* What is known of the least times.
LEMMA LeastTimes ==
  /\ MostAttempts \in Nat /\ 1 <= MostAttempts
  /\ \A n \in 0..MostAttempts : \A k \in Attempts : LeastTime[n][k] \in Nat
  /\ \A k \in Attempts : LeastTime[0][k] = 0
  /\ \A n \in 1..MostAttempts : \A k \in Attempts :
        /\ LeastTime[n][k] <= ShortestPause(k) + LeastTime[n - 1][AfterDelay(k)]
        /\ LeastTime[n][k] <= MinStable + ShortestPause(0) + LeastTime[n - 1][AfterDelay(0)]
  /\ \A k \in Attempts : LeastTime[MostAttempts][k] >= Window
<1> DEFINE t == LeastTime
<1>1. Spaces(t, MostAttempts)
  BY LeastTimeSpaces
<1>2. \A k \in Attempts : t[MostAttempts][k] >= Window
  BY ScheduleAssumption
<1> HIDE DEF t
<1>3. MostAttempts \in Nat /\ 1 <= MostAttempts
  BY ScheduleAssumption
<1>4. \A n \in 0..MostAttempts : \A k \in Attempts : t[n][k] \in Nat
  BY <1>1 DEF Spaces
<1>5. ASSUME NEW n \in 1..MostAttempts, NEW k \in Attempts
      PROVE  /\ t[n][k] <= ShortestPause(k) + t[n - 1][AfterDelay(k)]
             /\ t[n][k] <= MinStable + ShortestPause(0) + t[n - 1][AfterDelay(0)]
  <2>1. n - 1 \in 0..MostAttempts
    BY <1>3
  <2>2. t[n - 1][AfterDelay(k)] \in Nat /\ t[n - 1][AfterDelay(0)] \in Nat
    BY <1>4, <2>1, PausesType
  <2> DEFINE goesOn == ShortestPause(k) + t[n - 1][AfterDelay(k)]
             startsAgain == MinStable + ShortestPause(0) + t[n - 1][AfterDelay(0)]
  <2>3. goesOn \in Nat /\ startsAgain \in Nat
    BY <2>2, PausesType, ScheduleType
  <2>4. t[n][k] = IF goesOn <= startsAgain THEN goesOn ELSE startsAgain
    BY <1>1 DEF Spaces
  <2> HIDE DEF goesOn, startsAgain
  <2>5. t[n][k] <= goesOn /\ t[n][k] <= startsAgain
    BY <2>3, <2>4
  <2> QED BY <2>5 DEF goesOn, startsAgain
<1> QED BY <1>1, <1>2, <1>3, <1>4, <1>5 DEF Spaces, t

InSession == {"connecting", "open", "holding"}

\* With n attempts still to come, the first of them after this time: what is left
\* of the pause, or of the session if the schedule is to start again.
LeavesTime(age, n) ==
    /\ task.pc = "top" => age + LeastTime[n][task.attempt] >= Window
    /\ task.pc = "sleeping" => age + task.pause + LeastTime[n][task.attempt] >= Window
    /\ task.pc \in InSession =>
          /\ age + ShortestPause(task.attempt) + LeastTime[n][AfterDelay(task.attempt)] >= Window
          /\ age + (MinStable - task.lasted) + ShortestPause(0) + LeastTime[n][AfterDelay(0)] >= Window

\* How many more attempts than those after r it takes to see too many.
Further(r) == MostAttempts - 1 - (session - r.attempt)

\* Before too many attempts can have followed one, it is out of the window.
Spaced(r) ==
    /\ r.attempt <= session
    /\ Further(r) >= 0
    /\ LeavesTime(r.age, Further(r))

AttemptsAreSpaced ==
    /\ \A r \in recent : Spaced(r)
    /\ \A r, q \in recent : r.attempt = q.attempt => r = q

\* The types of what the rate depends on.
LEMMA RateTypes ==
  ASSUME TypeOK
  PROVE  /\ task \in Tasks /\ session \in Nat /\ Window \in Nat
         /\ task.attempt \in Attempts /\ task.lasted \in 0..MinStable /\ task.pause \in 0..Cap
         /\ \A r \in recent : /\ r \in [attempt : Nat, age : 0..Window - 1]
                              /\ r.attempt \in Nat /\ r.age \in 0..Window - 1
<1>1. SessionTypeOK /\ task \in Tasks
  BY SessionTypeIs DEF TypeOK
<1> QED BY <1>1, TimersType DEF SessionTypeOK, Tasks

\* A step that leaves the loop where it is.
LEMMA RateKept ==
  ASSUME AttemptsAreSpaced, UNCHANGED <<session, recent>>,
         task'.attempt = task.attempt, task'.lasted = task.lasted, task'.pause = task.pause,
         task'.pc = task.pc \/ (task.pc \in InSession /\ task'.pc \in InSession)
  PROVE  AttemptsAreSpaced'
<1>1. \A age, n : LeavesTime(age, n) => LeavesTime(age, n)'
  BY DEF LeavesTime, InSession
<1>2. \A r : Further(r)' = Further(r)
  BY DEF Further
<1> QED BY <1>1, <1>2 DEF AttemptsAreSpaced, Spaced

\* The end of the task.
LEMMA RateEnds ==
  ASSUME AttemptsAreSpaced, UNCHANGED <<session, recent>>, task'.pc = "done"
  PROVE  AttemptsAreSpaced'
<1>1. \A age, n : LeavesTime(age, n)'
  BY DEF LeavesTime, InSession
<1>2. \A r : Further(r)' = Further(r)
  BY DEF Further
<1> QED BY <1>1, <1>2 DEF AttemptsAreSpaced, Spaced

LEMMA BeginSpaced == ASSUME TypeOK, AttemptsAreSpaced, Begin PROVE AttemptsAreSpaced'
<1>1. /\ task.pc = "top" /\ session' = session + 1
      /\ recent' = recent \union {[attempt |-> session + 1, age |-> 0]}
      /\ task' = [task EXCEPT !.pc = "connecting", !.lasted = 0]
  BY DEF Begin
<1>2. /\ task'.pc = "connecting" /\ task'.lasted = 0 /\ task'.attempt = task.attempt
  BY <1>1, RateTypes DEF Tasks
<1>3. ASSUME NEW age \in Nat, NEW n \in 1..MostAttempts, age + LeastTime[n][task.attempt] >= Window
      PROVE  LeavesTime(age, n - 1)'
  <2>1. task.attempt \in Attempts /\ n - 1 \in 0..MostAttempts /\ n \in 0..MostAttempts
    BY RateTypes, LeastTimes
  <2>2. /\ LeastTime[n][task.attempt] \in Nat
        /\ LeastTime[n - 1][AfterDelay(task.attempt)] \in Nat
        /\ LeastTime[n - 1][AfterDelay(0)] \in Nat
    BY <2>1, LeastTimes, PausesType
  <2>3. /\ LeastTime[n][task.attempt]
             <= ShortestPause(task.attempt) + LeastTime[n - 1][AfterDelay(task.attempt)]
        /\ LeastTime[n][task.attempt]
             <= MinStable + ShortestPause(0) + LeastTime[n - 1][AfterDelay(0)]
    BY <2>1, LeastTimes
  <2>4. /\ ShortestPause(task.attempt) \in Nat /\ ShortestPause(0) \in Nat /\ MinStable \in Nat
        /\ Window \in Nat
    BY <2>1, PausesType, ScheduleType, RateTypes
  <2>5. /\ age + ShortestPause(task.attempt) + LeastTime[n - 1][AfterDelay(task.attempt)] >= Window
        /\ age + (MinStable - 0) + ShortestPause(0) + LeastTime[n - 1][AfterDelay(0)] >= Window
    BY <1>3, <2>2, <2>3, <2>4
  <2> QED BY <1>2, <2>5 DEF LeavesTime
<1>4. ASSUME NEW r \in recent PROVE Spaced(r)'
  <2>1. /\ r.attempt \in Nat /\ session \in Nat /\ r.age \in Nat /\ r.age < Window /\ Window \in Nat
        /\ task.attempt \in Attempts
    BY RateTypes
  <2>2. /\ r.attempt <= session /\ Further(r) >= 0
        /\ r.age + LeastTime[Further(r)][task.attempt] >= Window
    BY <1>1 DEF AttemptsAreSpaced, Spaced, LeavesTime
  <2>3. Further(r) \in 0..MostAttempts
    BY <2>1, <2>2, LeastTimes DEF Further
  <2>4. Further(r) # 0
    BY <2>1, <2>2, LeastTimes
  <2>5. PICK n \in 1..MostAttempts : n = Further(r)
    BY <2>3, <2>4, LeastTimes
  <2>6. Further(r)' = n - 1
    BY <1>1, <2>1, <2>5, LeastTimes DEF Further
  <2>7. LeavesTime(r.age, n - 1)'
    BY <1>3, <2>1, <2>2, <2>5
  <2>8. r.attempt <= session'
    BY <1>1, <2>1, <2>2
  <2> QED BY <2>6, <2>7, <2>8 DEF Spaced
<1>n. PICK new : new = [attempt |-> session + 1, age |-> 0]
  OBVIOUS
<1>5. Spaced(new)'
  <2>1. /\ new.attempt = session' /\ new.age = 0 /\ session' \in Nat /\ session \in Nat
        /\ task.attempt \in Attempts /\ Window \in Nat
    BY <1>1, <1>n, RateTypes
  <2>2. Further(new)' = MostAttempts - 1
    <3>1. Further(new)' = MostAttempts - 1 - (session' - new.attempt)
      BY DEF Further
    <3>2. ASSUME NEW x \in Nat, NEW y, x = y PROVE MostAttempts - 1 - (x - y) = MostAttempts - 1
      BY <3>2, LeastTimes
    <3>3. session' \in Nat /\ session' = new.attempt
      BY <2>1
    <3> QED BY <3>1, <3>2, <3>3
  <2>3. MostAttempts \in 1..MostAttempts /\ 0 + LeastTime[MostAttempts][task.attempt] >= Window
    <3>1. LeastTime[MostAttempts][task.attempt] \in Nat
      BY <2>1, LeastTimes
    <3> QED BY <2>1, <3>1, LeastTimes
  <2>4. LeavesTime(0, MostAttempts - 1)'
    BY <1>3, <2>3
  <2> QED BY <2>1, <2>2, <2>4, LeastTimes DEF Spaced
<1>6. \A r \in recent : r.attempt # new.attempt
  <2>1. \A r \in recent : r.attempt \in Nat /\ r.attempt <= session /\ session \in Nat
    BY RateTypes DEF AttemptsAreSpaced, Spaced
  <2> QED BY <1>n, <2>1
<1>7. recent' = recent \union {new}
  BY <1>1, <1>n
<1> QED BY <1>4, <1>5, <1>6, <1>7 DEF AttemptsAreSpaced

LEMMA WakeSpaced == ASSUME TypeOK, AttemptsAreSpaced, Wake PROVE AttemptsAreSpaced'
<1>1. /\ task.pc = "sleeping" /\ task.pause = 0 /\ UNCHANGED <<session, recent>>
      /\ task' = [task EXCEPT !.pc = "top"]
  BY DEF Wake
<1>2. task'.pc = "top" /\ task'.attempt = task.attempt
  BY <1>1, RateTypes DEF Tasks
<1>3. ASSUME NEW age \in Nat, NEW n, LeavesTime(age, n) PROVE LeavesTime(age, n)'
  <2>1. age + 0 = age
    OBVIOUS
  <2> QED BY <1>1, <1>2, <1>3, <2>1 DEF LeavesTime, InSession
<1>4. ASSUME NEW r \in recent PROVE Spaced(r)'
  <2>1. PICK n : n = Further(r)
    OBVIOUS
  <2>2. r.age \in Nat /\ r.attempt <= session /\ n >= 0 /\ LeavesTime(r.age, n)
    BY <2>1, RateTypes DEF AttemptsAreSpaced, Spaced
  <2>3. Further(r)' = n
    BY <1>1, <2>1 DEF Further
  <2>4. LeavesTime(r.age, n)'
    BY <1>3, <2>2
  <2> QED BY <1>1, <2>2, <2>3, <2>4 DEF Spaced
<1> QED BY <1>1, <1>4 DEF AttemptsAreSpaced

\* The pause is at least the shortest of where the schedule stands, which is its
\* beginning only if the session was as long as that takes.
LEMMA RetrySpaced ==
  ASSUME TypeOK, AttemptsAreSpaced, NEW end \in Ends, Retry(end), UNCHANGED <<session, recent>>,
         task.pc \in InSession
  PROVE  AttemptsAreSpaced'
<1> DEFINE attempt == NoteSession(task.attempt, task.lasted)
<1>1. PICK pause \in NextDelays(attempt) :
        task' = [pc |-> "sleeping", attempt |-> AfterDelay(attempt), lasted |-> 0,
                 silent |-> 0, pause |-> pause]
  BY DEF Retry
<1>2. /\ task.attempt \in Attempts /\ task.lasted \in 0..MinStable /\ MinStable \in Nat
      /\ Window \in Nat
  BY RateTypes, ScheduleType
<1>3. \/ attempt = task.attempt
      \/ attempt = 0 /\ task.lasted = MinStable
  BY <1>2 DEF NoteSession
<1>4. attempt \in Attempts
  BY <1>2, <1>3, PausesType
<1> HIDE DEF attempt
<1>5. pause \in Nat /\ pause >= ShortestPause(attempt) /\ ShortestPause(attempt) \in Nat
      /\ AfterDelay(attempt) \in Attempts
  <2>1. pause \in 0..Cap
    BY <1>4, AttemptsType
  <2> QED BY <1>4, <2>1, PausesType, ScheduleType
<1>6. task'.pc = "sleeping" /\ task'.pause = pause /\ task'.attempt = AfterDelay(attempt)
  BY <1>1
<1>7. ASSUME NEW age \in Nat, NEW n \in 0..MostAttempts, LeavesTime(age, n)
      PROVE  LeavesTime(age, n)'
  <2>1. /\ age + ShortestPause(task.attempt) + LeastTime[n][AfterDelay(task.attempt)] >= Window
        /\ age + (MinStable - task.lasted) + ShortestPause(0) + LeastTime[n][AfterDelay(0)] >= Window
    BY <1>7 DEF LeavesTime, InSession
  <2>2. LeastTime[n][AfterDelay(attempt)] \in Nat
    BY <1>5, LeastTimes
  <2>3. age + ShortestPause(attempt) + LeastTime[n][AfterDelay(attempt)] >= Window
    <3>1. CASE attempt = task.attempt
      BY <2>1, <3>1
    <3>2. CASE attempt = 0 /\ task.lasted = MinStable
      BY <1>2, <1>5, <2>1, <2>2, <3>2
    <3> QED BY <1>3, <3>1, <3>2
  <2>4. age + pause + LeastTime[n][AfterDelay(attempt)] >= Window
    BY <1>2, <1>5, <2>2, <2>3
  <2>5. \A t : t = AfterDelay(attempt) => age + pause + LeastTime[n][t] >= Window
    BY <2>4
  <2>6. age + task'.pause + LeastTime[n][task'.attempt] >= Window
    BY <1>6, <2>5
  <2>7. task'.pc # "top" /\ task'.pc \notin InSession
    BY <1>6 DEF InSession
  <2> QED BY <2>6, <2>7 DEF LeavesTime, InSession
<1>8. ASSUME NEW r \in recent PROVE Spaced(r)'
  <2>1. PICK n : n = Further(r)
    OBVIOUS
  <2>2. r.age \in Nat /\ r.attempt <= session /\ n >= 0 /\ LeavesTime(r.age, n)
        /\ r.attempt \in Nat /\ session \in Nat
    BY <2>1, RateTypes DEF AttemptsAreSpaced, Spaced
  <2>3. n \in 0..MostAttempts
    BY <2>1, <2>2, LeastTimes DEF Further
  <2>4. Further(r)' = n
    BY <2>1 DEF Further
  <2>5. LeavesTime(r.age, n)'
    BY <1>7, <2>2, <2>3
  <2> QED BY <2>2, <2>4, <2>5 DEF Spaced
<1> QED BY <1>8 DEF AttemptsAreSpaced

LEMMA TickSpaced == ASSUME TypeOK, AttemptsAreSpaced, Tick PROVE AttemptsAreSpaced'
<1>1. /\ task' = [task EXCEPT !.lasted = IF task.pc \in {"connecting", "open"}
                                         THEN CountUp(@, MinStable) ELSE @,
                              !.silent = IF task.pc = "open" THEN CountUp(@, IdleTimeout) ELSE @,
                              !.pause = CountDown(@)]
      /\ recent' = {[r EXCEPT !.age = @ + 1] : r \in {r \in recent : r.age + 1 < Window}}
      /\ session' = session
  BY DEF Tick, Passes
<1>2. /\ task \in Tasks /\ task.lasted \in 0..MinStable /\ task.pause \in 0..Cap
      /\ task.attempt \in Attempts /\ MinStable \in Nat /\ Cap \in Nat /\ Window \in Nat
      /\ session \in Nat
  BY RateTypes, ScheduleType
<1>3. /\ task'.pc = task.pc /\ task'.attempt = task.attempt
      /\ task'.lasted = IF task.pc \in {"connecting", "open"}
                        THEN CountUp(task.lasted, MinStable) ELSE task.lasted
      /\ task'.pause = CountDown(task.pause)
  BY <1>1, <1>2 DEF Tasks
<1>4. PICK l \in Nat : l = task'.lasted /\ l <= task.lasted + 1
  BY <1>2, <1>3 DEF CountUp
<1>5. PICK p \in Nat : p = task'.pause /\ p >= task.pause - 1
  BY <1>2, <1>3 DEF CountDown
<1>6. ASSUME NEW age \in Nat, NEW n \in 0..MostAttempts, LeavesTime(age, n)
      PROVE  LeavesTime(age + 1, n)'
  <2>1. /\ LeastTime[n][task.attempt] \in Nat /\ LeastTime[n][AfterDelay(task.attempt)] \in Nat
        /\ LeastTime[n][AfterDelay(0)] \in Nat
        /\ ShortestPause(task.attempt) \in Nat /\ ShortestPause(0) \in Nat
    BY <1>2, LeastTimes, PausesType
  <2>2. task.pc = "top" => age + 1 + LeastTime[n][task.attempt] >= Window
    BY <1>2, <1>6, <2>1 DEF LeavesTime
  <2>3. task.pc = "sleeping" => age + 1 + p + LeastTime[n][task.attempt] >= Window
    BY <1>2, <1>5, <1>6, <2>1 DEF LeavesTime
  <2>4. task.pc \in InSession =>
          /\ age + 1 + ShortestPause(task.attempt) + LeastTime[n][AfterDelay(task.attempt)] >= Window
          /\ age + 1 + (MinStable - l) + ShortestPause(0) + LeastTime[n][AfterDelay(0)] >= Window
    BY <1>2, <1>4, <1>6, <2>1 DEF LeavesTime
  <2> QED BY <1>3, <1>4, <1>5, <2>2, <2>3, <2>4 DEF LeavesTime, InSession
<1>7. ASSUME NEW q \in recent'
      PROVE  Spaced(q)' /\ \E r \in recent : q.attempt = r.attempt /\ q = [r EXCEPT !.age = @ + 1]
  <2>1. PICK r \in recent : q = [r EXCEPT !.age = @ + 1]
    BY <1>1
  <2>2. r \in [attempt : Nat, age : 0..Window - 1] /\ r.age \in Nat /\ r.attempt \in Nat
    BY <1>2, RateTypes
  <2>3. q.attempt = r.attempt /\ q.age = r.age + 1
    BY <2>1, <2>2
  <2>4. PICK n : n = Further(r)
    OBVIOUS
  <2>5. r.attempt <= session /\ n >= 0 /\ LeavesTime(r.age, n)
    BY <2>4 DEF AttemptsAreSpaced, Spaced
  <2>6. n \in 0..MostAttempts
    BY <1>2, <2>2, <2>4, <2>5, LeastTimes DEF Further
  <2>7. Further(q)' = n
    BY <1>1, <2>3, <2>4 DEF Further
  <2>8. LeavesTime(q.age, n)'
    BY <1>6, <2>2, <2>3, <2>5, <2>6
  <2> QED BY <1>1, <2>1, <2>3, <2>5, <2>7, <2>8 DEF Spaced
<1>8. \A p1, p2 \in recent' : p1.attempt = p2.attempt => p1 = p2
  BY <1>7 DEF AttemptsAreSpaced
<1> QED BY <1>7, <1>8 DEF AttemptsAreSpaced

LEMMA TaskSpaced == ASSUME TypeOK, AttemptsAreSpaced, TaskStep PROVE AttemptsAreSpaced'
<1>1. task \in Tasks
  BY RateTypes
<1>2. CASE StopAtTop \/ StopWhileSleeping \/ SelectStop
  <2>1. UNCHANGED <<session, recent>> /\ task' = [task EXCEPT !.pc = "done"]
    BY <1>2 DEF StopAtTop, StopWhileSleeping, SelectStop
  <2> QED BY <1>1, <2>1, RateEnds DEF Tasks
<1>3. CASE SelectResync \/ IdleOut
  <2>1. \E end \in Ends : Retry(end)
    BY <1>3 DEF SelectResync, IdleOut, Ends
  <2>2. task.pc \in InSession /\ UNCHANGED <<session, recent>>
    BY <1>3 DEF SelectResync, IdleOut, Unasked, Reading, InSession
  <2> QED BY <2>1, <2>2, RetrySpaced
<1>4. CASE RestRetries
  BY <1>4, RateKept DEF RestRetries
<1>5. CASE Emit
  <2>1. /\ task.pc = "holding" /\ task' = [task EXCEPT !.pc = "open", !.silent = 0]
        /\ UNCHANGED <<session, recent>>
    BY <1>5 DEF Emit
  <2> QED BY <1>1, <2>1, RateKept DEF Tasks, InSession
<1> QED BY <1>2, <1>3, <1>4, <1>5, BeginSpaced, WakeSpaced DEF TaskStep

LEMMA NetworkSpaced == ASSUME TypeOK, AttemptsAreSpaced, NetworkStep PROVE AttemptsAreSpaced'
<1>1. task \in Tasks
  BY RateTypes
<1>2. CASE ConnectFails \/ Errs \/ \E wire \in WireMessages : Closes(wire)
  <2>1. \E end \in Ends : Retry(end)
    BY <1>2 DEF ConnectFails, Errs, Closes, Ends
  <2>2. task.pc \in InSession /\ UNCHANGED <<session, recent>>
    BY <1>2 DEF ConnectFails, Errs, Closes, Unasked, Reading, InSession
  <2> QED BY <2>1, <2>2, RetrySpaced
<1>3. CASE Connects
  <2>1. /\ task.pc = "connecting" /\ task' = [task EXCEPT !.pc = "open", !.silent = 0]
        /\ UNCHANGED <<session, recent>>
    BY <1>3 DEF Connects
  <2> QED BY <1>1, <2>1, RateKept DEF Tasks, InSession
<1>4. CASE RestFails \/ AuditLands
  BY <1>4, RateKept DEF RestFails, AuditLands
<1>5. CASE RestLands
  <2>1. task' = [task EXCEPT !.silent = 0] /\ UNCHANGED <<session, recent>>
    BY <1>5 DEF RestLands
  <2> QED BY <1>1, <2>1, RateKept DEF Tasks
<1>6. ASSUME NEW wire \in WireMessages, Receive(wire) PROVE AttemptsAreSpaced'
  <2>1. /\ task.pc = "open" /\ task' = [task EXCEPT !.pc = "holding"]
        /\ UNCHANGED <<session, recent>>
    BY <1>6 DEF Receive, Unasked, Reading
  <2> QED BY <1>1, <2>1, RateKept DEF Tasks, InSession
<1> QED BY <1>2, <1>3, <1>4, <1>5, <1>6 DEF NetworkStep

LEMMA StepSpaced == TypeOK /\ AttemptsAreSpaced /\ [Next]_vars => AttemptsAreSpaced'
<1> SUFFICES ASSUME TypeOK, AttemptsAreSpaced, [Next]_vars PROVE AttemptsAreSpaced'
  OBVIOUS
<1>1. CASE UNCHANGED vars \/ Asks \/ ServerStops \/ RecorderSteps \/ EndRecording
  <2>1. UNCHANGED <<task, session, recent>>
    BY <1>1 DEF vars, svars, Asks, Request, ServerStops, Stop, RecorderSteps, Record, Join, Drain,
                LastRecv, Finish, EndRecording
  <2> QED BY <2>1, RateKept
<1>2. CASE TaskRuns
  BY <1>2, TaskSpaced DEF TaskRuns
<1>3. CASE NetworkActs
  BY <1>3, NetworkSpaced DEF NetworkActs
<1>4. CASE Crash
  BY <1>4 DEF Crash, AttemptsAreSpaced
<1> QED BY <1>1, <1>2, <1>3, <1>4, TickSpaced DEF Next

\* An attempt that is still in the window is followed by fewer than the schedule
\* has time for, at whatever it stands and however long the session lasts.
THEOREM SpacingInvariance == Spec => []AttemptsAreSpaced
<1>1. Init => AttemptsAreSpaced
  BY DEF Init, SessionInit, AttemptsAreSpaced
<1>2. IInv => TypeOK
  BY DEF IInv
<1> QED BY <1>1, <1>2, StepSpaced, Invariance, PTL DEF Spec

\* A venue never sees more than MostAttempts connection attempts within Window,
\* whoever ends the sessions and however (backoff.rs).
THEOREM VenuesAreNotStormed == Spec => []AttemptRateIsBounded
<1>1. TypeOK /\ AttemptsAreSpaced => AttemptRateIsBounded
  <2> SUFFICES ASSUME TypeOK, AttemptsAreSpaced PROVE Cardinality(recent) <= MostAttempts
    BY DEF AttemptRateIsBounded
  <2> DEFINE numbers == (session - MostAttempts + 1)..session
             number == [r \in recent |-> r.attempt]
  <2>1. session \in Nat /\ MostAttempts \in Nat /\ 1 <= MostAttempts
    BY RateTypes, LeastTimes
  <2>2. ASSUME NEW r \in recent PROVE r.attempt \in numbers
    <3>1. r.attempt \in Nat /\ r.attempt <= session /\ Further(r) >= 0
      BY RateTypes DEF AttemptsAreSpaced, Spaced
    <3> QED BY <2>1, <3>1 DEF Further
  <2>3. number \in Injection(recent, numbers)
    <3>1. number \in [recent -> numbers]
      BY <2>2
    <3>2. \A r, q \in recent : number[r] = number[q] => r = q
      BY DEF AttemptsAreSpaced
    <3> QED BY <3>1, <3>2 DEF Injection, IsInjective
  <2>4. IsFiniteSet(numbers) /\ Cardinality(numbers) = MostAttempts
    <3>1. session - MostAttempts + 1 \in Int /\ session \in Int
          /\ session - MostAttempts + 1 <= session
          /\ session - (session - MostAttempts + 1) + 1 = MostAttempts
      BY <2>1
    <3> QED BY <3>1, FS_Interval
  <2> HIDE DEF numbers, number
  <2>5. Cardinality(recent) <= Cardinality(numbers)
    BY <2>3, <2>4, FS_Injection
  <2> QED BY <2>4, <2>5
<1>2. IInv => TypeOK
  BY DEF IInv
<1> QED BY <1>1, <1>2, Invariance, SpacingInvariance, PTL
===============================================================================
