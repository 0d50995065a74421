--------------------------- MODULE FrameOpsProofs ---------------------------
(***************************************************************************)
(* What the calls on the frame window preserve, for every stack size,      *)
(* block length, hold-off and wind-back: the frames kept behind the reader *)
(* and the frames ahead of it always fit the stack.                        *)
(***************************************************************************)
EXTENDS FrameOps, TLAPS

(* One slot of the stack is always the one being written. *)
Fits(w) == w.ahead + w.behind <= StackSize - 1

GoodWindow == {w \in Window : Fits(w)}

(* A call that only moves the reader changes two counts of the window. *)
LEMMA SizedFacts ==
  ASSUME NEW w \in GoodWindow, NEW a \in Nat, NEW b \in Nat, a + b <= StackSize - 1
  PROVE  /\ Sized(w, a, b) \in GoodWindow
         /\ Sized(w, a, b).active = w.active
         /\ Sized(w, a, b).ahead = a
         /\ Sized(w, a, b).behind = b
<1> DEFINE u == Sized(w, a, b)
<1>1. a \in 0 .. StackSize - 1 /\ b \in 0 .. StackSize - 1
  BY StackAssumption
<1>2. w \in Window
  BY DEF GoodWindow
<1>3. u \in Window
  BY <1>1, <1>2 DEF Sized, Window
<1>4. u.active = w.active /\ u.ahead = a /\ u.behind = b
  BY <1>2 DEF Sized, Window
<1>5. QED
  BY <1>3, <1>4 DEF GoodWindow, Fits

(* The counts of a window that fits. *)
LEMMA Counts ==
  ASSUME NEW w \in GoodWindow
  PROVE  /\ w.ahead \in Nat /\ w.behind \in Nat /\ w.ahead + w.behind <= StackSize - 1
         /\ w.active \in BOOLEAN /\ w.period \in Nat
BY StackAssumption DEF GoodWindow, Fits, Window

LEMMA ClearedFacts == /\ ClearedWindow \in GoodWindow
                      /\ ClearedWindow.ahead = 0 /\ ~ClearedWindow.active
BY StackAssumption DEF ClearedWindow, GoodWindow, Fits, Window

LEMMA CollectingFacts ==
  ASSUME NEW w \in GoodWindow
  PROVE  /\ Collecting(w) \in GoodWindow
         /\ Collecting(w).active
         /\ Collecting(w).ahead = w.ahead
         /\ Collecting(w).behind = w.behind
BY DEF Collecting, EndpointCleared, GoodWindow, Fits, Window

LEMMA BegunFacts ==
  ASSUME NEW w \in GoodWindow, NEW hold \in Nat
  PROVE  /\ Begun(w, hold) \in GoodWindow
         /\ Begun(w, hold).active
         /\ Begun(w, hold).ahead = w.ahead
<1> DEFINE u == Unlocked(w)
           c == Configured(u, hold)
           e == EndpointCleared(c)
<1>1. u \in GoodWindow /\ u.ahead = w.ahead /\ u.behind = w.behind
  BY CollectingFacts DEF Unlocked
<1>2. c \in GoodWindow /\ c.ahead = w.ahead /\ c.behind = w.behind
  <2> HIDE DEF u
  <2>1. QED
    BY <1>1 DEF Configured, GoodWindow, Fits, Window
<1>3. e \in GoodWindow /\ e.ahead = w.ahead /\ e.behind = w.behind
  <2> HIDE DEF c
  <2>1. QED
    BY <1>2 DEF EndpointCleared, GoodWindow, Fits, Window
<1>4. Collecting(e) \in GoodWindow /\ Collecting(e).active /\ Collecting(e).ahead = w.ahead
  <2> HIDE DEF e
  <2>1. QED
    BY <1>3, CollectingFacts
<1>5. QED
  BY <1>4 DEF Begun, VoicingReset

LEMMA LockedFacts ==
  ASSUME NEW w \in GoodWindow
  PROVE  /\ Locked(w) \in GoodWindow
         /\ ~Locked(w).active
         /\ Locked(w).ahead = w.ahead
BY DEF Locked, GoodWindow, Fits, Window

LEMMA FlushedFacts ==
  ASSUME NEW w \in GoodWindow
  PROVE  /\ Flushed(w) \in GoodWindow
         /\ Flushed(w).active = w.active
         /\ Flushed(w).ahead = 0
BY SizedFacts, StackAssumption DEF Flushed

(* Reading moves one frame from ahead of the reader to behind it, or drops  *)
(* the oldest one when enough are kept.                                     *)
LEMMA AdvancedFacts ==
  ASSUME NEW w \in GoodWindow
  PROVE  /\ Advanced(w) \in GoodWindow
         /\ Advanced(w).active = w.active
         /\ Advanced(w).ahead = IF w.ahead = 0 THEN 0 ELSE w.ahead - 1
<1>1. CASE w.ahead = 0
  BY <1>1 DEF Advanced
<1>2. CASE w.ahead # 0
  <2> DEFINE b == IF Drags(w) THEN w.behind ELSE w.behind + 1
  <2>1. w.ahead - 1 \in Nat /\ b \in Nat /\ w.ahead - 1 + b <= StackSize - 1
    BY <1>2, Counts, StackAssumption
  <2>2. Advanced(w) = Sized(w, w.ahead - 1, b)
    BY <1>2 DEF Advanced
  <2> HIDE DEF b
  <2>3. QED
    BY <1>2, <2>1, <2>2, SizedFacts
<1>3. QED
  BY <1>1, <1>2

(* A push adds a frame ahead unless it is blocked; a push that would not    *)
(* fit gives up the oldest frame.                                           *)
LEMMA StoredFacts ==
  ASSUME NEW w \in GoodWindow
  PROVE  /\ Stored(w) \in GoodWindow
         /\ Stored(w).active = w.active
         /\ Stored(w).ahead = IF Blocked(w) THEN w.ahead ELSE w.ahead + 1
<1>1. CASE Blocked(w)
  BY <1>1 DEF Stored
<1>2. CASE ~Blocked(w)
  <2> DEFINE b == IF Full(w) THEN w.behind - 1 ELSE w.behind
  <2>1. w.ahead + 1 \in Nat /\ b \in Nat /\ w.ahead + 1 + b <= StackSize - 1
    BY <1>2, Counts, StackAssumption DEF Blocked, Full
  <2>2. Stored(w) = Sized(w, w.ahead + 1, b)
    BY <1>2 DEF Stored
  <2> HIDE DEF b
  <2>3. QED
    BY <1>2, <2>1, <2>2, SizedFacts
<1>3. QED
  BY <1>1, <1>2

LEMMA EndpointedFacts ==
  ASSUME NEW w \in GoodWindow, NEW u \in Endpointed(w)
  PROVE  u \in GoodWindow /\ u.active = w.active /\ u.ahead = w.ahead
<1>1. w \in Window /\ Fits(w)
  BY DEF GoodWindow
<1>2. CASE u = [w EXCEPT !.holdOff = w.holdOff - 1] /\ w.holdOff > 0
  BY <1>1, <1>2 DEF GoodWindow, Fits, Window
<1>3. CASE u = w
  BY <1>3
<1>4. CASE u = [w EXCEPT !.voicing = TRUE]
  BY <1>1, <1>4 DEF GoodWindow, Fits, Window
<1>5. CASE u = [w EXCEPT !.ended = w.voicing]
  BY <1>1, <1>5 DEF GoodWindow, Fits, Window
<1>6. QED
  BY <1>2, <1>3, <1>4, <1>5 DEF Endpointed

LEMMA PushedFacts ==
  ASSUME NEW w \in GoodWindow, NEW u \in Pushed(w)
  PROVE  /\ u \in GoodWindow
         /\ u.active = w.active
         /\ u.ahead = IF w.active /\ ~Blocked(w) THEN w.ahead + 1 ELSE w.ahead
<1>1. CASE w.active
  BY <1>1, StoredFacts, EndpointedFacts DEF Pushed
<1>2. CASE ~w.active
  BY <1>2 DEF Pushed
<1>3. QED
  BY <1>1, <1>2

(* A relative move of the reader loses no frame. *)
LEMMA MovedFacts ==
  ASSUME NEW w \in GoodWindow, NEW n \in Int
  PROVE  /\ Moved(w, n) \in GoodWindow
         /\ Moved(w, n).active = w.active
         /\ Moved(w, n).ahead + Moved(w, n).behind = w.ahead + w.behind
<1>1. MoveCut(w, n) \in Int /\ MoveCut(w, n) <= w.behind /\ -w.ahead <= MoveCut(w, n)
  BY DEF MoveCut, Greater, Lesser, GoodWindow, Window
<1>2. Moved(w, n) = Sized(w, w.ahead + MoveCut(w, n), w.behind - MoveCut(w, n))
  BY DEF Moved
<1>3. /\ w.ahead + MoveCut(w, n) \in Nat
      /\ w.behind - MoveCut(w, n) \in Nat
      /\ w.ahead + MoveCut(w, n) + (w.behind - MoveCut(w, n)) = w.ahead + w.behind
      /\ w.ahead + w.behind <= StackSize - 1
  BY <1>1, Counts, StackAssumption
<1>4. QED
  BY <1>2, <1>3, SizedFacts

LEMMA AdvancedByFacts ==
  ASSUME NEW w \in GoodWindow, NEW k \in 0 .. w.ahead
  PROVE  /\ AdvancedBy(w, k) \in GoodWindow
         /\ AdvancedBy(w, k).active = w.active
         /\ AdvancedBy(w, k).ahead = w.ahead - k
<1>1. BehindAfter(w, k) \in Nat /\ BehindAfter(w, k) <= w.behind + k
  BY BlockAssumption DEF BehindAfter, Greater, Lesser, GoodWindow, Window
<1>2. w.ahead - k \in Nat /\ w.ahead - k + BehindAfter(w, k) <= StackSize - 1
  BY <1>1, Counts, StackAssumption
<1>3. QED
  BY <1>1, <1>2, SizedFacts DEF AdvancedBy

(* The search for the start of the utterance ends inside the window. *)
LEMMA SoughtFacts ==
  ASSUME NEW w \in GoodWindow, NEW u \in Sought(w)
  PROVE  u \in GoodWindow /\ u.active = w.active
<1>1. CASE ~w.voicing
  BY <1>1 DEF Sought
<1>2. CASE w.voicing
  <2> DEFINE oldest == Moved(w, w.behind)
             from   == SeekFrom(w)
  <2>1. oldest \in GoodWindow /\ oldest.active = w.active
    BY MovedFacts DEF GoodWindow, Window
  <2>2. from \in GoodWindow /\ from.active = w.active
    <3>1. -Lesser(w.period, oldest.ahead) \in Int
      <4> HIDE DEF oldest
      <4>1. QED
        BY <2>1 DEF Lesser, GoodWindow, Window
    <3>2. QED
      BY <2>1, <3>1, MovedFacts DEF SeekFrom
  <2>3. PICK found \in 0 .. from.ahead : u = SeekTo(w, found)
    BY <1>2 DEF Sought
  <2> DEFINE passed == AdvancedBy(from, found)
  <2>4. passed \in GoodWindow /\ passed.active = w.active
    BY <2>2, AdvancedByFacts
  <2>5. Lesser(Windback, passed.behind) \in Int
    <3> HIDE DEF passed
    <3>1. QED
      BY <2>4, WindbackAssumption DEF Lesser, GoodWindow, Window
  <2>6. QED
    BY <2>3, <2>4, <2>5, MovedFacts DEF SeekTo
<1>3. QED
  BY <1>1, <1>2

(* Voicing, the end, the hold-off and its period stay when the reader moves. *)
LEMMA AdvancedKeeps ==
  ASSUME NEW w \in GoodWindow
  PROVE  /\ Advanced(w).voicing = w.voicing /\ Advanced(w).ended = w.ended
         /\ Advanced(w).holdOff = w.holdOff /\ Advanced(w).period = w.period
BY DEF Advanced, Sized, GoodWindow, Window

LEMMA BegunHold ==
  ASSUME NEW w \in GoodWindow, NEW hold \in Nat
  PROVE  /\ Begun(w, hold).holdOff = hold /\ Begun(w, hold).period = hold
         /\ ~Begun(w, hold).voicing /\ Begun(w, hold).behind = w.behind
<1> DEFINE u == Unlocked(w)
           c == Configured(u, hold)
           e == EndpointCleared(c)
<1>1. u \in GoodWindow /\ u.behind = w.behind
  BY CollectingFacts DEF Unlocked
<1>2. c \in Window /\ c.behind = w.behind /\ c.period = hold
  <2> HIDE DEF u
  <2>1. QED
    BY <1>1 DEF Configured, GoodWindow, Fits, Window
<1>3. /\ e \in Window /\ e.behind = w.behind /\ e.period = hold /\ e.holdOff = hold
      /\ ~e.voicing
  <2> HIDE DEF c
  <2>1. QED
    BY <1>2 DEF EndpointCleared, Window
<1>4. Collecting(e).behind = e.behind
  <2> HIDE DEF e
  <2>1. QED
    BY <1>3 DEF Collecting, EndpointCleared, Window
<1>5. /\ Collecting(e).period = hold /\ Collecting(e).holdOff = hold
      /\ ~Collecting(e).voicing
  <2> HIDE DEF e
  <2>1. CASE e.active
    BY <1>3, <2>1 DEF Collecting
  <2>2. CASE ~e.active
    BY <1>3, <2>2 DEF Collecting, EndpointCleared, Window
  <2>3. QED
    BY <2>1, <2>2
<1>6. QED
  BY <1>3, <1>4, <1>5 DEF Begun, VoicingReset

(* A push takes at most one frame off the hold-off, and no voicing is found *)
(* while it lasts.                                                          *)
LEMMA PushedHold ==
  ASSUME NEW w \in GoodWindow, NEW u \in Pushed(w)
  PROVE  /\ u.period = w.period
         /\ u.holdOff = w.holdOff \/ (w.holdOff > 0 /\ u.holdOff = w.holdOff - 1)
         /\ u.voicing => w.voicing \/ w.holdOff = 0
         /\ w.active /\ w.holdOff > 0 => u.holdOff = w.holdOff - 1
<1>1. w.holdOff \in Nat
  BY DEF GoodWindow, Window
<1>2. CASE ~w.active
  BY <1>2 DEF Pushed
<1>3. CASE w.active
  <2> DEFINE s == Stored(w)
  <2>1. s \in Window
    BY StoredFacts DEF GoodWindow
  <2>2. s.period = w.period /\ s.holdOff = w.holdOff /\ s.voicing = w.voicing
    BY DEF Stored, Sized, GoodWindow, Window
  <2>3. u \in Endpointed(s)
    BY <1>3 DEF Pushed
  <2> HIDE DEF s
  <2>4. CASE s.holdOff > 0
    <3>1. u = [s EXCEPT !.holdOff = s.holdOff - 1]
      BY <2>3, <2>4 DEF Endpointed
    <3>2. u.period = s.period /\ u.voicing = s.voicing /\ u.holdOff = s.holdOff - 1
      BY <2>1, <3>1 DEF Window
    <3>3. QED
      BY <2>2, <2>4, <3>2
  <2>5. CASE ~(s.holdOff > 0)
    <3>1. u \in {s, [s EXCEPT !.voicing = TRUE], [s EXCEPT !.ended = s.voicing]}
      BY <2>3, <2>5 DEF Endpointed
    <3>2. u.period = s.period /\ u.holdOff = s.holdOff
      BY <2>1, <3>1 DEF Window
    <3>3. w.holdOff = 0
      BY <1>1, <2>2, <2>5
    <3>4. QED
      BY <2>2, <3>2, <3>3
  <2>6. QED
    BY <2>4, <2>5
<1>4. QED
  BY <1>2, <1>3 DEF GoodWindow, Window

LEMMA SizedKeeps ==
  ASSUME NEW w \in GoodWindow, NEW a, NEW b
  PROVE  /\ Sized(w, a, b).period = w.period /\ Sized(w, a, b).active = w.active
         /\ Sized(w, a, b).holdOff = w.holdOff
BY DEF Sized, GoodWindow, Window

LEMMA MovedSized ==
  ASSUME NEW w \in GoodWindow, NEW n \in Int, -w.ahead <= n, n <= w.behind
  PROVE  /\ Moved(w, n) \in GoodWindow
         /\ Moved(w, n).active = w.active /\ Moved(w, n).period = w.period
         /\ Moved(w, n).ahead = w.ahead + n /\ Moved(w, n).behind = w.behind - n
<1>1. w.ahead \in Nat /\ w.behind \in Nat /\ w.ahead + w.behind <= StackSize - 1
  BY Counts
<1>2. MoveCut(w, n) = n
  BY <1>1 DEF MoveCut, Greater, Lesser
<1> DEFINE a == w.ahead + n
           b == w.behind - n
<1>3. a \in Nat /\ b \in Nat /\ a + b <= StackSize - 1
  <2>1. a \in Nat /\ b \in Nat /\ a + b = w.ahead + w.behind
    BY <1>1
  <2>2. QED
    BY <1>1, <2>1
<1>4. Moved(w, n) = Sized(w, a, b)
  BY <1>2 DEF Moved
<1> HIDE DEF a, b
<1>5. QED
  BY <1>3, <1>4, SizedFacts, SizedKeeps DEF a, b

(* The seek goes back to the oldest frame and on over the hold-off. *)
LEMMA SeekFromNear ==
  ASSUME NEW w \in GoodWindow, w.ahead = 0
  PROVE  LET m == Lesser(w.period, w.behind)
         IN  /\ SeekFrom(w) \in GoodWindow /\ SeekFrom(w).active = w.active
             /\ SeekFrom(w).ahead = w.behind - m /\ SeekFrom(w).behind = m
             /\ m \in 0 .. w.behind
<1> DEFINE b == w.behind
           m == Lesser(w.period, b)
           oldest == Moved(w, b)
<1>1. b \in Nat /\ w.period \in Nat
  BY Counts
<1>2. m \in 0 .. b /\ (w.period = 0 => m = 0)
  BY <1>1 DEF Lesser
<1>3. /\ oldest \in GoodWindow /\ oldest.active = w.active /\ oldest.period = w.period
      /\ oldest.ahead = b /\ oldest.behind = 0
  <2>1. b \in Int /\ -w.ahead <= b /\ b <= w.behind /\ w.ahead + b = b /\ w.behind - b = 0
    BY <1>1
  <2> HIDE DEF b
  <2>2. QED
    BY <2>1, MovedSized
<1>4. SeekFrom(w) = IF oldest.period > 0 THEN Moved(oldest, -m) ELSE oldest
  BY <1>3 DEF SeekFrom
<1> HIDE DEF b, m, oldest
<1>5. CASE oldest.period > 0
  <2>1. -m \in Int /\ -oldest.ahead <= -m /\ -m <= oldest.behind
    BY <1>1, <1>2, <1>3
  <2> DEFINE d == -m
  <2>2. d \in Int /\ -oldest.ahead <= d /\ d <= oldest.behind /\ b + d = b - m /\ 0 - d = m
    BY <1>1, <1>2, <2>1
  <2> HIDE DEF d
  <2>3. /\ Moved(oldest, d) \in GoodWindow /\ Moved(oldest, d).active = oldest.active
        /\ Moved(oldest, d).ahead = oldest.ahead + d
        /\ Moved(oldest, d).behind = oldest.behind - d
    BY <1>3, <2>2, MovedSized
  <2>4. SeekFrom(w) = Moved(oldest, d)
    BY <1>4, <1>5 DEF d
  <2>5. QED
    BY <1>2, <1>3, <2>2, <2>3, <2>4 DEF m, b
<1>6. CASE ~(oldest.period > 0)
  <2>1. m = 0
    BY <1>1, <1>2, <1>3, <1>6
  <2>2. SeekFrom(w) = oldest /\ b = b - m
    BY <1>1, <1>4, <1>6, <2>1
  <2>3. QED
    BY <1>2, <1>3, <2>1, <2>2 DEF m, b
<1>7. QED
  BY <1>5, <1>6
=============================================================================
