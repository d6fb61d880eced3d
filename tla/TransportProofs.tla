-------------------------- MODULE TransportProofs --------------------------
(***************************************************************************)
(* Proofs about Transport, for any number of coroutines and of addresses   *)
(* and any bounds: its types, that a suspended operation is resumed        *)
(* exactly once, that a timer runs just while an operation waits for it,   *)
(* and that a connection outlives the callbacks that refer to it.          *)
(***************************************************************************)
EXTENDS Transport, TLAPS, FiniteSetTheorems

(* What a Connection object, and a frame of the loop's stack, can be.       *)
Connection ==
  [open : BOOLEAN, closing : BOOLEAN, keep : BOOLEAN, handles : SUBSET Handles, count : Nat,
   connecting : BOOLEAN, request : {"none", "resolve", "connect"},
   reader : Coros \cup {NoCoro}, started : BOOLEAN, rtimer : BOOLEAN,
   writer : Coros \cup {NoCoro}, writes : Seq(BOOLEAN), wtimer : BOOLEAN, immediate : Nat]
Jobs   == {"finish_read", "finish_write", "finish_connect", "close", "handles", "start"}
Frames == [call : Jobs \cup {"resume"}, conn : 0..Addresses, coro : Coros \cup {NoCoro},
           result : Results]
TlsStates == [op : {"none", "read", "write", "handshake"}, ssl : Results \cup Again,
              at : {"none", "flush", "flushed", "fed"}]
Done == {"none", "ok", "data", "eof", "error"}

(* A frame that resumes names a coroutine, another one a connection.        *)
Addressed(s) == \A i \in DOMAIN s : IF s[i].call = "resume" THEN s[i].coro \in Coros
                                                            ELSE s[i].conn \in Conns

(* The types of what the rest of the invariant is about, and of the others. *)
Types ==
  /\ conn \in [Conns -> Connection] /\ ready \in BOOLEAN /\ cur \in 0..Addresses
  /\ st \in [Coros -> {"idle", "run", "connect", "read", "write", "done"}]
  /\ stack \in Seq(Frames) /\ Addressed(stack) /\ (ready => cur \in Conns)
Values ==
  /\ posted \subseteq Conns /\ known \in BOOLEAN /\ res \in [Coros -> Results] /\ wbio \in Nat
  /\ tls \in [Coros -> TlsStates]
  /\ \A c \in Coros : tls[c].ssl \in Done \cup Again /\ (tls[c].op # "none" => ready)

(* Stack s resumes the coroutines C, each of them once.                     *)
Resumes(s, C) ==
  /\ \A i, j \in DOMAIN s : s[i].call = "resume" /\ s[j].call = "resume" /\ s[i].coro = s[j].coro
                              => i = j
  /\ \A c \in Coros : c \in C <=> \E i \in DOMAIN s : s[i].call = "resume" /\ s[i].coro = c

(* Stack s has a call of f for connection k.                                *)
HasIn(s, f, k) == \E i \in DOMAIN s : s[i].call = f /\ s[i].conn = k
Has(f, k) == HasIn(stack, f, k)

(* The coroutines that run are those the stack resumes.                     *)
AtWork == {c \in Coros : st[c] = "run"}
Turns == Resumes(stack, AtWork)

(* A connection by itself: open with all its handles, kept alive by them;   *)
(* a write request that can still complete has its coroutine.               *)
Sound(d) ==
  /\ d.closing => ~d.open
  /\ d.open => d.handles = Handles
  /\ d.handles # {} => d.keep
  /\ (\E i \in DOMAIN d.writes : d.writes[i]) => d.writer # NoCoro
  /\ d.writer # NoCoro => d.handles = Handles
  /\ d.connecting /\ d.request # "none" => d.handles = Handles

(* Whoever a connection will resume is suspended on it, on the last one; it *)
(* is open when connect() or accept() has returned.                         *)
Waits(k) ==
  LET d == conn[k]
  IN  /\ d.reader # NoCoro => st[d.reader] = "read" /\ k = cur /\ ready
      /\ d.writer # NoCoro => st[d.writer] = "write" /\ k = cur /\ ready
      /\ d.connecting => st[Main] = "connect" /\ k = cur /\ ~ready
      /\ d.open => k <= cur /\ ready

(* What close_on_loop has not done yet is still on the stack.               *)
Closes(k) ==
  LET d == conn[k]
  IN  d.closing =>
        /\ d.reader # NoCoro => Has("finish_read", k)
        /\ d.writer # NoCoro => Has("finish_write", k)
        /\ d.connecting => Has("finish_connect", k)
        /\ Has("handles", k) \/ d.count = Cardinality(d.handles)

(* A timer runs while its operation waits, but for a connection that is     *)
(* about to be closed, or about to start or to finish connecting.           *)
Timed(k) ==
  LET d == conn[k]
  IN  \/ d.closing \/ Has("close", k)
      \/ /\ \/ d.rtimer <=> (d.connecting \/ d.reader # NoCoro)
            \/ d.connecting /\ (Has("start", k) \/ Has("finish_connect", k))
         /\ d.wtimer <=> d.writer # NoCoro

(* A connection attempt that starts has its handles.                        *)
Begins(k) == Has("start", k) => k <= cur /\ (conn[k].connecting => conn[k].handles = Handles)

Good(k) == Sound(conn[k]) /\ Waits(k) /\ Closes(k) /\ Timed(k) /\ Begins(k)

(* A successful connect is finished in the callback that reports it.        *)
Succeeds ==
  \A i \in DOMAIN stack : stack[i].call = "finish_connect" /\ stack[i].result = "ok" =>
    /\ i = 1 /\ Len(stack) = 1
    /\ LET d == conn[stack[i].conn] IN ~d.closing /\ d.handles = Handles

(* The inductive invariant.  OperationResumedOnce needs Waits: a resumption *)
(* is for a coroutine that is suspended.  KeptWhileInUse needs Closes, as   *)
(* close_on_loop does its work in four frames with coroutines in between,   *)
(* and Sound needs Succeeds, as finish_connect opens the connection.        *)
Consistent == Types /\ Turns /\ Succeeds /\ \A k \in Conns : Good(k)
TransportInv == Values /\ Consistent

-----------------------------------------------------------------------------
(* How the stack moves.                                                     *)

(* A sequence put before another one.                                       *)
LEMMA Joined ==
  ASSUME NEW T, NEW f \in Seq(T), NEW r \in Seq(T), NEW s, s = f \o r
  PROVE  /\ s \in Seq(T) /\ Len(f) \in Nat /\ Len(r) \in Nat
         /\ DOMAIN f = 1..Len(f) /\ DOMAIN r = 1..Len(r) /\ DOMAIN s = 1..(Len(f) + Len(r))
         /\ \A i \in 1..Len(f) : s[i] = f[i]
         /\ \A i \in 1..Len(r) : s[Len(f) + i] = r[i]
OBVIOUS

(* Every place in it is a place in one of the two.                          *)
LEMMA Halves ==
  ASSUME NEW T, NEW f \in Seq(T), NEW r \in Seq(T), NEW s, s = f \o r
  PROVE  /\ \A i \in DOMAIN s : \/ i \in DOMAIN f /\ s[i] = f[i]
                                \/ i - Len(f) \in DOMAIN r /\ s[i] = r[i - Len(f)]
         /\ \A i \in DOMAIN f : i \in DOMAIN s /\ s[i] = f[i]
         /\ \A i \in DOMAIN r : Len(f) + i \in DOMAIN s /\ s[Len(f) + i] = r[i]
         /\ Len(f) \in Nat /\ DOMAIN s \subseteq Int /\ DOMAIN r \subseteq Int
<1>1. /\ DOMAIN f = 1..Len(f) /\ DOMAIN r = 1..Len(r) /\ DOMAIN s = 1..(Len(f) + Len(r))
      /\ Len(f) \in Nat /\ Len(r) \in Nat
  BY Joined
<1>2. \A i \in 1..(Len(f) + Len(r)) : i \in 1..Len(f) \/ (i - Len(f) \in 1..Len(r)
                                                        /\ Len(f) + (i - Len(f)) = i)
  BY <1>1
<1>3. \A i \in 1..Len(r) : Len(f) + i \in 1..(Len(f) + Len(r)) BY <1>1
<1>4. \A i \in 1..Len(f) : i \in 1..(Len(f) + Len(r)) BY <1>1
<1>5. /\ \A i \in 1..Len(f) : s[i] = f[i]
      /\ \A i \in 1..Len(r) : s[Len(f) + i] = r[i]
  BY Joined
<1> QED BY <1>1, <1>2, <1>3, <1>4, <1>5

(* The rest of a sequence.                                                  *)
LEMMA Rest ==
  ASSUME NEW T, NEW s \in Seq(T), s # <<>>, NEW r, r = Tail(s)
  PROVE  /\ r \in Seq(T) /\ 1 \in DOMAIN s /\ DOMAIN s \subseteq Nat
         /\ \A i \in DOMAIN r : i \in Nat /\ i + 1 \in DOMAIN s /\ i + 1 # 1 /\ r[i] = s[i + 1]
         /\ \A i \in DOMAIN s : i = 1 \/ (i - 1 \in DOMAIN r /\ s[i] = r[i - 1])
<1>1. /\ r \in Seq(T) /\ Len(s) \in Nat \ {0} /\ DOMAIN s = 1..Len(s) /\ Len(r) = Len(s) - 1
      /\ DOMAIN r = 1..(Len(s) - 1)
  OBVIOUS
<1>2. \A i \in 1..(Len(s) - 1) : r[i] = s[i + 1] OBVIOUS
<1> QED BY <1>1, <1>2

(* What a stack resumes ...                                                 *)
LEMMA ResumesJoined ==
  ASSUME NEW f \in Seq(Frames), NEW r \in Seq(Frames), NEW s, s = f \o r,
         NEW C, NEW D, Resumes(f, C), Resumes(r, D), \A c \in Coros : ~(c \in C /\ c \in D),
         Addressed(f), Addressed(r)
  PROVE  Resumes(s, C \cup D) /\ Addressed(s)
<1>1. /\ \A i \in DOMAIN s : \/ i \in DOMAIN f /\ s[i] = f[i]
                             \/ i - Len(f) \in DOMAIN r /\ s[i] = r[i - Len(f)]
      /\ \A i \in DOMAIN f : i \in DOMAIN s /\ s[i] = f[i]
      /\ \A i \in DOMAIN r : Len(f) + i \in DOMAIN s /\ s[Len(f) + i] = r[i]
      /\ Len(f) \in Nat /\ DOMAIN s \subseteq Int /\ DOMAIN r \subseteq Int
  BY Halves
<1> DEFINE From(x, c) == x.call = "resume" /\ x.coro = c
<1>2. ASSUME NEW i \in DOMAIN s, NEW j \in DOMAIN s, s[i].call = "resume", s[j].call = "resume",
             s[i].coro = s[j].coro
      PROVE  i = j
  <2>1. s[i].coro \in Coros BY <1>1, <1>2 DEF Addressed
  <2>2. CASE i \in DOMAIN f /\ s[i] = f[i] /\ j \in DOMAIN f /\ s[j] = f[j]
    BY <1>2, <2>2 DEF Resumes
  <2>3. CASE i - Len(f) \in DOMAIN r /\ s[i] = r[i - Len(f)] /\ j - Len(f) \in DOMAIN r
             /\ s[j] = r[j - Len(f)]
    <3>1. i - Len(f) = j - Len(f) BY <1>2, <2>3 DEF Resumes
    <3>2. i \in Int /\ j \in Int /\ Len(f) \in Int BY <1>1
    <3> QED BY <3>1, <3>2
  <2>4. CASE i \in DOMAIN f /\ s[i] = f[i] /\ j - Len(f) \in DOMAIN r /\ s[j] = r[j - Len(f)]
    <3>1. s[i].coro \in C /\ s[i].coro \in D BY <1>2, <2>1, <2>4 DEF Resumes
    <3> QED BY <2>1, <3>1
  <2>5. CASE j \in DOMAIN f /\ s[j] = f[j] /\ i - Len(f) \in DOMAIN r /\ s[i] = r[i - Len(f)]
    <3>1. s[i].coro \in C /\ s[i].coro \in D BY <1>2, <2>1, <2>5 DEF Resumes
    <3> QED BY <2>1, <3>1
  <2> QED BY <1>1, <2>2, <2>3, <2>4, <2>5
<1>3. ASSUME NEW c \in Coros
      PROVE  c \in C \cup D <=> \E i \in DOMAIN s : s[i].call = "resume" /\ s[i].coro = c
  <2>1. (\E i \in DOMAIN s : s[i].call = "resume" /\ s[i].coro = c) =>
          \/ \E i \in DOMAIN f : f[i].call = "resume" /\ f[i].coro = c
          \/ \E i \in DOMAIN r : r[i].call = "resume" /\ r[i].coro = c
    BY <1>1
  <2>2. ASSUME \/ \E i \in DOMAIN f : f[i].call = "resume" /\ f[i].coro = c
               \/ \E i \in DOMAIN r : r[i].call = "resume" /\ r[i].coro = c
        PROVE  \E i \in DOMAIN s : s[i].call = "resume" /\ s[i].coro = c
    <3>1. CASE \E i \in DOMAIN f : f[i].call = "resume" /\ f[i].coro = c BY <1>1, <3>1
    <3>2. CASE \E i \in DOMAIN r : r[i].call = "resume" /\ r[i].coro = c
      <4>1. PICK i \in DOMAIN r : r[i].call = "resume" /\ r[i].coro = c BY <3>2
      <4>2. Len(f) + i \in DOMAIN s /\ s[Len(f) + i] = r[i] BY <1>1
      <4> QED BY <4>1, <4>2
    <3> QED BY <2>2, <3>1, <3>2
  <2> QED BY <2>1, <2>2 DEF Resumes
<1>4. Addressed(s) BY <1>1 DEF Addressed
<1> QED BY <1>2, <1>3, <1>4 DEF Resumes

(* ... and what is left of it without its top.                              *)
LEMMA ResumesRest ==
  ASSUME NEW s \in Seq(Frames), s # <<>>, NEW r, r = Tail(s), NEW C, Resumes(s, C), Addressed(s)
  PROVE  /\ Addressed(r)
         /\ s[1].call # "resume" => Resumes(r, C)
         /\ s[1].call = "resume" => Resumes(r, C \ {s[1].coro})
<1>1. /\ r \in Seq(Frames) /\ 1 \in DOMAIN s /\ DOMAIN s \subseteq Nat
      /\ \A i \in DOMAIN r : i \in Nat /\ i + 1 \in DOMAIN s /\ i + 1 # 1 /\ r[i] = s[i + 1]
      /\ \A i \in DOMAIN s : i = 1 \/ (i - 1 \in DOMAIN r /\ s[i] = r[i - 1])
  BY Rest
<1>2. ASSUME NEW i \in DOMAIN r, NEW j \in DOMAIN r, r[i].call = "resume", r[j].call = "resume",
             r[i].coro = r[j].coro
      PROVE  i = j
  <2>1. i + 1 = j + 1 BY <1>1, <1>2 DEF Resumes
  <2> QED BY <1>1, <2>1
<1>3. ASSUME NEW i \in DOMAIN r, r[i].call = "resume"
      PROVE  /\ s[i + 1].call = "resume" /\ s[i + 1].coro = r[i].coro
             /\ i + 1 \in DOMAIN s /\ i + 1 # 1
  BY <1>1, <1>3
<1>4. ASSUME NEW c \in Coros, NEW i \in DOMAIN r, r[i].call = "resume", r[i].coro = c
      PROVE  c \in C
  BY <1>3, <1>4 DEF Resumes
<1>5. ASSUME NEW c \in Coros, c \in C
      PROVE  \/ \E i \in DOMAIN r : r[i].call = "resume" /\ r[i].coro = c
             \/ s[1].call = "resume" /\ s[1].coro = c
  <2>1. PICK i \in DOMAIN s : s[i].call = "resume" /\ s[i].coro = c BY <1>5 DEF Resumes
  <2>2. CASE i = 1 BY <2>1, <2>2
  <2>3. CASE i - 1 \in DOMAIN r /\ s[i] = r[i - 1] BY <2>1, <2>3
  <2> QED BY <1>1, <2>2, <2>3
<1>6. ASSUME s[1].call = "resume", NEW i \in DOMAIN r, r[i].call = "resume"
      PROVE  r[i].coro # s[1].coro
  BY <1>1, <1>3, <1>6 DEF Resumes
<1>7. Addressed(r) BY <1>1 DEF Addressed
<1>8. ASSUME s[1].call # "resume" PROVE Resumes(r, C)
  BY <1>2, <1>4, <1>5, <1>8 DEF Resumes
<1>9. ASSUME s[1].call = "resume" PROVE Resumes(r, C \ {s[1].coro})
  <2>1. ASSUME NEW c \in Coros
        PROVE  c \in C \ {s[1].coro} <=> \E i \in DOMAIN r : r[i].call = "resume" /\ r[i].coro = c
    BY <1>4, <1>5, <1>6, <1>9
  <2> QED BY <1>2, <2>1 DEF Resumes
<1> QED BY <1>7, <1>8, <1>9

(* Stack s resumes C, and reports no successful connect.                    *)
Fits(s, C) ==
  /\ s \in Seq(Frames) /\ Addressed(s) /\ Resumes(s, C)
  /\ \A i \in DOMAIN s : ~(s[i].call = "finish_connect" /\ s[i].result = "ok")

(* Frames before others: the calls, ...                                     *)
LEMMA HasJoined ==
  ASSUME NEW f \in Seq(Frames), NEW r \in Seq(Frames), NEW g, NEW k
  PROVE  HasIn(f \o r, g, k) <=> HasIn(f, g, k) \/ HasIn(r, g, k)
<1> DEFINE s == f \o r
<1>1. /\ \A i \in DOMAIN s : \/ i \in DOMAIN f /\ s[i] = f[i]
                             \/ i - Len(f) \in DOMAIN r /\ s[i] = r[i - Len(f)]
      /\ \A i \in DOMAIN f : i \in DOMAIN s /\ s[i] = f[i]
      /\ \A i \in DOMAIN r : Len(f) + i \in DOMAIN s /\ s[Len(f) + i] = r[i]
  BY Halves
<1> HIDE DEF s
<1>2. HasIn(s, g, k) => HasIn(f, g, k) \/ HasIn(r, g, k) BY <1>1 DEF HasIn
<1>3. HasIn(f, g, k) => HasIn(s, g, k) BY <1>1 DEF HasIn
<1>4. ASSUME HasIn(r, g, k) PROVE HasIn(s, g, k)
  <2>1. PICK i \in DOMAIN r : r[i].call = g /\ r[i].conn = k BY <1>4 DEF HasIn
  <2>2. Len(f) + i \in DOMAIN s /\ s[Len(f) + i] = r[i] BY <1>1
  <2> QED BY <2>1, <2>2 DEF HasIn
<1>5. HasIn(s, g, k) <=> HasIn(f, g, k) \/ HasIn(r, g, k) BY <1>2, <1>3, <1>4
<1> QED BY <1>5 DEF s

(* ... and the coroutines.                                                  *)
LEMMA FitsJoined ==
  ASSUME NEW f, NEW r, NEW C, NEW D, Fits(f, C), Fits(r, D), \A c \in Coros : ~(c \in C /\ c \in D)
  PROVE  Fits(f \o r, C \cup D)
<1> DEFINE s == f \o r
<1>1. f \in Seq(Frames) /\ r \in Seq(Frames) BY DEF Fits
<1>2. s \in Seq(Frames) BY <1>1
<1>3. /\ \A i \in DOMAIN s : \/ i \in DOMAIN f /\ s[i] = f[i]
                             \/ i - Len(f) \in DOMAIN r /\ s[i] = r[i - Len(f)]
      /\ \A i \in DOMAIN f : i \in DOMAIN s /\ s[i] = f[i]
      /\ \A i \in DOMAIN r : Len(f) + i \in DOMAIN s /\ s[Len(f) + i] = r[i]
  BY <1>1, Halves
<1>4. Resumes(s, C \cup D) /\ Addressed(s) BY <1>1, ResumesJoined DEF Fits
<1> HIDE DEF s
<1>5. \A i \in DOMAIN s : ~(s[i].call = "finish_connect" /\ s[i].result = "ok")
  BY <1>3 DEF Fits
<1>6. Fits(s, C \cup D) BY <1>2, <1>4, <1>5 DEF Fits
<1> QED BY <1>6 DEF s

(* No frame, ...                                                            *)
LEMMA FitsNone == Fits(<<>>, {}) /\ \A g, k : ~HasIn(<<>>, g, k)
<1> PICK s : s = <<>> OBVIOUS
<1>1. s \in Seq(Frames) /\ DOMAIN s = {} OBVIOUS
<1> HIDE DEF Frames
<1>2. Fits(s, {}) BY <1>1 DEF Fits, Addressed, Resumes
<1>3. \A g, k : ~HasIn(s, g, k) BY <1>1 DEF HasIn
<1> QED BY <1>2, <1>3

(* ... one that is called, ...                                              *)
LEMMA FitsCall ==
  ASSUME NEW g \in Jobs, NEW k \in Conns, NEW r \in Results, ~(g = "finish_connect" /\ r = "ok")
  PROVE  /\ Fits(<<Call(g, k, r)>>, {})
         /\ \A h, j : HasIn(<<Call(g, k, r)>>, h, j) <=> h = g /\ j = k
<1> PICK x : x = Call(g, k, r) OBVIOUS
<1>1. x.call = g /\ x.conn = k /\ x.result = r BY DEF Call
<1>2. x \in Frames BY DEF Call, Frames, Conns
<1>3. PICK s : s = <<x>> OBVIOUS
<1>4. s \in Seq(Frames) /\ DOMAIN s = {1} /\ s[1] = x BY <1>2, <1>3
<1>5. g # "resume" BY DEF Jobs
<1>6. Fits(s, {}) BY <1>1, <1>4, <1>5 DEF Fits, Addressed, Resumes
<1>7. \A h, j : HasIn(s, h, j) <=> h = g /\ j = k BY <1>1, <1>4 DEF HasIn
<1> QED BY <1>3, <1>6, <1>7

(* ... one that resumes.                                                    *)
LEMMA FitsResume ==
  ASSUME NEW c \in Coros
  PROVE  /\ Fits(<<Resume(c)>>, {c})
         /\ \A k \in Conns : \A g : ~HasIn(<<Resume(c)>>, g, k)
<1> PICK x : x = Resume(c) OBVIOUS
<1>1. x.call = "resume" /\ x.conn = 0 /\ x.result = "none" /\ x.coro = c BY DEF Resume
<1>2. x \in Frames BY TransportAssumption DEF Resume, Frames, Results
<1>3. PICK s : s = <<x>> OBVIOUS
<1>4. s \in Seq(Frames) /\ DOMAIN s = {1} /\ s[1] = x BY <1>2, <1>3
<1>5. Fits(s, {c}) BY <1>1, <1>4 DEF Fits, Addressed, Resumes
<1>6. \A k \in Conns : \A g : ~HasIn(s, g, k) BY <1>1, <1>4 DEF HasIn, Conns
<1> QED BY <1>3, <1>5, <1>6

(* What is left of the stack without its top.                               *)
Under == IF stack = <<>> THEN <<>> ELSE Tail(stack)
TopIs(f, k) == Top(f) /\ stack[1].conn = k
Left == IF Top("resume") THEN AtWork \ {stack[1].coro} ELSE AtWork

LEMMA FitsUnder ==
  ASSUME Consistent
  PROVE  /\ Fits(Under, Left)
         /\ \A g, k : HasIn(Under, g, k) => Has(g, k)
         /\ \A g, k : Has(g, k) => HasIn(Under, g, k) \/ TopIs(g, k)
<1>1. stack \in Seq(Frames) /\ Addressed(stack) /\ Resumes(stack, AtWork)
  BY DEF Consistent, Types, Turns
<1>2. CASE stack = <<>>
  <2>1. Under = <<>> /\ \A g, k : ~HasIn(stack, g, k) BY <1>2, FitsNone DEF Under
  <2>2. Left = AtWork BY <1>2 DEF Left, Top
  <2>3. Resumes(<<>>, AtWork) BY <1>1, <1>2
  <2>4. Fits(Under, Left) BY <2>1, <2>2, <2>3, FitsNone DEF Fits
  <2> QED BY <2>1, <2>4, FitsNone DEF Has
<1>3. CASE stack # <<>>
  <2> DEFINE r == Tail(stack)
  <2>1. /\ r \in Seq(Frames)
        /\ \A i \in DOMAIN r : i \in Nat /\ i + 1 \in DOMAIN stack /\ i + 1 # 1 /\ r[i] = stack[i + 1]
        /\ \A i \in DOMAIN stack : i = 1 \/ (i - 1 \in DOMAIN r /\ stack[i] = r[i - 1])
    BY <1>1, <1>3, Rest
  <2>2. /\ Addressed(r)
        /\ stack[1].call # "resume" => Resumes(r, AtWork)
        /\ stack[1].call = "resume" => Resumes(r, AtWork \ {stack[1].coro})
    BY <1>1, <1>3, ResumesRest
  <2>3. Under = r BY <1>3 DEF Under
  <2> HIDE DEF r
  <2>4. Resumes(r, Left) BY <1>3, <2>2 DEF Left, Top
  <2>5. \A i \in DOMAIN r : ~(r[i].call = "finish_connect" /\ r[i].result = "ok")
    BY <2>1 DEF Consistent, Succeeds
  <2>6. ASSUME NEW g, NEW k PROVE HasIn(r, g, k) => Has(g, k) BY <2>1 DEF HasIn, Has
  <2>7. ASSUME NEW g, NEW k PROVE Has(g, k) => HasIn(r, g, k) \/ TopIs(g, k)
    BY <1>3, <2>1 DEF HasIn, Has, TopIs, Top
  <2> QED BY <2>1, <2>2, <2>3, <2>4, <2>5, <2>6, <2>7 DEF Fits
<1> QED BY <1>2, <1>3

(* What is called back, or replaces the top, comes before the rest.         *)
LEMMA Moves ==
  ASSUME Consistent, NEW f, NEW F, Fits(f, F), (stack # <<>> /\ Replace(f)) \/ Event(f),
         \A c \in Coros : ~(c \in F /\ c \in Left), AtWork' = F \cup Left
  PROVE  /\ Fits(stack', AtWork')
         /\ \A g, k : Has(g, k)' => HasIn(f, g, k) \/ Has(g, k)
         /\ \A g, k : HasIn(f, g, k) => Has(g, k)'
         /\ \A g, k : Has(g, k) => Has(g, k)' \/ TopIs(g, k)
<1>1. stack' = f \o Under
  <2>1. f \in Seq(Frames) BY DEF Fits
  <2> QED BY <2>1 DEF Replace, Event, Under
<1>2. /\ Fits(f \o Under, F \cup Left)
      /\ \A g, k : HasIn(f \o Under, g, k) <=> HasIn(f, g, k) \/ HasIn(Under, g, k)
  <2>1. Fits(Under, Left) BY FitsUnder
  <2>2. Fits(f, F) /\ \A c \in Coros : ~(c \in F /\ c \in Left) OBVIOUS
  <2>3. Fits(f \o Under, F \cup Left) BY <2>1, <2>2, FitsJoined
  <2>4. ASSUME NEW g, NEW k
        PROVE  HasIn(f \o Under, g, k) <=> HasIn(f, g, k) \/ HasIn(Under, g, k)
    BY <2>1, <2>2, HasJoined DEF Fits
  <2> QED BY <2>3, <2>4
<1>3. \A g, k : Has(g, k)' <=> HasIn(f, g, k) \/ HasIn(Under, g, k) BY <1>1, <1>2 DEF Has
<1> QED BY <1>1, <1>2, <1>3, FitsUnder

(* Fits and what Moves says is what the invariant asks of the stack.        *)
LEMMA Stands ==
  ASSUME Fits(stack', AtWork')
  PROVE  stack' \in Seq(Frames) /\ Addressed(stack') /\ Turns' /\ Succeeds'
BY DEF Fits, Turns, Succeeds

(* Two calls for a connection, ...                                          *)
LEMMA FitsCalls ==
  ASSUME NEW k \in Conns, NEW g \in Jobs, NEW r \in Results, ~(g = "finish_connect" /\ r = "ok"),
         NEW h \in Jobs, NEW q \in Results, ~(h = "finish_connect" /\ q = "ok")
  PROVE  /\ Fits(<<Call(g, k, r), Call(h, k, q)>>, {})
         /\ \A x, j : HasIn(<<Call(g, k, r), Call(h, k, q)>>, x, j) <=> x \in {g, h} /\ j = k
<1> PICK a : a = Call(g, k, r) OBVIOUS
<1> PICK b : b = Call(h, k, q) OBVIOUS
<1>1. /\ a.call = g /\ a.conn = k /\ a.result = r
      /\ b.call = h /\ b.conn = k /\ b.result = q
  BY DEF Call
<1>2. a \in Frames /\ b \in Frames BY DEF Call, Frames, Conns
<1>3. PICK s : s = <<a, b>> OBVIOUS
<1>4. s \in Seq(Frames) /\ DOMAIN s = {1, 2} /\ s[1] = a /\ s[2] = b BY <1>2, <1>3
<1>5. g # "resume" /\ h # "resume" BY DEF Jobs
<1>6. Fits(s, {}) BY <1>1, <1>4, <1>5 DEF Fits, Addressed, Resumes
<1>7. \A x, j : HasIn(s, x, j) <=> x \in {g, h} /\ j = k BY <1>1, <1>4 DEF HasIn
<1> QED BY <1>3, <1>6, <1>7

(* ... the four of close_on_loop, ...                                       *)
LEMMA FitsClose ==
  ASSUME NEW k \in Conns
  PROVE  /\ Fits(CloseCalls(k), {})
         /\ \A x, j : HasIn(CloseCalls(k), x, j) <=>
              x \in {"finish_read", "finish_write", "finish_connect", "handles"} /\ j = k
<1> PICK a : a = Call("finish_read", k, "cancelled") OBVIOUS
<1> PICK b : b = Call("finish_write", k, "cancelled") OBVIOUS
<1> PICK c : c = Call("finish_connect", k, "cancelled") OBVIOUS
<1> PICK d : d = Call("handles", k, "none") OBVIOUS
<1>1. /\ a.call = "finish_read" /\ a.conn = k /\ b.call = "finish_write" /\ b.conn = k
      /\ c.call = "finish_connect" /\ c.conn = k /\ c.result = "cancelled"
      /\ d.call = "handles" /\ d.conn = k
  BY DEF Call
<1>2. a \in Frames /\ b \in Frames /\ c \in Frames /\ d \in Frames
  BY DEF Call, Frames, Conns, Jobs, Results
<1>3. PICK s : s = <<a, b, c, d>> OBVIOUS
<1>4. s \in Seq(Frames) BY <1>2, <1>3
<1>5. DOMAIN s = {1, 2, 3, 4} /\ s[1] = a /\ s[2] = b /\ s[3] = c /\ s[4] = d BY <1>3
<1>6. Fits(s, {}) BY <1>1, <1>4, <1>5 DEF Fits, Addressed, Resumes
<1>7. \A x, j : HasIn(s, x, j) <=>
        x \in {"finish_read", "finish_write", "finish_connect", "handles"} /\ j = k
  BY <1>1, <1>5 DEF HasIn
<1> QED BY <1>3, <1>6, <1>7 DEF CloseCalls

(* ... and the end of a failed connect.                                     *)
LEMMA FitsFailed ==
  ASSUME NEW k \in Conns
  PROVE  /\ Fits(<<Call("close", k, "none")>> \o <<Resume(Main)>>, {Main})
         /\ \A j \in Conns : \A x : HasIn(<<Call("close", k, "none")>> \o <<Resume(Main)>>, x, j) <=>
                                  x = "close" /\ j = k
<1> DEFINE a == <<Call("close", k, "none")>>
           b == <<Resume(Main)>>
<1>c. PICK C : C = {} OBVIOUS
<1>d. PICK D : D = {Main} OBVIOUS
<1>0. "close" \in Jobs /\ "none" \in Results /\ Main \in Coros
  BY TransportAssumption DEF Jobs, Results
<1>1. Fits(a, C) /\ \A x, j : HasIn(a, x, j) <=> x = "close" /\ j = k BY <1>0, <1>c, FitsCall
<1>2. Fits(b, D) /\ \A j \in Conns : \A x : ~HasIn(b, x, j) BY <1>0, <1>d, FitsResume
<1>3. Fits(a, C) /\ Fits(b, D) /\ \A c \in Coros : ~(c \in C /\ c \in D)
  BY <1>1, <1>2, <1>c, <1>d
<1> HIDE DEF a, b
<1>4. Fits(a \o b, C \cup D) BY <1>3, FitsJoined
<1>5. ASSUME NEW x, NEW j PROVE HasIn(a \o b, x, j) <=> HasIn(a, x, j) \/ HasIn(b, x, j)
  BY <1>3, HasJoined DEF Fits
<1>6. C \cup D = {Main} BY <1>c, <1>d
<1>7. \A j \in Conns : \A x : HasIn(a \o b, x, j) <=> x = "close" /\ j = k BY <1>1, <1>2, <1>5
<1>8. Fits(a \o b, {Main}) BY <1>4, <1>6
<1> QED BY <1>7, <1>8 DEF a, b

(* The coroutines of F run now, and those that did beneath the top.          *)
Turned(F) == (\A c \in Coros : ~(c \in F /\ c \in Left)) /\ AtWork' = F \cup Left

(* Who runs: nobody else, unless a call resumes a suspended coroutine, ...   *)
LEMMA TurnsOn ==
  ASSUME Consistent, stack = <<>> \/ stack[1].call # "resume", st' = st
  PROVE  Turned({})
BY DEF Left, Top, AtWork, Turned

LEMMA TurnTo ==
  ASSUME Consistent, stack = <<>> \/ stack[1].call # "resume", NEW c \in Coros, st[c] # "run",
         st' = [st EXCEPT ![c] = "run"]
  PROVE  Turned({c})
<1>1. \A x \in Coros : st'[x] = IF x = c THEN "run" ELSE st[x] BY DEF Consistent, Types
<1>2. Left = AtWork BY DEF Left, Top
<1> QED BY <1>1, <1>2 DEF AtWork, Turned

(* ... or a coroutine stops.                                                *)
LEMMA TurnOver ==
  ASSUME Consistent, NEW c \in Coros, Running(c), NEW v, v # "run", st' = [st EXCEPT ![c] = v]
  PROVE  Turned({})
<1>1. \A x \in Coros : st'[x] = IF x = c THEN v ELSE st[x] BY DEF Consistent, Types
<1>2. Left = AtWork \ {c} BY DEF Left, Running
<1> QED BY <1>1, <1>2 DEF AtWork, Turned

-----------------------------------------------------------------------------
(* What happens to the connections.                                         *)

(* One connection changes.                                                  *)
LEMMA Updated ==
  ASSUME Consistent, NEW k \in Conns, NEW e \in Connection, conn' = [conn EXCEPT ![k] = e]
  PROVE  /\ conn' \in [Conns -> Connection] /\ conn'[k] = e
         /\ \A j \in Conns : j # k => conn'[j] = conn[j]
<1>1. conn \in [Conns -> Connection] BY DEF Consistent, Types
<1> QED BY <1>1

(* A connection that stays the same, whose frames stay as far as they are   *)
(* needed, ...                                                              *)
LEMMA Kept ==
  ASSUME NEW k \in Conns, Good(k), conn[k] \in Connection, conn'[k] = conn[k],
         \/ conn[k].reader = NoCoro /\ conn[k].writer = NoCoro /\ ~conn[k].connecting
         \/ /\ cur' = cur /\ ready' = ready
            /\ \A c \in Coros : st[c] \in {"connect", "read", "write"} => st'[c] = st[c],
         conn[k].open => ready' /\ k <= cur',
         Has("start", k) => k <= cur',
         conn[k].reader # NoCoro /\ Has("finish_read", k) => Has("finish_read", k)',
         conn[k].writer # NoCoro /\ Has("finish_write", k) => Has("finish_write", k)',
         conn[k].connecting /\ Has("finish_connect", k) => Has("finish_connect", k)',
         conn[k].closing /\ Has("handles", k) => Has("handles", k)',
         ~conn[k].closing /\ Has("close", k) => Has("close", k)',
         conn[k].connecting /\ Has("start", k) => Has("start", k)',
         Has("start", k)' => Has("start", k)
  PROVE  Good(k)'
<1>1. Sound(conn[k])' BY DEF Good, Sound
<1>2. Waits(k)'
  <2>1. /\ conn[k].reader # NoCoro => conn[k].reader \in Coros
        /\ conn[k].writer # NoCoro => conn[k].writer \in Coros
        /\ Main \in Coros
    BY TransportAssumption DEF Connection
  <2> QED BY <2>1 DEF Good, Waits
<1>3. Closes(k)' BY DEF Good, Closes
<1>4. Timed(k)' BY DEF Good, Timed
<1>5. Begins(k)' BY DEF Good, Begins
<1> QED BY <1>1, <1>2, <1>3, <1>4, <1>5 DEF Good

(* ... like the others when a callback or the top of the stack is about a   *)
(* connection k.                                                            *)
LEMMA Elsewhere ==
  ASSUME Consistent, NEW k, NEW j \in Conns, j # k, conn'[j] = conn[j],
         \/ conn[j].reader = NoCoro /\ conn[j].writer = NoCoro /\ ~conn[j].connecting
         \/ k = cur
         \/ /\ cur' = cur /\ ready' = ready
            /\ \A c \in Coros : st[c] \in {"connect", "read", "write"} => st'[c] = st[c],
         cur = 0 \/ ((ready => ready') /\ cur \in Nat /\ cur' \in Nat /\ cur' >= cur),
         \A g \in Jobs : Has(g, j)' => Has(g, j),
         \A g \in Jobs : Has(g, j) => Has(g, j)'
  PROVE  Good(j)'
<1>1. Good(j) /\ conn[j] \in Connection BY DEF Consistent, Types
<1>2. j \in Nat \ {0} BY DEF Conns
<1>3. \A g \in Jobs : Has(g, j) <=> Has(g, j)' OBVIOUS
<1>4. \/ conn[j].reader = NoCoro /\ conn[j].writer = NoCoro /\ ~conn[j].connecting
      \/ /\ cur' = cur /\ ready' = ready
         /\ \A c \in Coros : st[c] \in {"connect", "read", "write"} => st'[c] = st[c]
  BY <1>1 DEF Good, Waits
<1>5. (conn[j].open => ready' /\ j <= cur') /\ (Has("start", j) => j <= cur')
  BY <1>1, <1>2 DEF Good, Waits, Begins
<1> QED BY <1>1, <1>3, <1>4, <1>5, Kept DEF Jobs

(* The stack moves with calls G for connection k as its new frames.          *)
Moved(k, G) ==
  /\ Fits(stack', AtWork')
  /\ \A j \in Conns, g \in Jobs : j # k => (Has(g, j)' <=> Has(g, j))
  /\ \A g \in Jobs : Has(g, k)' => g \in G \/ Has(g, k)
  /\ \A g \in Jobs : g \in G => Has(g, k)'
  /\ \A g \in Jobs : Has(g, k) => Has(g, k)' \/ Top(g)

(* The frames of a connection that come with f, and those that stay.        *)
LEMMA MovesAt ==
  ASSUME Consistent, NEW k \in Conns, NEW f, NEW F, Fits(f, F),
         (stack # <<>> /\ Replace(f)) \/ Event(f), Turned(F),
         NEW G, \A j \in Conns : \A g : HasIn(f, g, j) <=> g \in G /\ j = k,
         stack = <<>> \/ stack[1].call = "resume" \/ stack[1].conn = k
  PROVE  Moved(k, G)
<1>1. /\ Fits(stack', AtWork')
      /\ \A g, j : Has(g, j)' => HasIn(f, g, j) \/ Has(g, j)
      /\ \A g, j : HasIn(f, g, j) => Has(g, j)'
      /\ \A g, j : Has(g, j) => Has(g, j)' \/ TopIs(g, j)
  BY Moves DEF Turned
<1>2. ASSUME NEW j \in Conns, j # k, NEW g \in Jobs PROVE ~TopIs(g, j) /\ ~HasIn(f, g, j)
  BY <1>2 DEF TopIs, Top, Jobs
<1>3. \A j \in Conns, g \in Jobs : j # k => (Has(g, j)' <=> Has(g, j)) BY <1>1, <1>2
<1>4. ASSUME NEW g PROVE TopIs(g, k) => Top(g) BY DEF TopIs
<1> QED BY <1>1, <1>3, <1>4 DEF Moved

(* The same for what the actions put on the stack: nothing, ...             *)
LEMMA MovesNone ==
  ASSUME Consistent, NEW k \in Conns, (stack # <<>> /\ Replace(<<>>)) \/ Event(<<>>), Turned({}),
         stack = <<>> \/ stack[1].call = "resume" \/ stack[1].conn = k
  PROVE  Moved(k, {})
<1>1. PICK f : f = <<>> OBVIOUS
<1>2. PICK F : F = {} OBVIOUS
<1>3. /\ Fits(f, F) /\ \A j \in Conns : \A g : HasIn(f, g, j) <=> g \in F /\ j = k
      /\ (stack # <<>> /\ Replace(f)) \/ Event(f)
      /\ Turned(F)
  BY <1>1, <1>2, FitsNone
<1>4. Moved(k, F) BY <1>3, MovesAt
<1> QED BY <1>2, <1>4

(* ... a call, ...                                                          *)
LEMMA MovesCall ==
  ASSUME Consistent, NEW k \in Conns, NEW g \in Jobs, NEW r \in Results,
         ~(g = "finish_connect" /\ r = "ok"),
         (stack # <<>> /\ Replace(<<Call(g, k, r)>>)) \/ Event(<<Call(g, k, r)>>), Turned({}),
         stack = <<>> \/ stack[1].call = "resume" \/ stack[1].conn = k
  PROVE  Moved(k, {g})
<1>1. PICK f : f = <<Call(g, k, r)>> OBVIOUS
<1>2. PICK F : F = {} OBVIOUS
<1>3. PICK G : G = {g} OBVIOUS
<1>4. /\ Fits(f, F) /\ \A j \in Conns : \A h : HasIn(f, h, j) <=> h \in G /\ j = k
      /\ (stack # <<>> /\ Replace(f)) \/ Event(f)
      /\ Turned(F)
  BY <1>1, <1>2, <1>3, FitsCall
<1>5. Moved(k, G) BY <1>4, MovesAt
<1> QED BY <1>3, <1>5

(* ... two of them, ...                                                     *)
LEMMA MovesCalls ==
  ASSUME Consistent, NEW k \in Conns, NEW g \in Jobs, NEW r \in Results,
         NEW h \in Jobs, NEW q \in Results,
         ~(g = "finish_connect" /\ r = "ok"), ~(h = "finish_connect" /\ q = "ok"),
         \/ stack # <<>> /\ Replace(<<Call(g, k, r), Call(h, k, q)>>)
         \/ Event(<<Call(g, k, r), Call(h, k, q)>>),
         Turned({}), stack = <<>> \/ stack[1].call = "resume" \/ stack[1].conn = k
  PROVE  Moved(k, {g, h})
<1>1. PICK f : f = <<Call(g, k, r), Call(h, k, q)>> OBVIOUS
<1>2. PICK F : F = {} OBVIOUS
<1>3. PICK G : G = {g, h} OBVIOUS
<1>4. /\ Fits(f, F) /\ \A j \in Conns : \A x : HasIn(f, x, j) <=> x \in G /\ j = k
      /\ (stack # <<>> /\ Replace(f)) \/ Event(f)
      /\ Turned(F)
  BY <1>1, <1>2, <1>3, FitsCalls
<1>5. Moved(k, G) BY <1>4, MovesAt
<1> QED BY <1>3, <1>5

(* ... those of close_on_loop, ...                                          *)
LEMMA MovesClose ==
  ASSUME Consistent, NEW k \in Conns, stack # <<>> /\ Replace(CloseCalls(k)), Turned({}),
         stack[1].call = "resume" \/ stack[1].conn = k
  PROVE  Moved(k, {"finish_read", "finish_write", "finish_connect", "handles"})
<1>1. PICK f : f = CloseCalls(k) OBVIOUS
<1>2. PICK F : F = {} OBVIOUS
<1>3. PICK G : G = {"finish_read", "finish_write", "finish_connect", "handles"} OBVIOUS
<1>4. /\ Fits(f, F) /\ \A j \in Conns : \A x : HasIn(f, x, j) <=> x \in G /\ j = k
      /\ (stack # <<>> /\ Replace(f)) \/ Event(f)
      /\ Turned(F)
  BY <1>1, <1>2, <1>3, FitsClose
<1>5. Moved(k, G) BY <1>4, MovesAt
<1> QED BY <1>3, <1>5

(* ... a resumption, ...                                                    *)
LEMMA MovesResume ==
  ASSUME Consistent, NEW k \in Conns, NEW c \in Coros, Turned({c}),
         (stack # <<>> /\ Replace(<<Resume(c)>>)) \/ Event(<<Resume(c)>>),
         stack = <<>> \/ stack[1].call = "resume" \/ stack[1].conn = k
  PROVE  Moved(k, {})
<1>1. PICK f : f = <<Resume(c)>> OBVIOUS
<1>2. PICK F : F = {c} OBVIOUS
<1>3. PICK G : G = {} OBVIOUS
<1>4. Fits(f, F) /\ \A j \in Conns : \A g : ~HasIn(f, g, j) BY <1>1, <1>2, FitsResume
<1>5. /\ (stack # <<>> /\ Replace(f)) \/ Event(f)
      /\ Turned(F) /\ \A j \in Conns : \A g : HasIn(f, g, j) <=> g \in G /\ j = k
  BY <1>1, <1>2, <1>3, <1>4
<1>6. Moved(k, G) BY <1>4, <1>5, MovesAt
<1> QED BY <1>3, <1>6

(* ... the end of a failed connect.                                         *)
LEMMA MovesFailed ==
  ASSUME Consistent, NEW k \in Conns, Turned({Main}), stack # <<>>,
         Replace(<<Call("close", k, "none")>> \o <<Resume(Main)>>),
         stack[1].call = "resume" \/ stack[1].conn = k
  PROVE  Moved(k, {"close"})
<1>1. PICK f : f = <<Call("close", k, "none")>> \o <<Resume(Main)>> OBVIOUS
<1>2. PICK F : F = {Main} OBVIOUS
<1>3. PICK G : G = {"close"} OBVIOUS
<1>4. Fits(f, F) /\ \A j \in Conns : \A x : HasIn(f, x, j) <=> x = "close" /\ j = k
  BY <1>1, <1>2, FitsFailed
<1>5. /\ (stack # <<>> /\ Replace(f)) \/ Event(f)
      /\ Turned(F) /\ \A j \in Conns : \A g : HasIn(f, g, j) <=> g \in G /\ j = k
  BY <1>1, <1>2, <1>3, <1>4
<1>6. Moved(k, G) BY <1>4, <1>5, MovesAt
<1> QED BY <1>3, <1>6

(* A call on top of the stack is for a connection.                          *)
LEMMA TopCall ==
  ASSUME Consistent, NEW g \in Jobs, Top(g)
  PROVE  /\ stack # <<>> /\ stack[1].call = g /\ stack[1].call # "resume" /\ stack[1].conn \in Conns
         /\ stack[1].result \in Results /\ Has(g, stack[1].conn)
         /\ conn[stack[1].conn] \in Connection /\ Good(stack[1].conn)
<1>1. stack # <<>> /\ stack[1].call = g /\ g # "resume" BY DEF Top, Jobs
<1>2. stack \in Seq(Frames) /\ Addressed(stack) /\ conn \in [Conns -> Connection]
  BY DEF Consistent, Types
<1>3. 1 \in DOMAIN stack /\ stack[1] \in Frames BY <1>1, <1>2
<1>4. stack[1].conn \in Conns /\ Has(g, stack[1].conn) BY <1>1, <1>2, <1>3 DEF Addressed, Has, HasIn
<1>5. stack[1].result \in Results BY <1>3 DEF Frames
<1> QED BY <1>1, <1>2, <1>4, <1>5 DEF Consistent

(* What a step has to keep.                                                 *)
LEMMA Lasts ==
  ASSUME Consistent, NEW k \in Conns, NEW G, Moved(k, G),
         conn' \in [Conns -> Connection], \A j \in Conns : j # k => conn'[j] = conn[j],
         cur' \in 0..Addresses, ready' \in BOOLEAN, ready' => cur' \in Conns,
         st' \in [Coros -> {"idle", "run", "connect", "read", "write", "done"}],
         \/ \A j \in Conns : j # k =>
               conn[j].reader = NoCoro /\ conn[j].writer = NoCoro /\ ~conn[j].connecting
         \/ k = cur
         \/ /\ cur' = cur /\ ready' = ready
            /\ \A c \in Coros : st[c] \in {"connect", "read", "write"} => st'[c] = st[c],
         cur = 0 \/ ((ready => ready') /\ cur' >= cur),
         Good(k)'
  PROVE  Consistent'
<1>0. Fits(stack', AtWork') /\ \A j \in Conns, g \in Jobs : j # k => (Has(g, j)' <=> Has(g, j))
  BY DEF Moved
<1>1. stack' \in Seq(Frames) /\ Addressed(stack') /\ Turns' /\ Succeeds' BY <1>0, Stands
<1>2. Types' BY <1>1 DEF Types
<1>3. cur \in Nat /\ cur' \in Nat BY TransportAssumption DEF Consistent, Types
<1>4. ASSUME NEW j \in Conns, j # k PROVE Good(j)'
  <2>1. conn'[j] = conn[j] /\ \A g \in Jobs : Has(g, j)' <=> Has(g, j) BY <1>0, <1>4
  <2>2. \/ conn[j].reader = NoCoro /\ conn[j].writer = NoCoro /\ ~conn[j].connecting
        \/ k = cur
        \/ /\ cur' = cur /\ ready' = ready
           /\ \A c \in Coros : st[c] \in {"connect", "read", "write"} => st'[c] = st[c]
    BY <1>4
  <2> QED BY <1>3, <1>4, <2>1, <2>2, Elsewhere
<1>5. \A j \in Conns : Good(j)' BY <1>4
<1> QED BY <1>1, <1>2, <1>5 DEF Consistent

(* The types, taken apart.                                                  *)
LEMMA Typed ==
  ASSUME Consistent
  PROVE  /\ cur \in 0..Addresses /\ cur \in Nat /\ ready \in BOOLEAN /\ Main \in Coros
         /\ ready => cur \in Conns
         /\ conn \in [Conns -> Connection]
         /\ st \in [Coros -> {"idle", "run", "connect", "read", "write", "done"}]
BY TransportAssumption DEF Consistent, Types

-----------------------------------------------------------------------------
(* What is called back.                                                     *)

(* A call with nothing to do for its connection.                            *)
LEMMA NothingDone ==
  ASSUME Consistent, NEW g \in Jobs, Top(g), Replace(<<>>), conn' = conn, st' = st, cur' = cur,
         ready' = ready, NEW k, k = stack[1].conn, g # "handles",
         g = "finish_read" => conn[k].reader = NoCoro,
         g = "finish_write" => conn[k].writer = NoCoro,
         g \in {"finish_connect", "start"} => ~conn[k].connecting,
         g = "close" => conn[k].closing
  PROVE  Consistent'
<1>1. /\ stack # <<>> /\ stack[1].call = g /\ stack[1].call # "resume" /\ k \in Conns
      /\ conn[k] \in Connection /\ Good(k)
  BY TopCall
<1>2. Turned({}) BY <1>1, TurnsOn
<1>3. Moved(k, {}) BY <1>1, <1>2, MovesNone
<1>4. \A h \in Jobs : h # g => (Has(h, k)' <=> Has(h, k)) BY <1>1, <1>3 DEF Moved, Top
<1>5. \A h \in Jobs : Has(h, k)' => Has(h, k) BY <1>3 DEF Moved
<1>6. (conn[k].open => ready /\ k <= cur) /\ (Has("start", k) => k <= cur)
  BY <1>1 DEF Good, Waits, Begins
<1>7. Good(k)' BY <1>1, <1>4, <1>5, <1>6, Kept DEF Jobs
<1> QED BY <1>1, <1>3, <1>7, Lasts, Typed

(* A read that is over.                                                     *)
LEMMA FinishReadStep == ASSUME Consistent, FinishRead PROVE Consistent'
<1> PICK k : k = stack[1].conn OBVIOUS
<1> PICK d : d = conn[k] OBVIOUS
<1>0. "finish_read" \in Jobs BY DEF Jobs
<1>1. /\ stack # <<>> /\ stack[1].call = "finish_read" /\ k \in Conns /\ d \in Connection /\ Good(k)
  BY <1>0, TopCall DEF FinishRead
<1>2. cur' = cur /\ ready' = ready /\ Top("finish_read") BY DEF FinishRead, Others
<1>3. CASE d.reader = NoCoro
  <2>1. Replace(<<>>) /\ conn' = conn /\ st' = st BY <1>3 DEF FinishRead
  <2> QED BY <1>0, <1>2, <1>3, <2>1, NothingDone
<1>4. CASE d.reader # NoCoro
  <2>1. PICK c : c = d.reader OBVIOUS
  <2>2. PICK e : e = ReadOver(d) OBVIOUS
  <2>3. /\ conn' = [conn EXCEPT ![k] = e] /\ GoesOn(c, stack[1].result) /\ Replace(<<Resume(c)>>)
    BY <1>1, <1>4, <2>1, <2>2, Typed DEF FinishRead
  <2>4. c \in Coros /\ st[c] = "read" /\ k = cur /\ ready
    BY <1>1, <1>4, <2>1 DEF Good, Waits, Connection
  <2>5. st' = [st EXCEPT ![c] = "run"] BY <2>3, <2>4 DEF GoesOn, Suspended
  <2>6. Turned({c}) BY <1>1, <2>4, <2>5, TurnTo
  <2>7. Moved(k, {}) BY <1>1, <2>3, <2>4, <2>6, MovesResume
  <2>8. \A g \in Jobs : g # "finish_read" => (Has(g, k)' <=> Has(g, k)) BY <1>1, <2>7 DEF Moved, Top
  <2>9. /\ e \in Connection /\ e.reader = NoCoro /\ e.rtimer = FALSE
        /\ e.closing = d.closing /\ e.open = d.open /\ e.handles = d.handles /\ e.keep = d.keep
        /\ e.count = d.count /\ e.writes = d.writes /\ e.writer = d.writer /\ e.wtimer = d.wtimer
        /\ e.connecting = d.connecting /\ e.request = d.request
    <3>1. e \in Connection BY <1>1, <2>2 DEF ReadOver, Connection
    <3>2. /\ e.reader = NoCoro /\ e.rtimer = FALSE
          /\ e.closing = d.closing /\ e.open = d.open /\ e.handles = d.handles /\ e.keep = d.keep
          /\ e.count = d.count /\ e.writes = d.writes /\ e.writer = d.writer /\ e.wtimer = d.wtimer
          /\ e.connecting = d.connecting /\ e.request = d.request
      BY <1>1, <2>2 DEF ReadOver, Connection
    <3> QED BY <3>1, <3>2
  <2>10. conn' \in [Conns -> Connection] /\ conn'[k] = e /\ \A j \in Conns : j # k => conn'[j] = conn[j]
    BY <1>1, <2>3, <2>9, Updated
  <2>11. \A x \in Coros : st'[x] = IF x = c THEN "run" ELSE st[x] BY <2>5, Typed
  <2>12. Good(k)'
    <3>1. Sound(e) BY <1>1, <2>9 DEF Good, Sound
    <3>2. Waits(k)'
      <4>1. /\ ~d.connecting /\ (d.open => k <= cur)
            /\ d.writer # NoCoro => d.writer \in Coros /\ d.writer # c /\ st[d.writer] = "write"
        BY <1>1, <2>4 DEF Good, Waits, Connection
      <4> QED BY <1>2, <2>4, <2>9, <2>10, <2>11, <4>1 DEF Waits
    <3>3. Closes(k)' BY <1>1, <2>8, <2>9, <2>10 DEF Good, Closes, Jobs
    <3>4. Timed(k)' BY <1>1, <2>4, <2>8, <2>9, <2>10 DEF Good, Timed, Waits, Jobs
    <3>5. Begins(k)' BY <1>1, <1>2, <2>8, <2>9, <2>10 DEF Good, Begins, Jobs
    <3> QED BY <2>10, <3>1, <3>2, <3>3, <3>4, <3>5 DEF Good
  <2>13. st' \in [Coros -> {"idle", "run", "connect", "read", "write", "done"}] BY <2>5, Typed
  <2> QED BY <1>1, <1>2, <2>4, <2>7, <2>10, <2>12, <2>13, Lasts, Typed
<1> QED BY <1>3, <1>4

(* A write that is over; its request, if there is one, can no longer        *)
(* complete it.                                                             *)
LEMMA FinishWriteStep == ASSUME Consistent, FinishWrite PROVE Consistent'
<1> PICK k : k = stack[1].conn OBVIOUS
<1> PICK d : d = conn[k] OBVIOUS
<1>0. "finish_write" \in Jobs BY DEF Jobs
<1>1. /\ stack # <<>> /\ stack[1].call = "finish_write" /\ k \in Conns /\ d \in Connection /\ Good(k)
  BY <1>0, TopCall DEF FinishWrite
<1>2. cur' = cur /\ ready' = ready /\ Top("finish_write") BY DEF FinishWrite, Others
<1>3. CASE d.writer = NoCoro
  <2>1. Replace(<<>>) /\ conn' = conn /\ st' = st BY <1>3 DEF FinishWrite
  <2> QED BY <1>0, <1>2, <1>3, <2>1, NothingDone
<1>4. CASE d.writer # NoCoro
  <2>1. PICK c : c = d.writer OBVIOUS
  <2>2. PICK e : e = WriteOver(d) OBVIOUS
  <2>3. /\ conn' = [conn EXCEPT ![k] = e] /\ GoesOn(c, stack[1].result) /\ Replace(<<Resume(c)>>)
    BY <1>1, <1>4, <2>1, <2>2, Typed DEF FinishWrite
  <2>4. c \in Coros /\ st[c] = "write" /\ k = cur /\ ready
    BY <1>1, <1>4, <2>1 DEF Good, Waits, Connection
  <2>5. st' = [st EXCEPT ![c] = "run"] BY <2>3, <2>4 DEF GoesOn, Suspended
  <2>6. Turned({c}) BY <1>1, <2>4, <2>5, TurnTo
  <2>7. Moved(k, {}) BY <1>1, <2>3, <2>4, <2>6, MovesResume
  <2>8. \A g \in Jobs : g # "finish_write" => (Has(g, k)' <=> Has(g, k)) BY <1>1, <2>7 DEF Moved, Top
  <2>9. PICK w : w = [i \in DOMAIN d.writes |-> FALSE] OBVIOUS
  <2>10. d.writes \in Seq(BOOLEAN) BY <1>1 DEF Connection
  <2>11. w \in Seq(BOOLEAN)
    <3>1. PICK n \in Nat : DOMAIN d.writes = 1..n BY <2>10
    <3>2. w = [i \in 1..n |-> FALSE] BY <2>9, <3>1
    <3>3. w \in [1..n -> BOOLEAN] BY <3>2
    <3> QED BY <3>3
  <2>12. \A i \in DOMAIN w : ~w[i] BY <2>9
  <2>13. e = [d EXCEPT !.writer = NoCoro, !.wtimer = FALSE, !.writes = w]
    BY <1>1, <2>2, <2>9 DEF WriteOver, Connection
  <2>14. /\ e \in Connection /\ e.writer = NoCoro /\ e.wtimer = FALSE /\ e.writes = w
         /\ e.closing = d.closing /\ e.open = d.open /\ e.handles = d.handles /\ e.keep = d.keep
         /\ e.count = d.count /\ e.reader = d.reader /\ e.rtimer = d.rtimer
         /\ e.connecting = d.connecting /\ e.request = d.request
    <3>1. e \in Connection
      <4>1. PICK f : f = [d EXCEPT !.writer = NoCoro] OBVIOUS
      <4>2. PICK g : g = [f EXCEPT !.wtimer = FALSE] OBVIOUS
      <4>3. f \in Connection BY <1>1, <2>11, <4>1 DEF Connection
      <4>4. g \in Connection BY <1>1, <2>11, <4>3, <4>2 DEF Connection
      <4>5. e = [g EXCEPT !.writes = w] BY <2>13, <4>1, <4>2
      <4> QED BY <1>1, <2>11, <4>4, <4>5 DEF Connection
    <3>2. /\ e.writer = NoCoro /\ e.wtimer = FALSE /\ e.writes = w
          /\ e.closing = d.closing /\ e.open = d.open /\ e.handles = d.handles /\ e.keep = d.keep
          /\ e.count = d.count /\ e.reader = d.reader /\ e.rtimer = d.rtimer
          /\ e.connecting = d.connecting /\ e.request = d.request
      BY <1>1, <2>11, <2>13 DEF Connection
    <3> QED BY <3>1, <3>2
  <2>15. conn' \in [Conns -> Connection] /\ conn'[k] = e /\ \A j \in Conns : j # k => conn'[j] = conn[j]
    BY <1>1, <2>3, <2>14, Updated
  <2>16. \A x \in Coros : st'[x] = IF x = c THEN "run" ELSE st[x] BY <2>5, Typed
  <2>17. Good(k)'
    <3>1. Sound(e) BY <1>1, <2>12, <2>14 DEF Good, Sound
    <3>2. Waits(k)'
      <4>1. /\ ~d.connecting /\ (d.open => k <= cur)
            /\ d.reader # NoCoro => d.reader \in Coros /\ d.reader # c /\ st[d.reader] = "read"
        BY <1>1, <2>4 DEF Good, Waits, Connection
      <4> QED BY <1>2, <2>4, <2>14, <2>15, <2>16, <4>1 DEF Waits
    <3>3. Closes(k)' BY <1>1, <2>8, <2>14, <2>15 DEF Good, Closes, Jobs
    <3>4. Timed(k)' BY <1>1, <2>4, <2>8, <2>14, <2>15 DEF Good, Timed, Waits, Jobs
    <3>5. Begins(k)' BY <1>1, <1>2, <2>8, <2>14, <2>15 DEF Good, Begins, Jobs
    <3> QED BY <2>15, <3>1, <3>2, <3>3, <3>4, <3>5 DEF Good
  <2>18. st' \in [Coros -> {"idle", "run", "connect", "read", "write", "done"}] BY <2>5, Typed
  <2> QED BY <1>1, <1>2, <2>4, <2>7, <2>15, <2>17, <2>18, Lasts, Typed
<1> QED BY <1>3, <1>4

(* A connect that is over: a connection that is not closing is open, or its *)
(* close comes next.                                                        *)
LEMMA FinishConnectStep == ASSUME Consistent, FinishConnect PROVE Consistent'
<1> PICK k : k = stack[1].conn OBVIOUS
<1> PICK d : d = conn[k] OBVIOUS
<1> PICK r : r = stack[1].result OBVIOUS
<1>0. "finish_connect" \in Jobs BY DEF Jobs
<1>1. /\ stack # <<>> /\ stack[1].call = "finish_connect" /\ k \in Conns /\ d \in Connection /\ Good(k)
  BY <1>0, TopCall DEF FinishConnect
<1>2. cur' = cur /\ Top("finish_connect") /\ ready' = (ready \/ (d.connecting /\ r = "ok"))
  BY DEF FinishConnect, ConnectPending
<1>3. CASE ~d.connecting
  <2>1. Replace(<<>>) /\ conn' = conn /\ st' = st BY <1>3 DEF FinishConnect, ConnectPending
  <2>2. ready' = ready BY <1>2, <1>3, Typed
  <2> QED BY <1>0, <1>2, <1>3, <2>1, <2>2, NothingDone
<1>4. CASE d.connecting
  <2>1. PICK e : e = [d EXCEPT !.connecting = FALSE, !.rtimer = FALSE, !.open = (r = "ok") \/ @] OBVIOUS
  <2>2. /\ conn' = [conn EXCEPT ![k] = e] /\ GoesOn(Main, r)
        /\ Replace((IF r = "ok" THEN <<>> ELSE <<Call("close", k, "none")>>) \o <<Resume(Main)>>)
    BY <1>4, <2>1 DEF FinishConnect, ConnectPending
  <2>3. Main \in Coros /\ st[Main] = "connect" /\ k = cur /\ ~ready
    BY <1>1, <1>4, Typed DEF Good, Waits
  <2>4. d.reader = NoCoro /\ d.writer = NoCoro /\ ~d.open BY <1>1, <2>3 DEF Good, Waits
  <2>5. st' = [st EXCEPT ![Main] = "run"] BY <2>2, <2>3 DEF GoesOn, Suspended
  <2>6. Turned({Main}) BY <1>1, <2>3, <2>5, TurnTo
  <2>7. /\ e \in Connection /\ e.connecting = FALSE /\ e.rtimer = FALSE /\ e.open = (r = "ok")
        /\ e.closing = d.closing /\ e.handles = d.handles /\ e.keep = d.keep /\ e.count = d.count
        /\ e.reader = d.reader /\ e.writer = d.writer /\ e.writes = d.writes /\ e.wtimer = d.wtimer
        /\ e.request = d.request
    <3>1. PICK b \in BOOLEAN : b = (r = "ok") OBVIOUS
    <3>2. (r = "ok" \/ d.open) = b BY <2>4, <3>1
    <3>3. e = [d EXCEPT !.connecting = FALSE, !.rtimer = FALSE, !.open = b]
      BY <2>1, <3>2
    <3>4. /\ e \in Connection /\ e.connecting = FALSE /\ e.rtimer = FALSE /\ e.open = b
          /\ e.closing = d.closing /\ e.handles = d.handles /\ e.keep = d.keep /\ e.count = d.count
          /\ e.reader = d.reader /\ e.writer = d.writer /\ e.writes = d.writes /\ e.wtimer = d.wtimer
          /\ e.request = d.request
      <4>1. d \in Connection BY <1>1
      <4>2. e \in Connection
        <5>1. PICK f : f = [d EXCEPT !.connecting = FALSE] OBVIOUS
        <5>2. PICK g : g = [f EXCEPT !.rtimer = FALSE] OBVIOUS
        <5>3. f \in Connection BY <4>1, <5>1 DEF Connection
        <5>4. g \in Connection BY <5>2, <5>3 DEF Connection
        <5>5. e = [g EXCEPT !.open = b] BY <3>3, <5>1, <5>2
        <5> QED BY <5>4, <5>5 DEF Connection
      <4>3. /\ e.connecting = FALSE /\ e.rtimer = FALSE /\ e.open = b
            /\ e.closing = d.closing /\ e.handles = d.handles /\ e.keep = d.keep /\ e.count = d.count
            /\ e.reader = d.reader /\ e.writer = d.writer /\ e.writes = d.writes /\ e.wtimer = d.wtimer
            /\ e.request = d.request
        BY <4>1, <3>3 DEF Connection
      <4> QED BY <4>2, <4>3
    <3> QED BY <3>1, <3>4
  <2>8. conn' \in [Conns -> Connection] /\ conn'[k] = e /\ \A j \in Conns : j # k => conn'[j] = conn[j]
    BY <1>1, <2>2, <2>7, Updated
  <2>9. \A x \in Coros : st'[x] = IF x = Main THEN "run" ELSE st[x] BY <2>5, Typed
  <2>10. st' \in [Coros -> {"idle", "run", "connect", "read", "write", "done"}] BY <2>5, Typed
  <2>11. Waits(k)' BY <1>1, <1>2, <2>3, <2>4, <2>7, <2>8, <2>9, Typed, <1>4 DEF Good, Waits
  <2>12. CASE r = "ok"
    <3>1. PICK f : f = <<Resume(Main)>> OBVIOUS
    <3>2. <<>> \o f = f BY <3>1
    <3>3. Replace(<<Resume(Main)>>) BY <2>2, <2>12, <3>1, <3>2
    <3>4. Moved(k, {}) BY <1>1, <2>3, <2>6, <3>3, MovesResume
    <3>5. \A g \in Jobs : g # "finish_connect" => (Has(g, k)' <=> Has(g, k))
      BY <1>1, <3>4 DEF Moved, Top
    <3>6. ~d.closing /\ d.handles = Handles
      <4>1. 1 \in DOMAIN stack BY <1>1 DEF Consistent, Types
      <4> QED BY <1>1, <2>12, <4>1 DEF Consistent, Succeeds
    <3>7. Sound(e) BY <1>1, <2>7, <3>6 DEF Good, Sound
    <3>8. Closes(k)' BY <2>7, <2>8, <3>6 DEF Closes
    <3>9. Timed(k)' BY <1>1, <2>4, <2>7, <2>8, <3>5 DEF Good, Timed, Jobs
    <3>10. Begins(k)' BY <1>1, <1>2, <2>7, <2>8, <3>5 DEF Good, Begins, Jobs
    <3>11. Good(k)' BY <2>8, <2>11, <3>7, <3>8, <3>9, <3>10 DEF Good
    <3>12. ready' = TRUE BY <1>2, <1>4, <2>12
    <3> QED BY <1>1, <1>2, <2>3, <2>8, <2>10, <3>4, <3>11, <3>12, Lasts, Typed
  <2>13. CASE r # "ok"
    <3>1. Replace(<<Call("close", k, "none")>> \o <<Resume(Main)>>) BY <2>2, <2>13
    <3>2. Moved(k, {"close"}) BY <1>1, <2>6, <3>1, MovesFailed
    <3>3. \A g \in Jobs : g # "finish_connect" /\ g # "close" => (Has(g, k)' <=> Has(g, k))
      BY <1>1, <3>2 DEF Moved, Top
    <3>4. Has("close", k)' BY <3>2 DEF Moved, Jobs
    <3>5. Sound(e) BY <1>1, <2>7, <2>13 DEF Good, Sound
    <3>6. Closes(k)' BY <1>1, <2>4, <2>7, <2>8, <3>3 DEF Good, Closes, Jobs
    <3>7. Timed(k)' BY <3>4 DEF Timed
    <3>8. Begins(k)' BY <1>1, <1>2, <2>7, <2>8, <3>3 DEF Good, Begins, Jobs
    <3>9. Good(k)' BY <2>8, <2>11, <3>5, <3>6, <3>7, <3>8 DEF Good
    <3>10. ready' = ready BY <1>2, <2>13, Typed
    <3> QED BY <1>1, <1>2, <2>3, <2>8, <2>10, <3>2, <3>9, <3>10, Lasts, Typed
  <2> QED BY <2>12, <2>13
<1> QED BY <1>3, <1>4

(* close_on_loop begins.                                                    *)
LEMMA CloseOnLoopStep == ASSUME Consistent, CloseOnLoop PROVE Consistent'
<1> PICK k : k = stack[1].conn OBVIOUS
<1> PICK d : d = conn[k] OBVIOUS
<1>0. "close" \in Jobs BY DEF Jobs
<1>1. /\ stack # <<>> /\ stack[1].call = "close" /\ stack[1].call # "resume" /\ k \in Conns
      /\ d \in Connection /\ Good(k)
  BY <1>0, TopCall DEF CloseOnLoop
<1>2. cur' = cur /\ ready' = ready /\ st' = st /\ Top("close") BY DEF CloseOnLoop, Others
<1>3. CASE d.closing
  <2>1. Replace(<<>>) /\ conn' = conn BY <1>3 DEF CloseOnLoop
  <2> QED BY <1>0, <1>2, <1>3, <2>1, NothingDone
<1>4. CASE ~d.closing
  <2>1. PICK e : e = [d EXCEPT !.closing = TRUE, !.open = FALSE] OBVIOUS
  <2>2. conn' = [conn EXCEPT ![k].closing = TRUE, ![k].open = FALSE] /\ Replace(CloseCalls(k))
    BY <1>4 DEF CloseOnLoop
  <2>3. conn' = [conn EXCEPT ![k] = e] BY <1>1, <2>1, <2>2, Typed
  <2>4. Turned({}) BY <1>1, <1>2, TurnsOn
  <2>5. Moved(k, {"finish_read", "finish_write", "finish_connect", "handles"})
    BY <1>1, <2>2, <2>4, MovesClose
  <2>6. /\ e \in Connection /\ e.closing = TRUE /\ e.open = FALSE
        /\ e.handles = d.handles /\ e.keep = d.keep /\ e.count = d.count /\ e.request = d.request
        /\ e.reader = d.reader /\ e.rtimer = d.rtimer /\ e.writer = d.writer /\ e.writes = d.writes
        /\ e.wtimer = d.wtimer /\ e.connecting = d.connecting
    <3>1. e \in Connection BY <1>1, <2>1 DEF Connection
    <3>2. /\ e.closing = TRUE /\ e.open = FALSE
          /\ e.handles = d.handles /\ e.keep = d.keep /\ e.count = d.count /\ e.request = d.request
          /\ e.reader = d.reader /\ e.rtimer = d.rtimer /\ e.writer = d.writer /\ e.writes = d.writes
          /\ e.wtimer = d.wtimer /\ e.connecting = d.connecting
      BY <1>1, <2>1 DEF Connection
    <3> QED BY <3>1, <3>2
  <2>7. conn' \in [Conns -> Connection] /\ conn'[k] = e /\ \A j \in Conns : j # k => conn'[j] = conn[j]
    BY <1>1, <2>3, <2>6, Updated
  <2>8. /\ Has("finish_read", k)' /\ Has("finish_write", k)' /\ Has("finish_connect", k)'
        /\ Has("handles", k)' /\ (Has("start", k)' => Has("start", k))
    BY <2>5 DEF Moved, Jobs
  <2>9. Sound(e) BY <1>1, <2>6 DEF Good, Sound
  <2>10. Waits(k)' BY <1>1, <1>2, <2>6, <2>7 DEF Good, Waits
  <2>11. Closes(k)' BY <2>8 DEF Closes
  <2>12. Timed(k)' BY <2>6, <2>7 DEF Timed
  <2>13. Begins(k)' BY <1>1, <1>2, <2>6, <2>7, <2>8 DEF Good, Begins
  <2>14. Good(k)' BY <2>7, <2>9, <2>10, <2>11, <2>12, <2>13 DEF Good
  <2> QED BY <1>1, <1>2, <2>5, <2>7, <2>14, Lasts, Typed
<1> QED BY <1>3, <1>4

(* The handles of a connection are its own.                                 *)
LEMMA HandlesFinite == \A S \in SUBSET Handles : IsFiniteSet(S) /\ Cardinality(S) \in Nat
<1>1. IsFiniteSet(Handles)
  <2>1. IsFiniteSet({}) BY FS_EmptySet
  <2>2. IsFiniteSet({} \cup {"tcp"}) BY <2>1, FS_AddElement
  <2>3. IsFiniteSet(({} \cup {"tcp"}) \cup {"read_timer"}) BY <2>2, FS_AddElement
  <2>4. IsFiniteSet((({} \cup {"tcp"}) \cup {"read_timer"}) \cup {"write_timer"})
    BY <2>3, FS_AddElement
  <2>5. (({} \cup {"tcp"}) \cup {"read_timer"}) \cup {"write_timer"} = Handles BY DEF Handles
  <2> QED BY <2>4, <2>5
<1> QED BY <1>1, FS_Subset, FS_CardinalityType

(* They are being closed.                                                   *)
LEMMA CloseHandlesStep == ASSUME Consistent, CloseHandles PROVE Consistent'
<1> PICK k : k = stack[1].conn OBVIOUS
<1> PICK d : d = conn[k] OBVIOUS
<1>0. "handles" \in Jobs BY DEF Jobs
<1>1. /\ stack # <<>> /\ stack[1].call = "handles" /\ stack[1].call # "resume" /\ k \in Conns
      /\ d \in Connection /\ Good(k)
  BY <1>0, TopCall DEF CloseHandles
<1>2. cur' = cur /\ ready' = ready /\ st' = st /\ Top("handles") /\ Replace(<<>>)
  BY DEF CloseHandles, Others
<1>3. PICK e : e = HandlesClosing(d) OBVIOUS
<1>4. conn' = [conn EXCEPT ![k] = e] BY <1>1, <1>3, Typed DEF CloseHandles
<1>5. Turned({}) BY <1>1, <1>2, TurnsOn
<1>6. Moved(k, {}) BY <1>1, <1>2, <1>5, MovesNone
<1>7. PICK n \in Nat : n = Cardinality(d.handles) BY <1>1, HandlesFinite DEF Connection
<1>8. PICK b \in BOOLEAN : b <=> d.handles # {} OBVIOUS
<1>9. e = [d EXCEPT !.count = n, !.keep = b] BY <1>3, <1>7, <1>8 DEF HandlesClosing
<1>10. /\ e \in Connection /\ e.count = n /\ (e.keep <=> d.handles # {})
       /\ e.closing = d.closing /\ e.open = d.open /\ e.handles = d.handles /\ e.request = d.request
       /\ e.reader = d.reader /\ e.rtimer = d.rtimer /\ e.writer = d.writer /\ e.writes = d.writes
       /\ e.wtimer = d.wtimer /\ e.connecting = d.connecting
  <2>1. e \in Connection
    <3>1. PICK f : f = [d EXCEPT !.count = n] OBVIOUS
    <3>2. f \in Connection BY <1>1, <3>1 DEF Connection
    <3>3. e = [f EXCEPT !.keep = b] BY <1>9, <3>1
    <3> QED BY <3>2, <3>3 DEF Connection
  <2>2. /\ e.count = n /\ (e.keep <=> d.handles # {})
        /\ e.closing = d.closing /\ e.open = d.open /\ e.handles = d.handles /\ e.request = d.request
        /\ e.reader = d.reader /\ e.rtimer = d.rtimer /\ e.writer = d.writer /\ e.writes = d.writes
        /\ e.wtimer = d.wtimer /\ e.connecting = d.connecting
    BY <1>1, <1>8, <1>9 DEF Connection
  <2> QED BY <2>1, <2>2
<1>11. conn' \in [Conns -> Connection] /\ conn'[k] = e /\ \A j \in Conns : j # k => conn'[j] = conn[j]
  BY <1>1, <1>4, <1>10, Updated
<1>12. \A g \in Jobs : g # "handles" => (Has(g, k)' <=> Has(g, k)) BY <1>1, <1>6 DEF Moved, Top
<1>13. Sound(e) BY <1>1, <1>10 DEF Good, Sound
<1>14. Waits(k)' BY <1>1, <1>2, <1>10, <1>11 DEF Good, Waits
<1>15. Closes(k)' BY <1>1, <1>7, <1>10, <1>11, <1>12 DEF Good, Closes, Jobs
<1>16. Timed(k)' BY <1>1, <1>10, <1>11, <1>12 DEF Good, Timed, Jobs
<1>17. Begins(k)' BY <1>1, <1>2, <1>10, <1>11, <1>12 DEF Good, Begins, Jobs
<1>18. Good(k)' BY <1>11, <1>13, <1>14, <1>15, <1>16, <1>17 DEF Good
<1> QED BY <1>1, <1>2, <1>6, <1>11, <1>18, Lasts, Typed

(* A connection at rest: with an empty stack a closing one has nobody       *)
(* waiting, and counts its handles.                                         *)
LEMMA AtRest ==
  ASSUME Consistent, stack = <<>>, NEW k \in Conns
  PROVE  /\ conn[k] \in Connection /\ Good(k) /\ \A g, j : ~Has(g, j)
         /\ conn[k].closing => /\ conn[k].reader = NoCoro /\ conn[k].writer = NoCoro
                               /\ ~conn[k].connecting /\ ~conn[k].open
                               /\ conn[k].count = Cardinality(conn[k].handles)
         /\ ~conn[k].closing => /\ conn[k].rtimer <=> (conn[k].connecting \/ conn[k].reader # NoCoro)
                                /\ conn[k].wtimer <=> conn[k].writer # NoCoro
<1>1. conn[k] \in Connection /\ Good(k) BY DEF Consistent, Types
<1>2. \A g, j : ~Has(g, j) BY FitsNone DEF Has
<1> QED BY <1>1, <1>2 DEF Good, Closes, Timed, Sound

(* One of them is closed; with the last the connection lets go of itself.   *)
LEMMA CloseCallbackStep ==
  ASSUME Consistent, NEW k \in Conns, NEW h \in Handles, CloseCallback(k, h)
  PROVE  Consistent'
<1> PICK d : d = conn[k] OBVIOUS
<1>1. /\ stack = <<>> /\ Event(<<>>) /\ d.closing /\ h \in d.handles
      /\ cur' = cur /\ ready' = ready /\ st' = st
  BY DEF CloseCallback, Event, Others
<1>2. /\ d \in Connection /\ Good(k) /\ d.reader = NoCoro /\ d.writer = NoCoro /\ ~d.connecting
      /\ ~d.open /\ d.count = Cardinality(d.handles) /\ \A g, j : ~Has(g, j)
  BY <1>1, AtRest
<1>3. PICK H \in SUBSET Handles : H = d.handles \ {h} BY <1>2 DEF Connection
<1>4. /\ IsFiniteSet(H) /\ IsFiniteSet(d.handles) /\ Cardinality(H) \in Nat
      /\ Cardinality(d.handles) \in Nat
  BY <1>2, <1>3, HandlesFinite DEF Connection
<1>5. Cardinality(H) = d.count - 1 BY <1>1, <1>2, <1>3, <1>4, FS_RemoveElement
<1>6. d.count = 1 => H = {} BY <1>4, <1>5, FS_EmptySet
<1>7. PICK n \in Nat : n = d.count - 1 BY <1>4, <1>5
<1>8. PICK b \in BOOLEAN : b = (d.keep /\ d.count # 1) BY <1>2 DEF Connection
<1>9. PICK e : e = [d EXCEPT !.handles = H, !.count = n, !.keep = b] OBVIOUS
<1>10. conn' = [conn EXCEPT ![k] = e]
  <2>1. conn' = [conn EXCEPT ![k].handles = @ \ {h}, ![k].count = @ - 1,
                             ![k].keep = @ /\ conn[k].count # 1]
    BY DEF CloseCallback
  <2> QED BY <1>2, <1>3, <1>7, <1>8, <1>9, <2>1, Typed DEF Connection
<1>11. Turned({}) BY <1>1, TurnsOn
<1>12. Moved(k, {}) BY <1>1, <1>11, MovesNone
<1>13. /\ e \in Connection /\ e.count = n /\ e.keep = b /\ e.handles = H
       /\ e.closing = d.closing /\ e.open = d.open /\ e.request = d.request
       /\ e.reader = d.reader /\ e.rtimer = d.rtimer /\ e.writer = d.writer /\ e.writes = d.writes
       /\ e.wtimer = d.wtimer /\ e.connecting = d.connecting
  <2>1. e \in Connection BY <1>2, <1>9 DEF Connection
  <2>2. /\ e.count = n /\ e.keep = b /\ e.handles = H
        /\ e.closing = d.closing /\ e.open = d.open /\ e.request = d.request
        /\ e.reader = d.reader /\ e.rtimer = d.rtimer /\ e.writer = d.writer /\ e.writes = d.writes
        /\ e.wtimer = d.wtimer /\ e.connecting = d.connecting
    BY <1>2, <1>9 DEF Connection
  <2> QED BY <2>1, <2>2
<1>14. conn' \in [Conns -> Connection] /\ conn'[k] = e /\ \A j \in Conns : j # k => conn'[j] = conn[j]
  BY <1>10, <1>13, Updated
<1>15. H # {} => b
  <2>1. d.handles # {} => d.keep BY <1>2 DEF Good, Sound
  <2> QED BY <1>1, <1>6, <1>8, <2>1
<1>16. Sound(e) BY <1>2, <1>13, <1>15 DEF Good, Sound
<1>17. Waits(k)' BY <1>2, <1>13, <1>14 DEF Waits
<1>18. Closes(k)' BY <1>2, <1>5, <1>7, <1>13, <1>14 DEF Closes
<1>19. Timed(k)' BY <1>1, <1>13, <1>14 DEF Timed
<1>20. Begins(k)' BY <1>2, <1>12 DEF Moved, Begins, Jobs
<1>21. Good(k)' BY <1>14, <1>16, <1>17, <1>18, <1>19, <1>20 DEF Good
<1> QED BY <1>1, <1>12, <1>14, <1>21, Lasts, Typed

-----------------------------------------------------------------------------
(* Connecting.                                                              *)

(* Something is called, and the connections stay as they are.               *)
LEMMA OnlyCalled ==
  ASSUME Consistent, NEW k \in Conns, stack = <<>>, NEW G, Moved(k, G), "start" \notin G,
         conn' = conn, cur' = cur, ready' = ready,
         st' \in [Coros -> {"idle", "run", "connect", "read", "write", "done"}],
         \A c \in Coros : st[c] \in {"connect", "read", "write"} => st'[c] = st[c]
  PROVE  Consistent'
<1>1. conn[k] \in Connection /\ Good(k) /\ \A g, j : ~Has(g, j) BY AtRest
<1>2. ~Has("start", k)' BY <1>1 DEF Moved, Jobs
<1>3. conn[k].open => ready' /\ k <= cur' BY <1>1 DEF Good, Waits
<1>4. Good(k)' BY <1>1, <1>2, <1>3, Kept
<1> QED BY <1>4, Lasts, Typed

(* A coroutine's first step.                                                *)
LEMMA StartStep == ASSUME Consistent, NEW c \in Coros, Start(c) PROVE Consistent'
<1>1. /\ st[c] = "idle" /\ stack = <<>> /\ Event(<<Resume(c)>>) /\ st' = [st EXCEPT ![c] = "run"]
      /\ conn' = conn /\ cur' = cur /\ ready' = ready
  BY DEF Start, Event, Others
<1>2. PICK k \in Conns : TRUE BY TransportAssumption DEF Conns
<1>3. Turned({c}) BY <1>1, TurnTo
<1>4. Moved(k, {}) BY <1>1, <1>3, MovesResume
<1>5. /\ st' \in [Coros -> {"idle", "run", "connect", "read", "write", "done"}]
      /\ \A x \in Coros : st'[x] = IF x = c THEN "run" ELSE st[x]
  BY <1>1, Typed
<1>6. \A x \in Coros : st[x] \in {"connect", "read", "write"} => st'[x] = st[x] BY <1>1, <1>5
<1> QED BY <1>1, <1>4, <1>5, <1>6, OnlyCalled

(* Before there is a connection only Main waits, and it does not while it   *)
(* runs or has not begun.                                                   *)
LEMMA NobodyWaits ==
  ASSUME Consistent, ~ready \/ cur = 0, st[Main] # "connect", NEW k \in Conns
  PROVE  conn[k].reader = NoCoro /\ conn[k].writer = NoCoro /\ ~conn[k].connecting
<1>1. Good(k) BY DEF Consistent
<1>2. k # 0 BY DEF Conns
<1> QED BY <1>1, <1>2 DEF Good, Waits

(* A new connection.                                                        *)
LEMMA Fresh ==
  /\ NewConn \in Connection /\ NewConn.keep = FALSE /\ NewConn.connecting = FALSE
  /\ NewConn.handles = {} /\ NewConn.open = FALSE /\ NewConn.closing = FALSE
  /\ NewConn.reader = NoCoro /\ NewConn.writer = NoCoro /\ NewConn.rtimer = FALSE
  /\ NewConn.wtimer = FALSE /\ NewConn.request = "none" /\ DOMAIN NewConn.writes = {}
<1>1. PICK w : w = <<>> OBVIOUS
<1>2. w \in Seq(BOOLEAN) /\ DOMAIN w = {} BY <1>1
<1>3. PICK e : e = NewConn OBVIOUS
<1>4. e = [open |-> FALSE, closing |-> FALSE, keep |-> FALSE, handles |-> {}, count |-> 0,
           connecting |-> FALSE, request |-> "none", reader |-> NoCoro, started |-> FALSE,
           rtimer |-> FALSE, writer |-> NoCoro, writes |-> w, wtimer |-> FALSE, immediate |-> 0]
  BY <1>1, <1>3 DEF NewConn
<1>5. e \in Connection BY <1>2, <1>4 DEF Connection
<1>6. e.writes = w BY <1>4
<1>7. /\ e.keep = FALSE /\ e.connecting = FALSE /\ e.handles = {}
      /\ e.open = FALSE /\ e.closing = FALSE /\ e.reader = NoCoro /\ e.writer = NoCoro
      /\ e.rtimer = FALSE /\ e.wtimer = FALSE /\ e.request = "none"
  BY <1>4
<1> QED BY <1>2, <1>3, <1>5, <1>6, <1>7

(* An attempt for the next address.                                         *)
LEMMA AttemptStep == ASSUME Consistent, Attempt PROVE Consistent'
<1>1. PICK k : k = cur + 1 OBVIOUS
<1>2. /\ Running(Main) /\ ~ready /\ cur < Addresses /\ cur' = k /\ ready' = ready
      /\ st' = [st EXCEPT ![Main] = "connect"]
  BY <1>1 DEF Attempt
<1>3. PICK made \in Made :
        /\ conn' = [conn EXCEPT ![k] = [[NewConn EXCEPT !.keep = TRUE, !.connecting = TRUE]
                                          EXCEPT !.handles = made]]
        /\ IF made # Handles THEN Replace(<<Call("finish_connect", k, "connect")>>)
           ELSE Replace(<<Call("start", k, "none")>>) \/ Replace(ObserverCloses(k))
  BY <1>1 DEF Attempt
<1>4. made \in SUBSET Handles BY DEF Made, Handles
<1>5. /\ k \in Conns /\ cur' \in 0..Addresses /\ cur' >= cur /\ cur \in Nat /\ k \in Nat
      /\ ready \in BOOLEAN
  BY <1>1, <1>2, TransportAssumption, Typed DEF Conns
<1>6. stack # <<>> /\ stack[1].call = "resume" /\ st[Main] = "run" BY <1>2 DEF Running, Top
<1>7. Turned({}) BY <1>2, TurnOver, Typed
<1>8. PICK n : n = NewConn OBVIOUS
<1>9. PICK e : e = [[n EXCEPT !.keep = TRUE, !.connecting = TRUE] EXCEPT !.handles = made] OBVIOUS
<1>10. /\ e \in Connection /\ e.keep = TRUE /\ e.connecting = TRUE /\ e.handles = made
       /\ e.open = FALSE /\ e.closing = FALSE /\ e.reader = NoCoro /\ e.writer = NoCoro
       /\ e.rtimer = FALSE /\ e.wtimer = FALSE /\ e.request = "none" /\ DOMAIN e.writes = {}
  <2>1. e \in Connection BY <1>4, <1>8, <1>9, Fresh DEF Connection
  <2>2. /\ e.keep = TRUE /\ e.connecting = TRUE /\ e.handles = made
        /\ e.open = FALSE /\ e.closing = FALSE /\ e.reader = NoCoro /\ e.writer = NoCoro
        /\ e.rtimer = FALSE /\ e.wtimer = FALSE /\ e.request = "none" /\ DOMAIN e.writes = {}
    BY <1>4, <1>8, <1>9, Fresh DEF Connection
  <2> QED BY <2>1, <2>2
<1>11. conn' \in [Conns -> Connection] /\ conn'[k] = e /\ \A j \in Conns : j # k => conn'[j] = conn[j]
  BY <1>3, <1>5, <1>8, <1>9, <1>10, Updated
<1>12. /\ st' \in [Coros -> {"idle", "run", "connect", "read", "write", "done"}]
       /\ st'[Main] = "connect"
  BY <1>2, Typed
<1>13. \A j \in Conns : conn[j].reader = NoCoro /\ conn[j].writer = NoCoro /\ ~conn[j].connecting
  BY <1>2, <1>6, NobodyWaits
<1>14. ASSUME NEW G, Moved(k, G), "start" \in G \/ "finish_connect" \in G,
              "start" \in G => made = Handles
       PROVE  Consistent'
  <2>1. /\ Has("start", k)' \/ Has("finish_connect", k)'
        /\ Has("start", k)' => made = Handles
    <3>1. ~Has("start", k)
      <4>1. Good(k) BY <1>5 DEF Consistent
      <4> QED BY <1>1, <1>5, <4>1 DEF Good, Begins
    <3> QED BY <1>14, <3>1 DEF Moved, Jobs
  <2>2. Sound(e) BY <1>10 DEF Sound
  <2>3. Waits(k)' BY <1>2, <1>10, <1>11, <1>12 DEF Waits
  <2>4. Closes(k)' BY <1>10, <1>11 DEF Closes
  <2>5. Timed(k)' BY <1>10, <1>11, <2>1 DEF Timed
  <2>6. Begins(k)' BY <1>2, <1>5, <1>10, <1>11, <2>1 DEF Begins
  <2>7. Good(k)' BY <1>11, <2>2, <2>3, <2>4, <2>5, <2>6 DEF Good
  <2> QED BY <1>2, <1>5, <1>11, <1>12, <1>13, <1>14, <2>7, Lasts
<1>15. /\ {"finish_connect", "start", "close"} \subseteq Jobs /\ {"connect", "none"} \subseteq Results
  BY DEF Jobs, Results
<1>16. CASE made # Handles
  <2>1. Replace(<<Call("finish_connect", k, "connect")>>) BY <1>3, <1>16
  <2>2. Moved(k, {"finish_connect"}) BY <1>5, <1>6, <1>7, <1>15, <2>1, MovesCall
  <2> QED BY <1>14, <2>2
<1>17. CASE made = Handles /\ Replace(<<Call("start", k, "none")>>)
  <2>1. Moved(k, {"start"}) BY <1>5, <1>6, <1>7, <1>15, <1>17, MovesCall
  <2> QED BY <1>14, <1>17, <2>1
<1>18. CASE made = Handles /\ Replace(ObserverCloses(k))
  <2>1. Moved(k, {"close", "start"})
    BY <1>5, <1>6, <1>7, <1>15, <1>18, MovesCalls DEF ObserverCloses
  <2> QED BY <1>14, <1>18, <2>1
<1> QED BY <1>3, <1>16, <1>17, <1>18

(* connect() of a connection.                                               *)
LEMMA StartConnectStep == ASSUME Consistent, StartConnect PROVE Consistent'
<1> PICK k : k = stack[1].conn OBVIOUS
<1> PICK d : d = conn[k] OBVIOUS
<1>0. {"start", "finish_connect"} \subseteq Jobs BY DEF Jobs
<1>1. /\ stack # <<>> /\ stack[1].call = "start" /\ stack[1].call # "resume" /\ k \in Conns
      /\ d \in Connection /\ Good(k) /\ Has("start", k)
  BY <1>0, TopCall DEF StartConnect
<1>2. cur' = cur /\ ready' = ready /\ st' = st /\ Top("start") BY DEF StartConnect, Others
<1>3. CASE ~d.connecting
  <2>1. Replace(<<>>) /\ conn' = conn BY <1>3 DEF StartConnect, ConnectPending
  <2> QED BY <1>0, <1>2, <1>3, <2>1, NothingDone
<1>4. CASE d.connecting
  <2>1. PICK q : q = (IF known THEN "connect" ELSE "resolve") OBVIOUS
  <2>2. \/ Replace(<<>>) /\ conn' = [conn EXCEPT ![k].rtimer = TRUE, ![k].request = q]
        \/ Replace(<<Call("finish_connect", k, q)>>) /\ conn' = [conn EXCEPT ![k].rtimer = TRUE]
    BY <1>4, <2>1 DEF StartConnect, ConnectPending
  <2>3. q \in Results /\ q # "ok" /\ q \in {"none", "resolve", "connect"} BY <2>1 DEF Results
  <2>4. Turned({}) BY <1>1, <1>2, TurnsOn
  <2>5. d.handles = Handles /\ k <= cur BY <1>1, <1>4 DEF Good, Begins
  <2>6. d.reader = NoCoro /\ d.writer = NoCoro /\ k = cur BY <1>1, <1>4 DEF Good, Waits
  <2>7. ASSUME NEW p \in {"none", "resolve", "connect"}, NEW e,
               e = [d EXCEPT !.rtimer = TRUE, !.request = p],
               conn' = [conn EXCEPT ![k] = e], NEW G, Moved(k, G), G \subseteq {"finish_connect"}
        PROVE  Consistent'
    <3>1. /\ e \in Connection /\ e.rtimer = TRUE /\ e.request = p
          /\ e.closing = d.closing /\ e.open = d.open /\ e.handles = d.handles /\ e.keep = d.keep
          /\ e.count = d.count /\ e.reader = d.reader /\ e.writer = d.writer /\ e.writes = d.writes
          /\ e.wtimer = d.wtimer /\ e.connecting = d.connecting
      <4>1. e \in Connection
        <5>1. PICK f : f = [d EXCEPT !.rtimer = TRUE] OBVIOUS
        <5>2. f \in Connection BY <1>1, <2>7, <5>1 DEF Connection
        <5>3. e = [f EXCEPT !.request = p] BY <2>7, <5>1
        <5> QED BY <1>1, <2>7, <5>2, <5>3 DEF Connection
      <4>2. /\ e.rtimer = TRUE /\ e.request = p
            /\ e.closing = d.closing /\ e.open = d.open /\ e.handles = d.handles /\ e.keep = d.keep
            /\ e.count = d.count /\ e.reader = d.reader /\ e.writer = d.writer /\ e.writes = d.writes
            /\ e.wtimer = d.wtimer /\ e.connecting = d.connecting
        BY <1>1, <2>7 DEF Connection
      <4> QED BY <4>1, <4>2
    <3>2. /\ conn' \in [Conns -> Connection] /\ conn'[k] = e
          /\ \A j \in Conns : j # k => conn'[j] = conn[j]
      BY <1>1, <2>7, <3>1, Updated
    <3>3. /\ \A g \in Jobs : g # "start" /\ Has(g, k) => Has(g, k)'
          /\ Has("start", k)' => Has("start", k)
      BY <1>1, <2>7 DEF Moved, Top, Jobs
    <3>4. Sound(e) BY <1>1, <2>5, <3>1 DEF Good, Sound
    <3>5. Waits(k)' BY <1>1, <1>2, <3>1, <3>2 DEF Good, Waits
    <3>6. Closes(k)' BY <1>1, <3>1, <3>2, <3>3 DEF Good, Closes, Jobs
    <3>7. Timed(k)' BY <1>1, <1>4, <3>1, <3>2, <3>3 DEF Good, Timed, Jobs
    <3>8. Begins(k)' BY <1>1, <1>2, <3>1, <3>2, <3>3 DEF Good, Begins
    <3>9. Good(k)' BY <3>2, <3>4, <3>5, <3>6, <3>7, <3>8 DEF Good
    <3> QED BY <1>1, <1>2, <2>7, <3>2, <3>9, Lasts, Typed
  <2>8. CASE Replace(<<>>) /\ conn' = [conn EXCEPT ![k].rtimer = TRUE, ![k].request = q]
    <3>1. PICK e : e = [d EXCEPT !.rtimer = TRUE, !.request = q] OBVIOUS
    <3>2. conn' = [conn EXCEPT ![k] = e] BY <1>1, <2>8, <3>1, Typed
    <3>3. Moved(k, {}) BY <1>1, <2>4, <2>8, MovesNone
    <3> QED BY <2>3, <2>7, <3>1, <3>2, <3>3
  <2>9. CASE Replace(<<Call("finish_connect", k, q)>>) /\ conn' = [conn EXCEPT ![k].rtimer = TRUE]
    <3>1. PICK p \in {"none", "resolve", "connect"} : p = d.request BY <1>1 DEF Connection
    <3>2. PICK e : e = [d EXCEPT !.rtimer = TRUE, !.request = p] OBVIOUS
    <3>3. e = [d EXCEPT !.rtimer = TRUE] BY <1>1, <3>1, <3>2 DEF Connection
    <3>4. conn' = [conn EXCEPT ![k] = e] BY <1>1, <2>9, <3>3, Typed
    <3>5. Moved(k, {"finish_connect"}) BY <1>0, <1>1, <2>3, <2>4, <2>9, MovesCall
    <3> QED BY <2>7, <3>2, <3>4, <3>5
  <2> QED BY <2>2, <2>8, <2>9
<1> QED BY <1>3, <1>4

(* A callback that changes no more than the request of a connection.        *)
LEMMA RequestOnly ==
  ASSUME Consistent, stack = <<>>, NEW k \in Conns, conn[k].request # "none",
         NEW p \in {"none", "resolve", "connect"}, conn' = [conn EXCEPT ![k].request = p],
         cur' = cur, ready' = ready, st' = st, NEW G, Moved(k, G), "start" \notin G
  PROVE  Consistent'
<1> PICK d : d = conn[k] OBVIOUS
<1>1. d \in Connection /\ Good(k) /\ \A g, j : ~Has(g, j) BY AtRest
<1>2. PICK e : e = [d EXCEPT !.request = p] OBVIOUS
<1>3. conn' = [conn EXCEPT ![k] = e] BY <1>2, Typed
<1>4. /\ e \in Connection /\ e.request = p
      /\ e.closing = d.closing /\ e.open = d.open /\ e.handles = d.handles /\ e.keep = d.keep
      /\ e.count = d.count /\ e.reader = d.reader /\ e.rtimer = d.rtimer /\ e.writer = d.writer
      /\ e.writes = d.writes /\ e.wtimer = d.wtimer /\ e.connecting = d.connecting
  <2>1. e \in Connection BY <1>1, <1>2 DEF Connection
  <2>2. /\ e.request = p
        /\ e.closing = d.closing /\ e.open = d.open /\ e.handles = d.handles /\ e.keep = d.keep
        /\ e.count = d.count /\ e.reader = d.reader /\ e.rtimer = d.rtimer /\ e.writer = d.writer
        /\ e.writes = d.writes /\ e.wtimer = d.wtimer /\ e.connecting = d.connecting
    BY <1>1, <1>2 DEF Connection
  <2> QED BY <2>1, <2>2
<1>5. conn' \in [Conns -> Connection] /\ conn'[k] = e /\ \A j \in Conns : j # k => conn'[j] = conn[j]
  BY <1>3, <1>4, Updated
<1>6. ~Has("start", k)' BY <1>1 DEF Moved, Jobs
<1>7. Sound(e) BY <1>1, <1>4 DEF Good, Sound
<1>8. Waits(k)' BY <1>1, <1>4, <1>5 DEF Good, Waits
<1>9. Closes(k)' BY <1>1, <1>4, <1>5 DEF Good, Closes
<1>10. Timed(k)' BY <1>1, <1>4, <1>5 DEF Good, Timed
<1>11. Begins(k)' BY <1>6 DEF Begins
<1>12. Good(k)' BY <1>5, <1>7, <1>8, <1>9, <1>10, <1>11 DEF Good
<1> QED BY <1>5, <1>12, Lasts, Typed

(* The resolver's callback.                                                 *)
LEMMA ResolvedStep == ASSUME Consistent, NEW k \in Conns, Resolved(k) PROVE Consistent'
<1>1. /\ stack = <<>> /\ conn[k].request # "none" /\ cur' = cur /\ ready' = ready /\ st' = st
  BY DEF Resolved, Event
<1>2. PICK p \in {"none", "resolve", "connect"} :
        /\ conn' = [conn EXCEPT ![k].request = p]
        /\ Event(<<>>) \/ \E r \in {"resolve", "connect"} : Event(<<Call("finish_connect", k, r)>>)
  BY DEF Resolved
<1>3. Turned({}) BY <1>1, TurnsOn
<1>4. CASE Event(<<>>)
  <2>1. Moved(k, {}) BY <1>1, <1>3, <1>4, MovesNone
  <2> QED BY <1>1, <1>2, <2>1, RequestOnly
<1>5. CASE \E r \in {"resolve", "connect"} : Event(<<Call("finish_connect", k, r)>>)
  <2>1. PICK r \in {"resolve", "connect"} : Event(<<Call("finish_connect", k, r)>>) BY <1>5
  <2>2. r \in Results /\ r # "ok" /\ "finish_connect" \in Jobs BY DEF Results, Jobs
  <2>3. Moved(k, {"finish_connect"}) BY <1>1, <1>3, <2>1, <2>2, MovesCall
  <2> QED BY <1>1, <1>2, <2>3, RequestOnly
<1> QED BY <1>2, <1>4, <1>5

(* The connect request's callback: one that succeeded is for a connection   *)
(* that nothing has closed.                                                 *)
LEMMA TcpConnectedStep == ASSUME Consistent, NEW k \in Conns, TcpConnected(k) PROVE Consistent'
<1>1. /\ stack = <<>> /\ conn[k].request = "connect" /\ cur' = cur /\ ready' = ready /\ st' = st
      /\ conn' = [conn EXCEPT ![k].request = "none"]
  BY DEF TcpConnected, Event, Others
<1>2. Turned({}) BY <1>1, TurnsOn
<1>3. CASE Event(<<>>)
  <2>1. Moved(k, {}) BY <1>1, <1>2, <1>3, MovesNone
  <2> QED BY <1>1, <2>1, RequestOnly
<1>4. CASE Event(<<Call("finish_connect", k, "connect")>>)
  <2>1. "connect" \in Results /\ "finish_connect" \in Jobs BY DEF Results, Jobs
  <2>2. Moved(k, {"finish_connect"}) BY <1>1, <1>2, <1>4, <2>1, MovesCall
  <2> QED BY <1>1, <2>2, RequestOnly
<1>5. CASE Event(<<Call("finish_connect", k, "ok")>>) /\ conn[k].connecting
  <2> PICK d : d = conn[k] OBVIOUS
  <2>1. d \in Connection /\ Good(k) /\ \A g, j : ~Has(g, j) BY <1>1, AtRest
  <2>2. ~d.closing /\ d.handles = Handles BY <1>1, <1>5, <2>1 DEF Good, Closes, Sound
  <2>3. PICK x : x = Call("finish_connect", k, "ok") OBVIOUS
  <2>4. x.call = "finish_connect" /\ x.conn = k /\ x.result = "ok" BY <2>3 DEF Call
  <2>5. x \in Frames BY <2>3 DEF Call, Frames, Conns, Jobs, Results
  <2>6. PICK s : s = <<x>> OBVIOUS
  <2>7. s \in Seq(Frames) /\ DOMAIN s = {1} /\ s[1] = x /\ Len(s) = 1 BY <2>5, <2>6
  <2>8. stack' = s BY <1>5, <2>3, <2>6 DEF Event
  <2>9. PICK e : e = [d EXCEPT !.request = "none"] OBVIOUS
  <2>10. conn' = [conn EXCEPT ![k] = e] BY <1>1, <2>9, Typed
  <2>11. /\ e \in Connection /\ e.request = "none"
         /\ e.closing = d.closing /\ e.open = d.open /\ e.handles = d.handles /\ e.keep = d.keep
         /\ e.count = d.count /\ e.reader = d.reader /\ e.rtimer = d.rtimer /\ e.writer = d.writer
         /\ e.writes = d.writes /\ e.wtimer = d.wtimer /\ e.connecting = d.connecting
    <3>1. e \in Connection BY <2>1, <2>9 DEF Connection
    <3>2. /\ e.request = "none"
          /\ e.closing = d.closing /\ e.open = d.open /\ e.handles = d.handles /\ e.keep = d.keep
          /\ e.count = d.count /\ e.reader = d.reader /\ e.rtimer = d.rtimer /\ e.writer = d.writer
          /\ e.writes = d.writes /\ e.wtimer = d.wtimer /\ e.connecting = d.connecting
      BY <2>1, <2>9 DEF Connection
    <3> QED BY <3>1, <3>2
  <2>12. conn' \in [Conns -> Connection] /\ conn'[k] = e /\ \A j \in Conns : j # k => conn'[j] = conn[j]
    BY <2>10, <2>11, Updated
  <2>13. Addressed(s) BY <2>4, <2>7 DEF Addressed
  <2>14. Types' BY <1>1, <2>7, <2>8, <2>12, <2>13, Typed DEF Types
  <2>15. Turns'
    <3>1. AtWork' = AtWork BY <1>1 DEF AtWork
    <3>2. \A c \in Coros : c \notin AtWork BY <1>1 DEF Consistent, Turns, Resumes
    <3> QED BY <2>4, <2>7, <2>8, <3>1, <3>2 DEF Turns, Resumes
  <2>16. Succeeds' BY <2>2, <2>4, <2>7, <2>8, <2>11, <2>12 DEF Succeeds
  <2>17. \A g, j : Has(g, j)' => g = "finish_connect" BY <2>4, <2>7, <2>8 DEF Has, HasIn
  <2>18. Good(k)'
    <3>1. Sound(e) BY <2>1, <2>11 DEF Good, Sound
    <3>2. Waits(k)' BY <1>1, <2>1, <2>11, <2>12 DEF Good, Waits
    <3>3. Closes(k)' BY <2>2, <2>11, <2>12 DEF Closes
    <3>4. Timed(k)' BY <2>1, <2>11, <2>12 DEF Good, Timed
    <3>5. Begins(k)' BY <2>17 DEF Begins
    <3> QED BY <2>12, <3>1, <3>2, <3>3, <3>4, <3>5 DEF Good
  <2>19. ASSUME NEW j \in Conns, j # k PROVE Good(j)'
    <3>1. Good(j) /\ conn[j] \in Connection /\ conn'[j] = conn[j] BY <1>1, <2>12, <2>19, AtRest
    <3>2. (conn[j].open => ready' /\ j <= cur') BY <1>1, <3>1 DEF Good, Waits
    <3>3. ~Has("start", j)' BY <2>17
    <3> QED BY <1>1, <2>1, <3>1, <3>2, <3>3, Kept
  <2> QED BY <2>14, <2>15, <2>16, <2>18, <2>19 DEF Consistent
<1> QED BY <1>3, <1>4, <1>5 DEF TcpConnected, ConnectPending

(* A listener's connection.                                                 *)
LEMMA AcceptStep == ASSUME Consistent, Accept PROVE Consistent'
<1>1. PICK made \in Made, ok \in BOOLEAN :
        LET d == [NewConn EXCEPT !.keep = TRUE, !.handles = made]
        IN  IF made = Handles /\ ok
            THEN /\ conn' = [conn EXCEPT ![1] = [d EXCEPT !.open = TRUE]]
                 /\ Event(<<Resume(Main)>>)
                 /\ st' = [st EXCEPT ![Main] = "run"] /\ res' = [res EXCEPT ![Main] = "ok"]
            ELSE /\ conn' = [conn EXCEPT ![1] = d] /\ Event(<<Call("close", 1, "none")>>)
                 /\ st' = [st EXCEPT ![Main] = "done"] /\ UNCHANGED res
  BY DEF Accept
<1>2. /\ cur = 0 /\ st[Main] = "idle" /\ cur' = 1 /\ ready' = conn'[1].open /\ stack = <<>>
  BY <1>1 DEF Accept, Event
<1>3. 1 \in Conns /\ cur' \in 0..Addresses /\ Main \in Coros
  BY <1>2, TransportAssumption DEF Conns
<1>4. made \in SUBSET Handles BY DEF Made, Handles
<1>5. PICK n : n = NewConn OBVIOUS
<1>6. \A j \in Conns : conn[j].reader = NoCoro /\ conn[j].writer = NoCoro /\ ~conn[j].connecting
  BY <1>2, NobodyWaits
<1>7. \A g, j : ~Has(g, j) BY <1>2, <1>3, AtRest
<1>8. ASSUME NEW e \in Connection, e.connecting = FALSE, e.handles = made, e.closing = FALSE,
             e.keep = TRUE, e.reader = NoCoro, e.writer = NoCoro, e.rtimer = FALSE, e.wtimer = FALSE,
             DOMAIN e.writes = {}, e.open => made = Handles,
             conn' = [conn EXCEPT ![1] = e], NEW G, Moved(1, G), "start" \notin G,
             st' \in [Coros -> {"idle", "run", "connect", "read", "write", "done"}]
      PROVE  Consistent'
  <2>1. conn' \in [Conns -> Connection] /\ conn'[1] = e /\ \A j \in Conns : j # 1 => conn'[j] = conn[j]
    BY <1>3, <1>8, Updated
  <2>2. ready' \in BOOLEAN /\ ready' = e.open BY <1>2, <1>8, <2>1 DEF Connection
  <2>3. ~Has("start", 1)' BY <1>7, <1>8 DEF Moved, Jobs
  <2>4. Sound(e) BY <1>8 DEF Sound
  <2>5. Waits(1)' BY <1>2, <1>8, <2>1, <2>2 DEF Waits
  <2>6. Closes(1)' BY <1>8, <2>1 DEF Closes
  <2>7. Timed(1)' BY <1>8, <2>1 DEF Timed
  <2>8. Begins(1)' BY <2>3 DEF Begins
  <2>9. Good(1)' BY <2>1, <2>4, <2>5, <2>6, <2>7, <2>8 DEF Good
  <2> QED BY <1>2, <1>3, <1>6, <1>8, <2>1, <2>2, <2>9, Lasts
<1>9. CASE made = Handles /\ ok
  <2>1. /\ conn' = [conn EXCEPT ![1] = [[n EXCEPT !.keep = TRUE, !.handles = made]
                                          EXCEPT !.open = TRUE]]
        /\ Event(<<Resume(Main)>>) /\ st' = [st EXCEPT ![Main] = "run"]
    BY <1>1, <1>5, <1>9
  <2>2. PICK e : e = [[n EXCEPT !.keep = TRUE, !.handles = made] EXCEPT !.open = TRUE] OBVIOUS
  <2>3. /\ e \in Connection /\ e.keep = TRUE /\ e.connecting = FALSE /\ e.handles = made
        /\ e.closing = FALSE /\ e.reader = NoCoro /\ e.writer = NoCoro
        /\ e.rtimer = FALSE /\ e.wtimer = FALSE /\ DOMAIN e.writes = {}
    <3>1. e \in Connection BY <1>4, <1>5, <2>2, Fresh DEF Connection
    <3>2. /\ e.keep = TRUE /\ e.connecting = FALSE /\ e.handles = made
          /\ e.closing = FALSE /\ e.reader = NoCoro /\ e.writer = NoCoro
          /\ e.rtimer = FALSE /\ e.wtimer = FALSE /\ DOMAIN e.writes = {}
      BY <1>4, <1>5, <2>2, Fresh DEF Connection
    <3> QED BY <3>1, <3>2
  <2>4. Turned({Main}) BY <1>2, <1>3, <2>1, TurnTo
  <2>5. Moved(1, {}) BY <1>2, <1>3, <2>1, <2>4, MovesResume
  <2>6. st' \in [Coros -> {"idle", "run", "connect", "read", "write", "done"}] BY <2>1, Typed
  <2> QED BY <1>8, <1>9, <2>1, <2>2, <2>3, <2>5, <2>6
<1>10. CASE ~(made = Handles /\ ok)
  <2>1. /\ conn' = [conn EXCEPT ![1] = [n EXCEPT !.keep = TRUE, !.handles = made]]
        /\ Event(<<Call("close", 1, "none")>>) /\ st' = [st EXCEPT ![Main] = "done"]
    BY <1>1, <1>5, <1>10
  <2>2. PICK e : e = [n EXCEPT !.keep = TRUE, !.handles = made] OBVIOUS
  <2>3. /\ e \in Connection /\ e.keep = TRUE /\ e.connecting = FALSE /\ e.handles = made
        /\ e.open = FALSE /\ e.closing = FALSE /\ e.reader = NoCoro /\ e.writer = NoCoro
        /\ e.rtimer = FALSE /\ e.wtimer = FALSE /\ DOMAIN e.writes = {}
    <3>1. e \in Connection BY <1>4, <1>5, <2>2, Fresh DEF Connection
    <3>2. /\ e.keep = TRUE /\ e.connecting = FALSE /\ e.handles = made
          /\ e.open = FALSE /\ e.closing = FALSE /\ e.reader = NoCoro /\ e.writer = NoCoro
          /\ e.rtimer = FALSE /\ e.wtimer = FALSE /\ DOMAIN e.writes = {}
      BY <1>4, <1>5, <2>2, Fresh DEF Connection
    <3> QED BY <3>1, <3>2
  <2>4. Turned({})
    <3>1. \A c \in Coros : st'[c] = IF c = Main THEN "done" ELSE st[c] BY <2>1, Typed
    <3>2. AtWork' = AtWork BY <1>2, <3>1 DEF AtWork
    <3> QED BY <1>2, <3>2 DEF Turned, Left, Top
  <2>5. "close" \in Jobs /\ "none" \in Results BY DEF Jobs, Results
  <2>6. Moved(1, {"close"}) BY <1>2, <1>3, <2>1, <2>4, <2>5, MovesCall
  <2>7. st' \in [Coros -> {"idle", "run", "connect", "read", "write", "done"}] BY <2>1, Typed
  <2> QED BY <1>8, <2>1, <2>2, <2>3, <2>6, <2>7
<1> QED BY <1>9, <1>10

-----------------------------------------------------------------------------
(* Reading, writing and closing.                                            *)

(* A connection changes in what the rest of the invariant does not ask for, *)
(* or is no longer open.                                                    *)
LEMMA ConnOnly ==
  ASSUME Consistent, NEW k \in Conns, NEW e \in Connection, conn' = [conn EXCEPT ![k] = e],
         stack' = stack, st' = st, cur' = cur, ready' = ready,
         e.open => conn[k].open,
         e.closing = conn[k].closing, e.handles = conn[k].handles, e.keep = conn[k].keep,
         e.count = conn[k].count, e.connecting = conn[k].connecting,
         e.request = conn[k].request, e.reader = conn[k].reader, e.rtimer = conn[k].rtimer,
         e.writer = conn[k].writer, e.writes = conn[k].writes, e.wtimer = conn[k].wtimer
  PROVE  Consistent'
<1> PICK d : d = conn[k] OBVIOUS
<1>1. conn' \in [Conns -> Connection] /\ conn'[k] = e /\ \A j \in Conns : j # k => conn'[j] = conn[j]
  BY Updated
<1>2. \A g, j : Has(g, j)' <=> Has(g, j) BY DEF Has
<1>3. Types' BY <1>1, Typed DEF Types, Consistent
<1>4. Turns' BY DEF Turns, AtWork, Consistent
<1>5. Succeeds'
  <2>1. stack \in Seq(Frames) /\ Addressed(stack) BY DEF Consistent, Types
  <2>2. \A i \in DOMAIN stack : stack[i].call = "finish_connect" => stack[i].conn \in Conns
    BY <2>1 DEF Addressed
  <2>3. \A j \in Conns : conn'[j].closing = conn[j].closing /\ conn'[j].handles = conn[j].handles
    BY <1>1
  <2> QED BY <2>2, <2>3 DEF Succeeds, Consistent
<1>6. Good(k) /\ d \in Connection BY Typed DEF Consistent
<1>7. Good(k)'
  <2>1. Sound(e) BY <1>6 DEF Good, Sound
  <2>2. Waits(k)' BY <1>1, <1>6 DEF Good, Waits
  <2>3. Closes(k)' BY <1>1, <1>2, <1>6 DEF Good, Closes
  <2>4. Timed(k)' BY <1>1, <1>2, <1>6 DEF Good, Timed
  <2>5. Begins(k)' BY <1>1, <1>2, <1>6 DEF Good, Begins
  <2> QED BY <1>1, <2>1, <2>2, <2>3, <2>4, <2>5 DEF Good
<1>8. ASSUME NEW j \in Conns, j # k PROVE Good(j)'
  <2>1. Good(j) /\ conn[j] \in Connection /\ conn'[j] = conn[j] BY <1>1, <1>8, Typed DEF Consistent
  <2>2. (conn[j].open => ready /\ j <= cur) /\ (Has("start", j) => j <= cur)
    BY <2>1 DEF Good, Waits, Begins
  <2> QED BY <1>2, <2>1, <2>2, Kept
<1> QED BY <1>3, <1>4, <1>5, <1>7, <1>8 DEF Consistent

(* A write that the socket takes at once.                                   *)
LEMMA ImmediateOnly ==
  ASSUME Consistent, NEW k \in Conns, conn' = [conn EXCEPT ![k].immediate = @ + 1],
         stack' = stack, st' = st, cur' = cur, ready' = ready
  PROVE  Consistent'
<1>1. conn[k] \in Connection BY Typed
<1>2. PICK e : e = [conn[k] EXCEPT !.immediate = @ + 1] OBVIOUS
<1>3. conn' = [conn EXCEPT ![k] = e] BY <1>2, Typed
<1>4. /\ e \in Connection /\ e.open = conn[k].open
      /\ e.closing = conn[k].closing /\ e.handles = conn[k].handles /\ e.keep = conn[k].keep
      /\ e.count = conn[k].count /\ e.connecting = conn[k].connecting
      /\ e.request = conn[k].request /\ e.reader = conn[k].reader /\ e.rtimer = conn[k].rtimer
      /\ e.writer = conn[k].writer /\ e.writes = conn[k].writes /\ e.wtimer = conn[k].wtimer
  <2>1. e \in Connection BY <1>1, <1>2 DEF Connection
  <2>2. /\ e.open = conn[k].open
        /\ e.closing = conn[k].closing /\ e.handles = conn[k].handles /\ e.keep = conn[k].keep
        /\ e.count = conn[k].count /\ e.connecting = conn[k].connecting
        /\ e.request = conn[k].request /\ e.reader = conn[k].reader /\ e.rtimer = conn[k].rtimer
        /\ e.writer = conn[k].writer /\ e.writes = conn[k].writes /\ e.wtimer = conn[k].wtimer
    BY <1>1, <1>2 DEF Connection
  <2> QED BY <2>1, <2>2
<1> QED BY <1>3, <1>4, ConnOnly

(* Nothing of it changes.                                                   *)
LEMMA Unmoved ==
  ASSUME Consistent, stack' = stack, conn' = conn, st' = st, cur' = cur, ready' = ready
  PROVE  Consistent'
<1>1. PICK k \in Conns : TRUE BY TransportAssumption DEF Conns
<1>2. PICK e \in Connection : e = conn[k] BY Typed
<1>3. conn' = [conn EXCEPT ![k] = e] BY <1>2, Typed
<1> QED BY <1>2, <1>3, ConnOnly

(* The coroutine on top of the stack has the last connection.               *)
LEMMA HasConn ==
  ASSUME Consistent, NEW c \in Coros, Running(c), ready
  PROVE  /\ stack # <<>> /\ stack[1].call = "resume" /\ st[c] = "run" /\ cur \in Conns
         /\ conn[cur] \in Connection /\ Good(cur) /\ ~conn[cur].connecting
         /\ \A g \in Jobs : ~Top(g)
<1>1. stack # <<>> /\ stack[1].call = "resume" /\ st[c] = "run" BY DEF Running, Top
<1>2. \A g \in Jobs : ~Top(g) BY <1>1 DEF Top, Jobs
<1>3. cur \in Conns /\ conn[cur] \in Connection /\ Good(cur) BY Typed DEF Consistent
<1> QED BY <1>1, <1>2, <1>3 DEF Good, Waits

(* ReadAwaiter.                                                             *)
LEMMA RawReadStep ==
  ASSUME Consistent, NEW c \in Coros, Running(c), ready, RawRead(c), cur' = cur, ready' = ready
  PROVE  Consistent'
<1> PICK k : k = cur OBVIOUS
<1> PICK d : d = conn[k] OBVIOUS
<1>1. /\ stack # <<>> /\ stack[1].call = "resume" /\ st[c] = "run" /\ k \in Conns
      /\ d \in Connection /\ Good(k) /\ ~d.connecting /\ \A g \in Jobs : ~Top(g)
  BY HasConn
<1>2. CASE UNCHANGED <<stack, conn, st>>
  <2>1. stack' = stack /\ conn' = conn /\ st' = st BY <1>2
  <2> QED BY <2>1, Unmoved
<1>3. ASSUME d.open, d.reader = NoCoro, st' = [st EXCEPT ![c] = "read"], NEW ok \in BOOLEAN,
             conn' = [conn EXCEPT ![k].reader = c, ![k].rtimer = TRUE, ![k].started = ok],
             Replace(IF ok THEN <<>> ELSE <<Call("finish_read", k, "error")>>)
      PROVE  Consistent'
  <2>1. PICK e : e = [d EXCEPT !.reader = c, !.rtimer = TRUE, !.started = ok] OBVIOUS
  <2>2. conn' = [conn EXCEPT ![k] = e] BY <1>1, <1>3, <2>1, Typed
  <2>3. /\ e \in Connection /\ e.reader = c /\ e.rtimer = TRUE
        /\ e.closing = d.closing /\ e.open = d.open /\ e.handles = d.handles /\ e.keep = d.keep
        /\ e.count = d.count /\ e.writes = d.writes /\ e.writer = d.writer /\ e.wtimer = d.wtimer
        /\ e.connecting = d.connecting /\ e.request = d.request
    <3>1. e \in Connection
      <4>1. PICK f : f = [d EXCEPT !.reader = c] OBVIOUS
      <4>2. PICK g : g = [f EXCEPT !.rtimer = TRUE] OBVIOUS
      <4>3. f \in Connection BY <1>1, <4>1 DEF Connection
      <4>4. g \in Connection BY <1>1, <4>3, <4>2 DEF Connection
      <4>5. e = [g EXCEPT !.started = ok] BY <2>1, <4>1, <4>2
      <4> QED BY <1>1, <4>4, <4>5 DEF Connection
    <3>2. /\ e.reader = c /\ e.rtimer = TRUE
          /\ e.closing = d.closing /\ e.open = d.open /\ e.handles = d.handles /\ e.keep = d.keep
          /\ e.count = d.count /\ e.writes = d.writes /\ e.writer = d.writer /\ e.wtimer = d.wtimer
          /\ e.connecting = d.connecting /\ e.request = d.request
      BY <1>1, <2>1 DEF Connection
    <3> QED BY <3>1, <3>2
  <2>4. conn' \in [Conns -> Connection] /\ conn'[k] = e /\ \A j \in Conns : j # k => conn'[j] = conn[j]
    BY <1>1, <2>2, <2>3, Updated
  <2>5. Turned({}) BY <1>3, TurnOver
  <2>6. PICK G : Moved(k, G) /\ "start" \notin G
    <3>1. CASE ok
      <4>1. Replace(<<>>) BY <1>3, <3>1
      <4>2. Moved(k, {}) BY <1>1, <2>5, <4>1, MovesNone
      <4> QED BY <4>2
    <3>2. CASE ~ok
      <4>1. Replace(<<Call("finish_read", k, "error")>>) BY <1>3, <3>2
      <4>2. "finish_read" \in Jobs /\ "error" \in Results BY DEF Jobs, Results
      <4>3. Moved(k, {"finish_read"}) BY <1>1, <2>5, <4>1, <4>2, MovesCall
      <4> QED BY <4>3
    <3> QED BY <3>1, <3>2
  <2>7. /\ \A g \in Jobs : Has(g, k) => Has(g, k)'
        /\ Has("start", k)' => Has("start", k)
    BY <1>1, <2>6 DEF Moved, Jobs
  <2>8. ~d.closing /\ c # NoCoro /\ c \in Coros BY <1>1, <1>3, TransportAssumption DEF Good, Sound
  <2>9. \A x \in Coros : st'[x] = IF x = c THEN "read" ELSE st[x] BY <1>3, Typed
  <2>10. Sound(e) BY <1>1, <2>3 DEF Good, Sound
  <2>11. Waits(k)'
    <3>1. /\ d.open => k <= cur
          /\ d.writer # NoCoro => d.writer \in Coros /\ d.writer # c /\ st[d.writer] = "write"
      BY <1>1 DEF Good, Waits, Connection
    <3> QED BY <1>1, <2>3, <2>4, <2>8, <2>9, <3>1 DEF Waits
  <2>12. Closes(k)' BY <2>3, <2>4, <2>8 DEF Closes
  <2>13. Timed(k)' BY <1>1, <2>3, <2>4, <2>7, <2>8 DEF Good, Timed, Jobs
  <2>14. Begins(k)' BY <1>1, <2>3, <2>4, <2>7 DEF Good, Begins
  <2>15. Good(k)' BY <2>4, <2>10, <2>11, <2>12, <2>13, <2>14 DEF Good
  <2>16. st' \in [Coros -> {"idle", "run", "connect", "read", "write", "done"}] BY <1>3, Typed
  <2> QED BY <1>1, <2>4, <2>6, <2>15, <2>16, Lasts, Typed
<1> QED BY <1>2, <1>3 DEF RawRead

(* WriteAwaiter.                                                            *)
LEMMA RawWriteStep ==
  ASSUME Consistent, NEW c \in Coros, Running(c), ready, RawWrite(c), cur' = cur, ready' = ready
  PROVE  Consistent'
<1> PICK k : k = cur OBVIOUS
<1> PICK d : d = conn[k] OBVIOUS
<1>1. /\ stack # <<>> /\ stack[1].call = "resume" /\ st[c] = "run" /\ k \in Conns
      /\ d \in Connection /\ Good(k) /\ ~d.connecting /\ \A g \in Jobs : ~Top(g)
  BY HasConn
<1>2. CASE WriteAtOnce(c)
  <2>1. stack' = stack /\ st' = st BY <1>2 DEF WriteAtOnce
  <2>2. CASE conn' = conn BY <2>1, <2>2, Unmoved
  <2>3. CASE conn' = [conn EXCEPT ![cur].immediate = @ + 1]
    <3>1. conn[k] \in Connection /\ k \in Conns /\ st' = st BY <1>1, <2>1
    <3>2. conn' = [conn EXCEPT ![k].immediate = @ + 1] BY <2>3
    <3> QED BY <2>1, <3>1, <3>2, ImmediateOnly
  <2> QED BY <1>2, <2>2, <2>3 DEF WriteAtOnce
<1>3. CASE WriteQueued(c)
  <2>1. d.open /\ d.writer = NoCoro /\ st' = [st EXCEPT ![c] = "write"] BY <1>3 DEF WriteQueued
  <2>2. PICK w \in Seq(BOOLEAN) :
          /\ conn' = [conn EXCEPT ![k] = [[d EXCEPT !.writer = c, !.wtimer = TRUE, !.immediate = 0]
                                            EXCEPT !.writes = w]]
          /\ Replace(<<>>) \/ Replace(<<Call("finish_write", k, "error")>>)
    <3> DEFINE q == [d EXCEPT !.writer = c, !.wtimer = TRUE, !.immediate = 0]
    <3>1. PICK v \in Seq(BOOLEAN) : v = d.writes BY <1>1 DEF Connection
    <3>2. q = [q EXCEPT !.writes = v] /\ q.writes = v BY <1>1, <3>1 DEF Connection
    <3>3. CASE conn' = [conn EXCEPT ![cur] = [q EXCEPT !.writes = Append(@, TRUE)]] /\ Replace(<<>>)
      <4>1. PICK w \in Seq(BOOLEAN) : w = Append(v, TRUE)
        <5>1. \A t \in BOOLEAN : Append(v, t) \in Seq(BOOLEAN) OBVIOUS
        <5> QED BY <5>1
      <4>2. [q EXCEPT !.writes = Append(@, TRUE)] = [q EXCEPT !.writes = w] BY <1>1, <3>2, <4>1
      <4> QED BY <3>3, <4>2
    <3>4. CASE conn' = [conn EXCEPT ![cur] = q] /\ Replace(<<Call("finish_write", cur, "error")>>)
      <4>1. conn' = [conn EXCEPT ![k] = [q EXCEPT !.writes = v]] BY <3>2, <3>4
      <4> QED BY <3>4, <4>1
    <3> QED BY <1>3, <3>3, <3>4 DEF WriteQueued
  <2>3. PICK e : e = [[d EXCEPT !.writer = c, !.wtimer = TRUE, !.immediate = 0] EXCEPT !.writes = w]
    OBVIOUS
  <2>4. /\ e \in Connection /\ e.writer = c /\ e.wtimer = TRUE
        /\ e.closing = d.closing /\ e.open = d.open /\ e.handles = d.handles /\ e.keep = d.keep
        /\ e.count = d.count /\ e.reader = d.reader /\ e.rtimer = d.rtimer
        /\ e.connecting = d.connecting /\ e.request = d.request
    <3>1. e \in Connection BY <1>1, <2>3 DEF Connection
    <3>2. /\ e.writer = c /\ e.wtimer = TRUE
          /\ e.closing = d.closing /\ e.open = d.open /\ e.handles = d.handles /\ e.keep = d.keep
          /\ e.count = d.count /\ e.reader = d.reader /\ e.rtimer = d.rtimer
          /\ e.connecting = d.connecting /\ e.request = d.request
      BY <1>1, <2>3 DEF Connection
    <3> QED BY <3>1, <3>2
  <2>5. conn' \in [Conns -> Connection] /\ conn'[k] = e /\ \A j \in Conns : j # k => conn'[j] = conn[j]
    BY <1>1, <2>2, <2>3, <2>4, Updated
  <2>6. Turned({}) BY <2>1, TurnOver
  <2>7. PICK G : Moved(k, G) /\ "start" \notin G
    <3>1. CASE Replace(<<>>)
      <4>1. Moved(k, {}) BY <1>1, <2>6, <3>1, MovesNone
      <4> QED BY <4>1
    <3>2. CASE Replace(<<Call("finish_write", k, "error")>>)
      <4>1. "finish_write" \in Jobs /\ "error" \in Results BY DEF Jobs, Results
      <4>2. Moved(k, {"finish_write"}) BY <1>1, <2>6, <3>2, <4>1, MovesCall
      <4> QED BY <4>2
    <3> QED BY <2>2, <3>1, <3>2
  <2>8. /\ \A g \in Jobs : Has(g, k) => Has(g, k)'
        /\ Has("start", k)' => Has("start", k)
    BY <1>1, <2>7 DEF Moved, Jobs
  <2>9. ~d.closing /\ c # NoCoro /\ c \in Coros /\ d.handles = Handles
    BY <1>1, <2>1, TransportAssumption DEF Good, Sound
  <2>10. \A x \in Coros : st'[x] = IF x = c THEN "write" ELSE st[x] BY <2>1, Typed
  <2>11. Sound(e) BY <1>1, <2>4, <2>9 DEF Good, Sound
  <2>12. Waits(k)'
    <3>1. /\ d.open => k <= cur
          /\ d.reader # NoCoro => d.reader \in Coros /\ d.reader # c /\ st[d.reader] = "read"
      BY <1>1 DEF Good, Waits, Connection
    <3> QED BY <1>1, <2>4, <2>5, <2>9, <2>10, <3>1 DEF Waits
  <2>13. Closes(k)' BY <2>4, <2>5, <2>9 DEF Closes
  <2>14. Timed(k)' BY <1>1, <2>4, <2>5, <2>8, <2>9 DEF Good, Timed, Jobs
  <2>15. Begins(k)' BY <1>1, <2>4, <2>5, <2>8 DEF Good, Begins
  <2>16. Good(k)' BY <2>5, <2>11, <2>12, <2>13, <2>14, <2>15 DEF Good
  <2>17. st' \in [Coros -> {"idle", "run", "connect", "read", "write", "done"}] BY <2>1, Typed
  <2> QED BY <1>1, <2>5, <2>7, <2>16, <2>17, Lasts, Typed
<1> QED BY <1>2, <1>3 DEF RawWrite

(* read_callback.                                                           *)
LEMMA ReadCallbackStep == ASSUME Consistent, NEW k \in Conns, ReadCallback(k) PROVE Consistent'
<1>1. PICK r \in {"data", "eof", "error"} : Event(<<Call("finish_read", k, r)>>) BY DEF ReadCallback
<1>2. stack = <<>> /\ conn' = conn /\ st' = st /\ cur' = cur /\ ready' = ready
  BY <1>1 DEF ReadCallback, Event, Others
<1>3. r \in Results /\ "finish_read" \in Jobs BY DEF Results, Jobs
<1>4. Turned({}) BY <1>2, TurnsOn
<1>5. Moved(k, {"finish_read"}) BY <1>1, <1>2, <1>3, <1>4, MovesCall
<1> QED BY <1>2, <1>5, OnlyCalled, Typed

(* A posted close_on_loop.                                                  *)
LEMMA DrainStep == ASSUME Consistent, NEW k \in Conns, Drain(k) PROVE Consistent'
<1>1. /\ Event(<<Call("close", k, "none")>>)
      /\ stack = <<>> /\ conn' = conn /\ st' = st /\ cur' = cur /\ ready' = ready
  BY DEF Drain, Event
<1>2. "none" \in Results /\ "close" \in Jobs BY DEF Results, Jobs
<1>3. Turned({}) BY <1>1, TurnsOn
<1>4. Moved(k, {"close"}) BY <1>1, <1>2, <1>3, MovesCall
<1> QED BY <1>1, <1>4, OnlyCalled, Typed

(* write_callback.                                                          *)
LEMMA WriteCallbackStep == ASSUME Consistent, NEW k \in Conns, WriteCallback(k) PROVE Consistent'
<1> PICK d : d = conn[k] OBVIOUS
<1>1. /\ stack = <<>> /\ cur' = cur /\ ready' = ready /\ st' = st /\ d.writes # <<>>
      /\ conn' = [conn EXCEPT ![k].writes = Tail(@)]
  BY DEF WriteCallback, Event, Others
<1>2. d \in Connection /\ Good(k) /\ \A g, j : ~Has(g, j) BY <1>1, AtRest
<1>3. PICK w : w = Tail(d.writes) OBVIOUS
<1>4. /\ w \in Seq(BOOLEAN)
      /\ \A i \in DOMAIN w : i + 1 \in DOMAIN d.writes /\ w[i] = d.writes[i + 1]
  <2>1. PICK q \in Seq(BOOLEAN) : q = d.writes BY <1>2 DEF Connection
  <2>2. q # <<>> /\ w = Tail(q) BY <1>1, <1>3, <2>1
  <2>3. /\ w \in Seq(BOOLEAN)
        /\ \A i \in DOMAIN w : i \in Nat /\ i + 1 \in DOMAIN q /\ i + 1 # 1 /\ w[i] = q[i + 1]
    BY <2>2, Rest
  <2> QED BY <2>1, <2>3
<1>5. PICK e : e = [d EXCEPT !.writes = w] OBVIOUS
<1>6. conn' = [conn EXCEPT ![k] = e] BY <1>1, <1>2, <1>3, <1>5, Typed DEF Connection
<1>7. /\ e \in Connection /\ e.writes = w
      /\ e.closing = d.closing /\ e.open = d.open /\ e.handles = d.handles /\ e.keep = d.keep
      /\ e.count = d.count /\ e.reader = d.reader /\ e.rtimer = d.rtimer /\ e.writer = d.writer
      /\ e.wtimer = d.wtimer /\ e.connecting = d.connecting /\ e.request = d.request
  <2>1. e \in Connection BY <1>2, <1>4, <1>5 DEF Connection
  <2>2. /\ e.writes = w
        /\ e.closing = d.closing /\ e.open = d.open /\ e.handles = d.handles /\ e.keep = d.keep
        /\ e.count = d.count /\ e.reader = d.reader /\ e.rtimer = d.rtimer /\ e.writer = d.writer
        /\ e.wtimer = d.wtimer /\ e.connecting = d.connecting /\ e.request = d.request
    BY <1>2, <1>4, <1>5 DEF Connection
  <2> QED BY <2>1, <2>2
<1>8. conn' \in [Conns -> Connection] /\ conn'[k] = e /\ \A j \in Conns : j # k => conn'[j] = conn[j]
  BY <1>6, <1>7, Updated
<1>9. Turned({}) BY <1>1, TurnsOn
<1>10. PICK G : Moved(k, G) /\ "start" \notin G
  <2>1. CASE Event(<<>>)
    <3>1. Moved(k, {}) BY <1>1, <1>9, <2>1, MovesNone
    <3> QED BY <3>1
  <2>2. ASSUME NEW r \in {"ok", "error"}, Event(<<Call("finish_write", k, r)>>)
        PROVE  Moved(k, {"finish_write"}) /\ "start" \notin {"finish_write"}
    <3>1. r \in Results /\ "finish_write" \in Jobs BY DEF Results, Jobs
    <3> QED BY <1>1, <1>9, <2>2, <3>1, MovesCall
  <2>3. CASE \E r \in {"ok", "error"} : Event(<<Call("finish_write", k, r)>>)
    <3>1. Moved(k, {"finish_write"}) /\ "start" \notin {"finish_write"} BY <2>2, <2>3
    <3> QED BY <3>1
  <2>4. Event(<<>>) \/ \E r \in {"ok", "error"} : Event(<<Call("finish_write", k, r)>>)
    BY DEF WriteCallback
  <2> QED BY <2>1, <2>3, <2>4
<1>11. ~Has("start", k)' BY <1>2, <1>10 DEF Moved, Jobs
<1>12. Sound(e)
  <2>1. (\E i \in DOMAIN w : w[i]) => (\E i \in DOMAIN d.writes : d.writes[i]) BY <1>4
  <2> QED BY <1>2, <1>7, <2>1 DEF Good, Sound
<1>13. Waits(k)' BY <1>1, <1>2, <1>7, <1>8 DEF Good, Waits
<1>14. Closes(k)' BY <1>2, <1>7, <1>8 DEF Good, Closes
<1>15. Timed(k)' BY <1>2, <1>7, <1>8 DEF Good, Timed
<1>16. Begins(k)' BY <1>11 DEF Begins
<1>17. Good(k)' BY <1>8, <1>12, <1>13, <1>14, <1>15, <1>16 DEF Good
<1>18. cur' = cur /\ ready' = ready /\ st' = st BY <1>1
<1> QED BY <1>8, <1>10, <1>17, <1>18, Lasts, Typed

(* A timer that fires: its operation ends, and the connection's close is    *)
(* the next frame.                                                          *)
LEMMA TimeoutStep ==
  ASSUME Consistent, NEW k \in Conns, stack = <<>>, NEW d, d = conn[k], ~d.closing, cur' = cur,
         ready' = ready, st' = st, NEW e \in Connection, conn' = [conn EXCEPT ![k] = e],
         e.closing = d.closing, e.open = d.open, e.handles = d.handles, e.keep = d.keep,
         e.count = d.count, e.reader = d.reader, e.writer = d.writer, e.writes = d.writes,
         e.connecting = d.connecting, e.request = d.request,
         NEW g \in Jobs, g # "start", Event(<<Call(g, k, "timeout"), Call("close", k, "none")>>)
  PROVE  Consistent'
<1>1. d \in Connection /\ Good(k) /\ \A f, j : ~Has(f, j) BY AtRest
<1>2. conn' \in [Conns -> Connection] /\ conn'[k] = e /\ \A j \in Conns : j # k => conn'[j] = conn[j]
  BY Updated
<1>3. Turned({}) BY TurnsOn
<1>4. "close" \in Jobs /\ "timeout" \in Results /\ "none" \in Results /\ "close" # "start"
  BY DEF Jobs, Results
<1>5. Moved(k, {g, "close"}) BY <1>3, <1>4, MovesCalls
<1>6. Has("close", k)' /\ ~Has("start", k)' BY <1>1, <1>5 DEF Moved, Jobs
<1>7. Sound(e) BY <1>1 DEF Good, Sound
<1>8. Waits(k)' BY <1>1, <1>2 DEF Good, Waits
<1>9. Closes(k)' BY <1>2 DEF Closes
<1>10. Timed(k)' BY <1>6 DEF Timed
<1>11. Begins(k)' BY <1>6 DEF Begins
<1>12. Good(k)' BY <1>2, <1>7, <1>8, <1>9, <1>10, <1>11 DEF Good
<1> QED BY <1>2, <1>5, <1>12, Lasts, Typed

LEMMA ReadTimeoutStep == ASSUME Consistent, NEW k \in Conns, ReadTimeout(k) PROVE Consistent'
<1> PICK d : d = conn[k] OBVIOUS
<1>0. PICK g : g = (IF d.connecting THEN "finish_connect" ELSE "finish_read") OBVIOUS
<1>1. /\ stack = <<>> /\ cur' = cur /\ ready' = ready /\ st' = st /\ ~d.closing
      /\ conn' = [conn EXCEPT ![k].rtimer = FALSE]
      /\ Event(<<Call(g, k, "timeout"), Call("close", k, "none")>>)
  BY <1>0 DEF ReadTimeout, Event, Others
<1>2. d \in Connection BY Typed
<1>3. PICK e : e = [d EXCEPT !.rtimer = FALSE] OBVIOUS
<1>4. conn' = [conn EXCEPT ![k] = e] BY <1>1, <1>3, Typed
<1>5. /\ e \in Connection
      /\ e.closing = d.closing /\ e.open = d.open /\ e.handles = d.handles /\ e.keep = d.keep
      /\ e.count = d.count /\ e.reader = d.reader /\ e.writer = d.writer /\ e.writes = d.writes
      /\ e.connecting = d.connecting /\ e.request = d.request
  <2>1. e \in Connection BY <1>2, <1>3 DEF Connection
  <2>2. /\ e.closing = d.closing /\ e.open = d.open /\ e.handles = d.handles /\ e.keep = d.keep
        /\ e.count = d.count /\ e.reader = d.reader /\ e.writer = d.writer /\ e.writes = d.writes
        /\ e.connecting = d.connecting /\ e.request = d.request
    BY <1>2, <1>3 DEF Connection
  <2> QED BY <2>1, <2>2
<1>6. g \in Jobs /\ g # "start" BY <1>0 DEF Jobs
<1>7. /\ stack = <<>> /\ cur' = cur /\ ready' = ready /\ st' = st /\ ~d.closing
      /\ Event(<<Call(g, k, "timeout"), Call("close", k, "none")>>)
  BY <1>1
<1> QED BY <1>4, <1>5, <1>6, <1>7, TimeoutStep

LEMMA WriteTimeoutStep == ASSUME Consistent, NEW k \in Conns, WriteTimeout(k) PROVE Consistent'
<1> PICK d : d = conn[k] OBVIOUS
<1>1. /\ stack = <<>> /\ cur' = cur /\ ready' = ready /\ st' = st /\ ~d.closing
      /\ conn' = [conn EXCEPT ![k].wtimer = FALSE]
      /\ Event(<<Call("finish_write", k, "timeout"), Call("close", k, "none")>>)
  BY DEF WriteTimeout, Event, Others
<1>2. d \in Connection BY Typed
<1>3. PICK e : e = [d EXCEPT !.wtimer = FALSE] OBVIOUS
<1>4. conn' = [conn EXCEPT ![k] = e] BY <1>1, <1>3, Typed
<1>5. /\ e \in Connection
      /\ e.closing = d.closing /\ e.open = d.open /\ e.handles = d.handles /\ e.keep = d.keep
      /\ e.count = d.count /\ e.reader = d.reader /\ e.writer = d.writer /\ e.writes = d.writes
      /\ e.connecting = d.connecting /\ e.request = d.request
  <2>1. e \in Connection BY <1>2, <1>3 DEF Connection
  <2>2. /\ e.closing = d.closing /\ e.open = d.open /\ e.handles = d.handles /\ e.keep = d.keep
        /\ e.count = d.count /\ e.reader = d.reader /\ e.writer = d.writer /\ e.writes = d.writes
        /\ e.connecting = d.connecting /\ e.request = d.request
    BY <1>2, <1>3 DEF Connection
  <2> QED BY <2>1, <2>2
<1>6. "finish_write" \in Jobs /\ "finish_write" # "start" BY DEF Jobs
<1>7. /\ stack = <<>> /\ cur' = cur /\ ready' = ready /\ st' = st /\ ~d.closing
      /\ Event(<<Call("finish_write", k, "timeout"), Call("close", k, "none")>>)
  BY <1>1
<1> QED BY <1>4, <1>5, <1>6, <1>7, TimeoutStep

(* close() before its close_on_loop: the connection is no longer open.      *)
LEMMA NotOpen ==
  ASSUME Consistent, NEW k \in Conns, conn' = [conn EXCEPT ![k].open = FALSE]
  PROVE  \E e \in Connection :
           /\ conn' = [conn EXCEPT ![k] = e] /\ e.open = FALSE
           /\ e.closing = conn[k].closing /\ e.handles = conn[k].handles /\ e.keep = conn[k].keep
           /\ e.count = conn[k].count /\ e.reader = conn[k].reader /\ e.writer = conn[k].writer
           /\ e.writes = conn[k].writes /\ e.rtimer = conn[k].rtimer /\ e.wtimer = conn[k].wtimer
           /\ e.connecting = conn[k].connecting /\ e.request = conn[k].request
<1> PICK d : d = conn[k] OBVIOUS
<1>1. d \in Connection BY Typed
<1>2. PICK e : e = [d EXCEPT !.open = FALSE] OBVIOUS
<1>3. conn' = [conn EXCEPT ![k] = e] BY <1>2, Typed
<1>4. /\ e \in Connection /\ e.open = FALSE
      /\ e.closing = d.closing /\ e.handles = d.handles /\ e.keep = d.keep
      /\ e.count = d.count /\ e.reader = d.reader /\ e.writer = d.writer
      /\ e.writes = d.writes /\ e.rtimer = d.rtimer /\ e.wtimer = d.wtimer
      /\ e.connecting = d.connecting /\ e.request = d.request
  <2>1. e \in Connection BY <1>1, <1>2 DEF Connection
  <2>2. /\ e.open = FALSE
        /\ e.closing = d.closing /\ e.handles = d.handles /\ e.keep = d.keep
        /\ e.count = d.count /\ e.reader = d.reader /\ e.writer = d.writer
        /\ e.writes = d.writes /\ e.rtimer = d.rtimer /\ e.wtimer = d.wtimer
        /\ e.connecting = d.connecting /\ e.request = d.request
    BY <1>1, <1>2 DEF Connection
  <2> QED BY <2>1, <2>2
<1> QED BY <1>3, <1>4

LEMMA CloseFromThreadStep ==
  ASSUME Consistent, NEW k \in Conns, CloseFromThread(k) PROVE Consistent'
<1>1. /\ stack' = stack /\ cur' = cur /\ ready' = ready /\ st' = st
      /\ conn' = [conn EXCEPT ![k].open = FALSE]
  BY DEF CloseFromThread
<1>2. PICK e \in Connection :
        /\ conn' = [conn EXCEPT ![k] = e] /\ e.open = FALSE
        /\ e.closing = conn[k].closing /\ e.handles = conn[k].handles /\ e.keep = conn[k].keep
        /\ e.count = conn[k].count /\ e.reader = conn[k].reader /\ e.writer = conn[k].writer
        /\ e.writes = conn[k].writes /\ e.rtimer = conn[k].rtimer /\ e.wtimer = conn[k].wtimer
        /\ e.connecting = conn[k].connecting /\ e.request = conn[k].request
  BY <1>1, NotOpen
<1>3. stack' = stack /\ cur' = cur /\ ready' = ready /\ st' = st BY <1>1
<1> QED BY <1>2, <1>3, ConnOnly

(* close() on the loop: close_on_loop is called by the coroutine.           *)
LEMMA UserCloseStep == ASSUME Consistent, NEW c \in Coros, UserClose(c) PROVE Consistent'
<1> PICK k : k = cur OBVIOUS
<1> PICK d : d = conn[k] OBVIOUS
<1>1. /\ Running(c) /\ ready /\ stack' = <<Call("close", k, "none")>> \o stack
      /\ conn' = [conn EXCEPT ![k].open = FALSE] /\ cur' = cur /\ ready' = ready /\ st' = st
  BY DEF UserClose, Free, Others
<1>2. /\ stack # <<>> /\ stack[1].call = "resume" /\ k \in Conns
      /\ d \in Connection /\ Good(k) /\ ~d.connecting
  BY <1>1, HasConn
<1>3. PICK e \in Connection :
        /\ conn' = [conn EXCEPT ![k] = e] /\ e.open = FALSE
        /\ e.closing = d.closing /\ e.handles = d.handles /\ e.keep = d.keep
        /\ e.count = d.count /\ e.reader = d.reader /\ e.writer = d.writer
        /\ e.writes = d.writes /\ e.rtimer = d.rtimer /\ e.wtimer = d.wtimer
        /\ e.connecting = d.connecting /\ e.request = d.request
  BY <1>1, <1>2, NotOpen
<1>4. conn' \in [Conns -> Connection] /\ conn'[k] = e /\ \A j \in Conns : j # k => conn'[j] = conn[j]
  BY <1>2, <1>3, Updated
<1>5. Fits(stack, AtWork)
  <2>1. stack \in Seq(Frames) /\ Addressed(stack) /\ Resumes(stack, AtWork)
    BY DEF Consistent, Types, Turns
  <2>2. \A i \in DOMAIN stack : ~(stack[i].call = "finish_connect" /\ stack[i].result = "ok")
    BY <1>2 DEF Consistent, Succeeds
  <2> QED BY <2>1, <2>2 DEF Fits
<1>6. Moved(k, {"close"})
  <2>1. PICK f : f = <<Call("close", k, "none")>> OBVIOUS
  <2>2. PICK F : F = {} OBVIOUS
  <2>3. "close" \in Jobs /\ "none" \in Results BY DEF Jobs, Results
  <2>4. Fits(f, F) /\ \A h, j : HasIn(f, h, j) <=> h = "close" /\ j = k
    BY <1>2, <2>1, <2>2, <2>3, FitsCall
  <2>5. Fits(f, F) /\ Fits(stack, AtWork) /\ \A x \in Coros : ~(x \in F /\ x \in AtWork)
    BY <1>5, <2>2, <2>4
  <2>6. Fits(f \o stack, F \cup AtWork) BY <2>5, FitsJoined
  <2>7. ASSUME NEW g, NEW j PROVE HasIn(f \o stack, g, j) <=> HasIn(f, g, j) \/ HasIn(stack, g, j)
    BY <2>5, HasJoined DEF Fits
  <2>8. F \cup AtWork = AtWork /\ AtWork' = AtWork BY <1>1, <2>2 DEF AtWork
  <2>9. stack' = f \o stack BY <1>1, <2>1
  <2>10. Fits(stack', AtWork') BY <2>6, <2>8, <2>9
  <2>11. \A g, j : Has(g, j)' <=> (g = "close" /\ j = k) \/ Has(g, j) BY <2>4, <2>7, <2>9 DEF Has
  <2> QED BY <2>10, <2>11 DEF Moved
<1>7. /\ \A g \in Jobs : Has(g, k) => Has(g, k)'
      /\ Has("close", k)' /\ (Has("start", k)' => Has("start", k))
  <2>1. \A g \in Jobs : ~Top(g) BY <1>2 DEF Top, Jobs
  <2> QED BY <1>6, <2>1 DEF Moved, Jobs
<1>8. Sound(e) BY <1>2, <1>3 DEF Good, Sound
<1>9. Waits(k)' BY <1>1, <1>2, <1>3, <1>4 DEF Good, Waits
<1>10. Closes(k)' BY <1>2, <1>3, <1>4, <1>7 DEF Good, Closes, Jobs
<1>11. Timed(k)' BY <1>7 DEF Timed
<1>12. Begins(k)' BY <1>1, <1>2, <1>3, <1>4, <1>7 DEF Good, Begins
<1>13. Good(k)' BY <1>4, <1>8, <1>9, <1>10, <1>11, <1>12 DEF Good
<1>14. cur' = cur /\ ready' = ready /\ st' = st /\ k \in Conns BY <1>1, <1>2
<1> QED BY <1>4, <1>6, <1>13, <1>14, Lasts, Typed

(* A coroutine is finished.                                                 *)
LEMMA LeaveStep == ASSUME Consistent, NEW c \in Coros, Leave(c) PROVE Consistent'
<1>1. /\ Running(c) /\ st' = [st EXCEPT ![c] = "done"] /\ Replace(<<>>) /\ conn' = conn
      /\ cur' = cur /\ ready' = ready
  BY DEF Leave, Others
<1>2. stack # <<>> /\ stack[1].call = "resume" /\ st[c] = "run" BY <1>1 DEF Running, Top
<1>3. PICK k \in Conns : TRUE BY TransportAssumption DEF Conns
<1>4. Turned({}) BY <1>1, TurnOver
<1>5. Moved(k, {}) BY <1>1, <1>2, <1>4, MovesNone
<1>6. Good(k) /\ conn[k] \in Connection BY Typed DEF Consistent
<1>7. \A g \in Jobs : Has(g, k) <=> Has(g, k)'
  <2>1. \A g \in Jobs : ~Top(g) BY <1>2 DEF Top, Jobs
  <2> QED BY <1>5, <2>1 DEF Moved
<1>8. \A x \in Coros : st'[x] = IF x = c THEN "done" ELSE st[x] BY <1>1, Typed
<1>9. \A x \in Coros : st[x] \in {"connect", "read", "write"} => st'[x] = st[x] BY <1>2, <1>8
<1>10. (conn[k].open => ready /\ k <= cur) /\ (Has("start", k) => k <= cur)
  BY <1>6 DEF Good, Waits, Begins
<1>11. Good(k)' BY <1>1, <1>6, <1>7, <1>9, <1>10, Kept DEF Jobs
<1>12. st' \in [Coros -> {"idle", "run", "connect", "read", "write", "done"}] BY <1>1, Typed
<1> QED BY <1>1, <1>5, <1>9, <1>11, <1>12, Lasts, Typed

-----------------------------------------------------------------------------
(* The other variables.                                                     *)

(* A step that leaves TLS alone.                                            *)
LEMMA ValuesKept ==
  ASSUME Values, posted' \subseteq Conns, known' \in BOOLEAN, res' \in [Coros -> Results],
         wbio' = wbio, tls' = tls, ready => ready'
  PROVE  Values'
BY DEF Values

(* What a resumed coroutine is told.                                        *)
LEMMA GoesOnValues ==
  ASSUME Values, NEW c, NEW r \in Results, GoesOn(c, r)
  PROVE  res' \in [Coros -> Results]
<1>1. res \in [Coros -> Results] BY DEF Values
<1>2. CASE res' = res BY <1>1, <1>2
<1>3. CASE res' = [res EXCEPT ![c] = r] BY <1>1, <1>3
<1> QED BY <1>2, <1>3 DEF GoesOn

(* What a coroutine is told that is not suspended.                          *)
LEMMA RawValues ==
  ASSUME Values, NEW c, RawRead(c) \/ RawWrite(c)
  PROVE  res' \in [Coros -> Results]
<1>1. res \in [Coros -> Results] BY DEF Values
<1>2. res' = res \/ \E r \in {"busy", "eof", "closed", "ok", "error"} : res' = [res EXCEPT ![c] = r]
  <2>1. CASE RawRead(c) BY <2>1 DEF RawRead
  <2>2. CASE WriteAtOnce(c) BY <2>2 DEF WriteAtOnce
  <2>3. CASE WriteQueued(c) BY <2>3 DEF WriteQueued
  <2> QED BY <2>1, <2>2, <2>3 DEF RawWrite
<1>3. {"busy", "eof", "closed", "ok", "error"} \subseteq Results BY DEF Results
<1> QED BY <1>1, <1>2, <1>3

(* A TLS call, ...                                                          *)
LEMMA SslValues ==
  ASSUME Values, NEW c \in Coros, NEW op \in {"read", "write", "handshake"}, ready, Ssl(c, op)
  PROVE  Values'
<1>1. PICK r \in Outcomes(op), n \in 0..MaxPieces :
        tls' = [tls EXCEPT ![c] = [op |-> op, ssl |-> r, at |-> "flush"]] /\ wbio' = wbio + n
  BY DEF Ssl
<1>2. r \in Done \cup Again BY DEF Outcomes, Done, Again
<1>3. PICK t : t = [op |-> op, ssl |-> r, at |-> "flush"] OBVIOUS
<1>4. t \in TlsStates /\ t.ssl = r BY <1>2, <1>3 DEF TlsStates, Done, Results
<1>5. tls \in [Coros -> TlsStates] /\ wbio \in Nat BY DEF Values
<1>6. tls' \in [Coros -> TlsStates] /\ \A x \in Coros : tls'[x] = IF x = c THEN t ELSE tls[x]
  BY <1>1, <1>3, <1>4, <1>5
<1>7. wbio' \in Nat BY <1>1, <1>5, TransportAssumption
<1>8. posted' = posted /\ known' = known /\ res' = res /\ ready' = ready BY DEF Ssl
<1> QED BY <1>2, <1>4, <1>6, <1>7, <1>8 DEF Values

(* ... its end ...                                                          *)
LEMMA TlsEndValues ==
  ASSUME Values, NEW c \in Coros, NEW r \in Results, TlsEnd(c, r)
  PROVE  Values'
<1>1. PICK t : t = NoTls OBVIOUS
<1>2. t \in TlsStates /\ t.ssl = "none" /\ t.op = "none" BY <1>1 DEF NoTls, TlsStates, Results
<1>3. "none" \in Done BY DEF Done
<1>4. /\ tls' = [tls EXCEPT ![c] = t] /\ res' = [res EXCEPT ![c] = r]
      /\ posted' = posted /\ known' = known /\ wbio' = wbio /\ ready' = ready
  BY <1>1 DEF TlsEnd
<1>5. tls \in [Coros -> TlsStates] /\ res \in [Coros -> Results] BY DEF Values
<1>6. tls' \in [Coros -> TlsStates] /\ \A x \in Coros : tls'[x] = IF x = c THEN t ELSE tls[x]
  BY <1>2, <1>4, <1>5
<1>7. res' \in [Coros -> Results] BY <1>4, <1>5
<1> QED BY <1>2, <1>3, <1>4, <1>6, <1>7 DEF Values

(* ... and what comes in between.                                           *)
LEMMA TlsGotoValues ==
  ASSUME Values, NEW c \in Coros, NEW a \in {"flush", "flushed", "fed"}, TlsGoto(c, a),
         posted' = posted, known' = known, ready' = ready, res' \in [Coros -> Results],
         wbio' \in Nat
  PROVE  Values'
<1>1. tls \in [Coros -> TlsStates] BY DEF Values
<1>2. PICK t : t = [tls[c] EXCEPT !.at = a] OBVIOUS
<1>3. t \in TlsStates /\ t.ssl = tls[c].ssl /\ t.op = tls[c].op BY <1>1, <1>2 DEF TlsStates
<1>4. tls' \in [Coros -> TlsStates] /\ \A x \in Coros : tls'[x] = IF x = c THEN t ELSE tls[x]
  BY <1>1, <1>2, <1>3 DEF TlsGoto
<1> QED BY <1>3, <1>4 DEF Values

-----------------------------------------------------------------------------
(* The steps.                                                               *)

(* The loop's calls.                                                        *)
LEMMA CallsStep == ASSUME TransportInv, Calls PROVE TransportInv'
<1>0. Values /\ Consistent BY DEF TransportInv
<1>1. posted \subseteq Conns /\ known \in BOOLEAN /\ res \in [Coros -> Results] BY <1>0 DEF Values
<1>2. \A g \in Jobs : Top(g) => stack[1].result \in Results BY <1>0, TopCall
<1>3. {"finish_read", "finish_write", "finish_connect"} \subseteq Jobs BY DEF Jobs
<1>4. CASE FinishRead
  <2>1. posted' = posted /\ known' = known /\ wbio' = wbio /\ tls' = tls /\ ready' = ready
    BY <1>4 DEF FinishRead, Others
  <2>2. res' \in [Coros -> Results]
    <3>1. stack[1].result \in Results BY <1>2, <1>3, <1>4 DEF FinishRead
    <3>2. res' = res \/ \E c : GoesOn(c, stack[1].result) BY <1>4 DEF FinishRead
    <3> QED BY <1>0, <1>1, <3>1, <3>2, GoesOnValues
  <2> QED BY <1>0, <1>1, <1>4, <2>1, <2>2, ValuesKept, FinishReadStep DEF TransportInv
<1>5. CASE FinishWrite
  <2>1. posted' = posted /\ known' = known /\ wbio' = wbio /\ tls' = tls /\ ready' = ready
    BY <1>5 DEF FinishWrite, Others
  <2>2. res' \in [Coros -> Results]
    <3>1. stack[1].result \in Results BY <1>2, <1>3, <1>5 DEF FinishWrite
    <3>2. res' = res \/ \E c : GoesOn(c, stack[1].result) BY <1>5 DEF FinishWrite
    <3> QED BY <1>0, <1>1, <3>1, <3>2, GoesOnValues
  <2> QED BY <1>0, <1>1, <1>5, <2>1, <2>2, ValuesKept, FinishWriteStep DEF TransportInv
<1>6. CASE FinishConnect
  <2>1. posted' = posted /\ known' = known /\ wbio' = wbio /\ tls' = tls /\ (ready => ready')
    BY <1>6 DEF FinishConnect
  <2>2. res' \in [Coros -> Results]
    <3>1. stack[1].result \in Results BY <1>2, <1>3, <1>6 DEF FinishConnect
    <3>2. res' = res \/ GoesOn(Main, stack[1].result) BY <1>6 DEF FinishConnect
    <3> QED BY <1>0, <1>1, <3>1, <3>2, GoesOnValues
  <2> QED BY <1>0, <1>1, <1>6, <2>1, <2>2, ValuesKept, FinishConnectStep DEF TransportInv
<1>7. CASE CloseOnLoop
  <2>1. /\ posted' = posted /\ known' = known /\ wbio' = wbio /\ tls' = tls /\ ready' = ready
        /\ res' = res
    BY <1>7 DEF CloseOnLoop, Others
  <2> QED BY <1>0, <1>1, <1>7, <2>1, ValuesKept, CloseOnLoopStep DEF TransportInv
<1>8. CASE CloseHandles
  <2>1. /\ posted' = posted /\ known' = known /\ wbio' = wbio /\ tls' = tls /\ ready' = ready
        /\ res' = res
    BY <1>8 DEF CloseHandles, Others
  <2> QED BY <1>0, <1>1, <1>8, <2>1, ValuesKept, CloseHandlesStep DEF TransportInv
<1>9. CASE Attempt
  <2>1. /\ posted' = posted /\ known' = known /\ wbio' = wbio /\ tls' = tls /\ ready' = ready
        /\ res' = res
    BY <1>9 DEF Attempt
  <2> QED BY <1>0, <1>1, <1>9, <2>1, ValuesKept, AttemptStep DEF TransportInv
<1>10. CASE TimeIsUp \/ NextAddress
  <2>1. /\ posted' = posted /\ known' = known /\ wbio' = wbio /\ tls' = tls /\ ready' = ready
        /\ stack' = stack /\ conn' = conn /\ st' = st /\ cur' = cur
        /\ \E r \in {"timeout", "none"} : res' = [res EXCEPT ![Main] = r]
    BY <1>10 DEF TimeIsUp, NextAddress, Others
  <2>2. {"timeout", "none"} \subseteq Results BY DEF Results
  <2>3. res' \in [Coros -> Results] BY <1>1, <2>1, <2>2
  <2>4. Values' BY <1>0, <1>1, <2>1, <2>3, ValuesKept
  <2> QED BY <1>0, <2>1, <2>4, Unmoved DEF TransportInv
<1>11. CASE StartConnect
  <2>1. /\ posted' = posted /\ known' = known /\ wbio' = wbio /\ tls' = tls /\ ready' = ready
        /\ res' = res
    BY <1>11 DEF StartConnect, Others
  <2> QED BY <1>0, <1>1, <1>11, <2>1, ValuesKept, StartConnectStep DEF TransportInv
<1> QED BY <1>4, <1>5, <1>6, <1>7, <1>8, <1>9, <1>10, <1>11 DEF Calls, TransportInv

(* A coroutine's steps.                                                     *)
LEMMA CoroutineStep == ASSUME TransportInv, NEW c \in Coros, Coroutine(c) PROVE TransportInv'
<1>0. Values /\ Consistent BY DEF TransportInv
<1>1. /\ posted \subseteq Conns /\ known \in BOOLEAN /\ res \in [Coros -> Results] /\ wbio \in Nat
      /\ tls \in [Coros -> TlsStates] /\ tls[c].ssl \in Done \cup Again
      /\ tls[c].op # "none" => ready
  BY <1>0 DEF Values
<1>2. CASE UserRead(c)
  <2>1. /\ Running(c) /\ ready /\ RawRead(c) /\ cur' = cur /\ ready' = ready
        /\ posted' = posted /\ known' = known /\ wbio' = wbio /\ tls' = tls
    BY <1>2 DEF UserRead, Free
  <2>2. res' \in [Coros -> Results] BY <1>0, <2>1, RawValues
  <2> QED BY <1>0, <1>1, <2>1, <2>2, ValuesKept, RawReadStep DEF TransportInv
<1>3. CASE UserWrite(c)
  <2>1. /\ Running(c) /\ ready /\ RawWrite(c) /\ cur' = cur /\ ready' = ready
        /\ posted' = posted /\ known' = known /\ wbio' = wbio /\ tls' = tls
    BY <1>3 DEF UserWrite, Free
  <2>2. res' \in [Coros -> Results] BY <1>0, <2>1, RawValues
  <2> QED BY <1>0, <1>1, <2>1, <2>2, ValuesKept, RawWriteStep DEF TransportInv
<1>4. CASE UserClose(c)
  <2>1. /\ posted' = posted /\ known' = known /\ wbio' = wbio /\ tls' = tls /\ ready' = ready
        /\ res' = res
    BY <1>4 DEF UserClose, Others
  <2> QED BY <1>0, <1>1, <1>4, <2>1, ValuesKept, UserCloseStep DEF TransportInv
<1>5. CASE Leave(c)
  <2>1. /\ posted' = posted /\ known' = known /\ wbio' = wbio /\ tls' = tls /\ ready' = ready
        /\ res' = res
    BY <1>5 DEF Leave, Others
  <2> QED BY <1>0, <1>1, <1>5, <2>1, ValuesKept, LeaveStep DEF TransportInv
<1>6. ASSUME NEW op \in {"read", "write", "handshake"}, ready, Ssl(c, op) PROVE TransportInv'
  <2>1. stack' = stack /\ conn' = conn /\ st' = st /\ cur' = cur /\ ready' = ready BY <1>6 DEF Ssl
  <2> QED BY <1>0, <1>6, <2>1, SslValues, Unmoved DEF TransportInv
<1>7. ASSUME NEW r \in Results, TlsEnd(c, r) PROVE TransportInv'
  <2>1. stack' = stack /\ conn' = conn /\ st' = st /\ cur' = cur /\ ready' = ready
    BY <1>7 DEF TlsEnd
  <2> QED BY <1>0, <1>7, <2>1, TlsEndValues, Unmoved DEF TransportInv
<1>8. ASSUME NEW a, TlsAt(c, a) PROVE Running(c) /\ ready /\ tls[c].op \in {"read", "write", "handshake"}
  BY <1>1, <1>8 DEF TlsAt, TlsStates
<1>9. CASE \E op \in {"read", "write", "handshake"} : TlsBegin(c, op)
  BY <1>6, <1>9 DEF TlsBegin, Free
<1>10. CASE Flush(c)
  <2>1. /\ TlsAt(c, "flush") /\ RawWrite(c) /\ TlsGoto(c, "flushed") /\ wbio > 0 /\ wbio' = wbio - 1
        /\ posted' = posted /\ cur' = cur /\ known' = known /\ ready' = ready
    BY <1>10 DEF Flush
  <2>2. res' \in [Coros -> Results] BY <1>0, <2>1, RawValues
  <2>3. wbio' \in Nat BY <1>1, <2>1
  <2>4. Values' BY <1>0, <2>1, <2>2, <2>3, TlsGotoValues
  <2> QED BY <1>0, <1>8, <2>1, <2>4, RawWriteStep DEF TransportInv
<1>11. CASE Flushed(c)
  <2>1. res[c] \in Results BY <1>1
  <2>2. CASE TlsEnd(c, res[c]) BY <1>7, <2>1, <2>2
  <2>3. CASE /\ TlsGoto(c, "flush")
             /\ UNCHANGED <<stack, posted, conn, cur, known, ready, st, res, ops, wbio, secure>>
    <3>1. /\ stack' = stack /\ conn' = conn /\ st' = st /\ cur' = cur /\ ready' = ready
          /\ posted' = posted /\ known' = known /\ res' \in [Coros -> Results] /\ wbio' \in Nat
      BY <1>1, <2>3
    <3>2. Values' BY <1>0, <2>3, <3>1, TlsGotoValues
    <3> QED BY <1>0, <3>1, <3>2, Unmoved DEF TransportInv
  <2> QED BY <1>11, <2>2, <2>3 DEF Flushed
<1>12. CASE TlsOutcome(c)
  <2>1. /\ TlsAt(c, "flush")
        /\ \/ tls[c].ssl \notin Again /\ TlsEnd(c, tls[c].ssl)
           \/ Ssl(c, tls[c].op)
           \/ /\ RawRead(c) /\ TlsGoto(c, "fed")
              /\ UNCHANGED <<posted, cur, known, ready, ops, wbio, secure>>
    BY <1>12 DEF TlsOutcome
  <2>2. CASE tls[c].ssl \notin Again /\ TlsEnd(c, tls[c].ssl)
    <3>1. tls[c].ssl \in Results BY <1>1, <2>2 DEF Done, Results
    <3> QED BY <1>7, <2>2, <3>1
  <2>3. CASE Ssl(c, tls[c].op) BY <1>6, <1>8, <2>1, <2>3
  <2>4. CASE /\ RawRead(c) /\ TlsGoto(c, "fed")
             /\ UNCHANGED <<posted, cur, known, ready, ops, wbio, secure>>
    <3>1. posted' = posted /\ known' = known /\ ready' = ready /\ cur' = cur /\ wbio' \in Nat
      BY <1>1, <2>4
    <3>2. res' \in [Coros -> Results] BY <1>0, <2>4, RawValues
    <3>3. Values' BY <1>0, <2>4, <3>1, <3>2, TlsGotoValues
    <3> QED BY <1>0, <1>8, <2>1, <2>4, <3>1, <3>3, RawReadStep DEF TransportInv
  <2> QED BY <2>1, <2>2, <2>3, <2>4
<1>13. CASE Fed(c)
  <2>1. /\ TlsAt(c, "fed")
        /\ \/ Ssl(c, tls[c].op)
           \/ \E r \in {"error", "eof", res[c]} : TlsEnd(c, r)
    BY <1>13 DEF Fed
  <2>2. CASE Ssl(c, tls[c].op) BY <1>6, <1>8, <2>1, <2>2
  <2>3. CASE \E r \in {"error", "eof", res[c]} : TlsEnd(c, r)
    <3>1. {"error", "eof", res[c]} \subseteq Results BY <1>1 DEF Results
    <3> QED BY <1>7, <2>3, <3>1
  <2> QED BY <2>1, <2>2, <2>3
<1> QED BY <1>2, <1>3, <1>4, <1>5, <1>9, <1>10, <1>11, <1>12, <1>13 DEF Coroutine

(* A callback of libuv, a step of another thread, ...                       *)
LEMMA ConnectionStep ==
  ASSUME TransportInv, NEW k \in Conns,
         \/ Timers(k) \/ Peer(k) \/ CloseFromThread(k) \/ Drain(k)
         \/ \E h \in Handles : CloseCallback(k, h)
  PROVE  TransportInv'
<1>0. Values /\ Consistent BY DEF TransportInv
<1>1. posted \subseteq Conns /\ known \in BOOLEAN /\ res \in [Coros -> Results] BY <1>0 DEF Values
<1>2. CASE ReadTimeout(k) \/ WriteTimeout(k)
  <2>1. /\ posted' = posted /\ known' = known /\ wbio' = wbio /\ tls' = tls /\ ready' = ready
        /\ res' = res
    BY <1>2 DEF ReadTimeout, WriteTimeout, Others
  <2> QED BY <1>0, <1>1, <1>2, <2>1, ValuesKept, ReadTimeoutStep, WriteTimeoutStep DEF TransportInv
<1>3. CASE Resolved(k)
  <2>1. /\ posted' = posted /\ wbio' = wbio /\ tls' = tls /\ ready' = ready /\ res' = res
        /\ known' = known \/ known' = TRUE
    BY <1>3 DEF Resolved
  <2>2. known' \in BOOLEAN BY <1>1, <2>1
  <2> QED BY <1>0, <1>1, <1>3, <2>1, <2>2, ValuesKept, ResolvedStep DEF TransportInv
<1>4. CASE TcpConnected(k)
  <2>1. /\ posted' = posted /\ known' = known /\ wbio' = wbio /\ tls' = tls /\ ready' = ready
        /\ res' = res
    BY <1>4 DEF TcpConnected, Others
  <2> QED BY <1>0, <1>1, <1>4, <2>1, ValuesKept, TcpConnectedStep DEF TransportInv
<1>5. CASE ReadCallback(k)
  <2>1. /\ posted' = posted /\ known' = known /\ wbio' = wbio /\ tls' = tls /\ ready' = ready
        /\ res' = res
    BY <1>5 DEF ReadCallback, Others
  <2> QED BY <1>0, <1>1, <1>5, <2>1, ValuesKept, ReadCallbackStep DEF TransportInv
<1>6. CASE WriteCallback(k)
  <2>1. /\ posted' = posted /\ known' = known /\ wbio' = wbio /\ tls' = tls /\ ready' = ready
        /\ res' = res
    BY <1>6 DEF WriteCallback, Others
  <2> QED BY <1>0, <1>1, <1>6, <2>1, ValuesKept, WriteCallbackStep DEF TransportInv
<1>7. CASE CloseFromThread(k)
  <2>1. /\ posted' = posted \cup {k} /\ known' = known /\ wbio' = wbio /\ tls' = tls
        /\ ready' = ready /\ res' = res
    BY <1>7 DEF CloseFromThread
  <2>2. posted' \subseteq Conns BY <1>1, <2>1
  <2> QED BY <1>0, <1>1, <1>7, <2>1, <2>2, ValuesKept, CloseFromThreadStep DEF TransportInv
<1>8. CASE Drain(k)
  <2>1. /\ posted' = posted \ {k} /\ known' = known /\ wbio' = wbio /\ tls' = tls
        /\ ready' = ready /\ res' = res
    BY <1>8 DEF Drain
  <2>2. posted' \subseteq Conns BY <1>1, <2>1
  <2> QED BY <1>0, <1>1, <1>8, <2>1, <2>2, ValuesKept, DrainStep DEF TransportInv
<1>9. CASE \E h \in Handles : CloseCallback(k, h)
  <2>1. PICK h \in Handles : CloseCallback(k, h) BY <1>9
  <2>2. /\ posted' = posted /\ known' = known /\ wbio' = wbio /\ tls' = tls /\ ready' = ready
        /\ res' = res
    BY <2>1 DEF CloseCallback, Others
  <2> QED BY <1>0, <1>1, <2>1, <2>2, ValuesKept, CloseCallbackStep DEF TransportInv
<1> QED BY <1>2, <1>3, <1>4, <1>5, <1>6, <1>7, <1>8, <1>9 DEF Timers, Peer

(* ... and the beginning of a coroutine.                                    *)
LEMMA BeginningStep ==
  ASSUME TransportInv, Accept \/ \E c \in Coros : Start(c)
  PROVE  TransportInv'
<1>0. Values /\ Consistent BY DEF TransportInv
<1>1. posted \subseteq Conns /\ known \in BOOLEAN /\ res \in [Coros -> Results] BY <1>0 DEF Values
<1>2. CASE Accept
  <2>1. posted' = posted /\ known' = known /\ wbio' = wbio /\ tls' = tls /\ cur = 0
    BY <1>2 DEF Accept
  <2>2. ~ready BY <1>0, <2>1, Typed DEF Conns
  <2>3. res' \in [Coros -> Results]
    <3>1. res' = res \/ res' = [res EXCEPT ![Main] = "ok"] BY <1>2 DEF Accept
    <3>2. "ok" \in Results BY DEF Results
    <3> QED BY <1>1, <3>1, <3>2
  <2> QED BY <1>0, <1>1, <1>2, <2>1, <2>2, <2>3, ValuesKept, AcceptStep DEF TransportInv
<1>3. CASE \E c \in Coros : Start(c)
  <2>1. PICK c \in Coros : Start(c) BY <1>3
  <2>2. /\ posted' = posted /\ known' = known /\ wbio' = wbio /\ tls' = tls /\ ready' = ready
        /\ res' = res
    BY <2>1 DEF Start, Others
  <2> QED BY <1>0, <1>1, <2>1, <2>2, ValuesKept, StartStep DEF TransportInv
<1> QED BY <1>2, <1>3

(* Every step preserves the invariant.                                      *)
LEMMA TransportStep == TransportInv /\ [Next]_vars => TransportInv'
<1> SUFFICES ASSUME TransportInv, [Next]_vars PROVE TransportInv' OBVIOUS
<1>1. CASE UNCHANGED vars
  <2>1. /\ stack' = stack /\ conn' = conn /\ st' = st /\ cur' = cur /\ ready' = ready
        /\ posted' = posted /\ known' = known /\ res' = res /\ wbio' = wbio /\ tls' = tls
    BY <1>1 DEF vars
  <2>2. Values' BY <2>1 DEF TransportInv, Values
  <2> QED BY <2>1, <2>2, Unmoved DEF TransportInv
<1>2. CASE Calls BY <1>2, CallsStep
<1>3. CASE \E c \in Coros : Coroutine(c) BY <1>3, CoroutineStep
<1>4. CASE Accept \/ \E c \in Coros : Start(c) BY <1>4, BeginningStep
<1>5. CASE \E k \in Conns : \/ Timers(k) \/ Peer(k) \/ CloseFromThread(k) \/ Drain(k)
                            \/ \E h \in Handles : CloseCallback(k, h)
  BY <1>5, ConnectionStep
<1>6. CASE Ended BY <1>1, <1>6 DEF Ended
<1> QED BY <1>1, <1>2, <1>3, <1>4, <1>5, <1>6 DEF Next, Loop

(* And it holds at the beginning.                                           *)
LEMMA TransportInit == Init => TransportInv
<1> SUFFICES ASSUME Init PROVE TransportInv OBVIOUS
<1>1. /\ stack = <<>> /\ posted = {} /\ cur = 0 /\ known = FALSE /\ ready = FALSE /\ wbio = 0
      /\ conn = [k \in Conns |-> NewConn] /\ st = [c \in Coros |-> "idle"]
      /\ res = [c \in Coros |-> "none"] /\ tls = [c \in Coros |-> NoTls]
  BY DEF Init
<1>2. PICK t : t = NoTls OBVIOUS
<1>3. t \in TlsStates /\ t.ssl = "none" /\ t.op = "none" /\ "none" \in Done
  BY <1>2 DEF NoTls, TlsStates, Results, Done
<1>4. tls \in [Coros -> TlsStates] /\ \A c \in Coros : tls[c] = t BY <1>1, <1>2, <1>3
<1>5. res \in [Coros -> Results] BY <1>1 DEF Results
<1>6. Values BY <1>1, <1>3, <1>4, <1>5 DEF Values
<1>7. PICK n : n = NewConn OBVIOUS
<1>8. /\ n \in Connection /\ n.keep = FALSE /\ n.connecting = FALSE /\ n.handles = {}
      /\ n.open = FALSE /\ n.closing = FALSE /\ n.reader = NoCoro /\ n.writer = NoCoro
      /\ n.rtimer = FALSE /\ n.wtimer = FALSE /\ n.request = "none" /\ DOMAIN n.writes = {}
  BY <1>7, Fresh
<1>9. conn \in [Conns -> Connection] /\ \A k \in Conns : conn[k] = n BY <1>1, <1>7, <1>8
<1>10. Fits(stack, {}) /\ \A g, k : ~Has(g, k) BY <1>1, FitsNone DEF Has
<1>11. Types
  <2>1. cur \in 0..Addresses BY <1>1, TransportAssumption
  <2>2. st \in [Coros -> {"idle", "run", "connect", "read", "write", "done"}] BY <1>1
  <2> QED BY <1>1, <1>9, <1>10, <2>1, <2>2 DEF Types, Fits
<1>12. Turns /\ Succeeds
  <2>1. AtWork = {} BY <1>1 DEF AtWork
  <2> QED BY <1>10, <2>1 DEF Turns, Succeeds, Fits
<1>13. ASSUME NEW k \in Conns PROVE Good(k)
  BY <1>8, <1>9, <1>10 DEF Good, Sound, Waits, Closes, Timed, Begins
<1> QED BY <1>6, <1>11, <1>12, <1>13 DEF TransportInv, Consistent

(* The invariant holds in every state.                                      *)
THEOREM TransportInvariant == Spec => []TransportInv
BY TransportInit, TransportStep, PTL DEF Spec

(* Type correctness of the transport.                                       *)
THEOREM TransportTypeCorrect == Spec => []TypeOK
<1>1. TransportInv => TypeOK BY DEF TransportInv, Values, Consistent, Types, TypeOK
<1> QED BY <1>1, TransportInvariant, PTL

(* A suspended operation is resumed exactly once, whichever of completion,  *)
(* timer and close comes first (finish_read, finish_write, finish_connect). *)
THEOREM ResumedOnce == Spec => []OperationResumedOnce
<1>1. ASSUME TransportInv PROVE OperationResumedOnce
  <2>1. Resumes(stack, AtWork) BY <1>1 DEF TransportInv, Consistent, Turns
  <2>2. ASSUME NEW c \in Coros
        PROVE  Cardinality({i \in DOMAIN stack : stack[i].call = "resume" /\ stack[i].coro = c})
                 = IF st[c] = "run" THEN 1 ELSE 0
    <3> PICK S : S = {i \in DOMAIN stack : stack[i].call = "resume" /\ stack[i].coro = c} OBVIOUS
    <3>1. CASE st[c] = "run"
      <4>1. PICK i \in DOMAIN stack : stack[i].call = "resume" /\ stack[i].coro = c
        BY <2>1, <3>1 DEF Resumes, AtWork
      <4>2. S = {i} BY <2>1, <4>1 DEF Resumes
      <4>3. Cardinality(S) = 1 BY <4>2, FS_Singleton
      <4> QED BY <3>1, <4>3
    <3>2. CASE st[c] # "run"
      <4>1. S = {} BY <2>1, <3>2 DEF Resumes, AtWork
      <4>2. Cardinality(S) = 0 BY <4>1, FS_EmptySet
      <4> QED BY <3>2, <4>2
    <3> QED BY <3>1, <3>2
  <2> QED BY <2>2 DEF OperationResumedOnce
<1> QED BY <1>1, TransportInvariant, PTL

(* Between two callbacks a timer of Connection runs just when an operation  *)
(* waits for it.                                                            *)
THEOREM TimersMatch == Spec => []TimerPerOperation
<1>1. ASSUME TransportInv PROVE TimerPerOperation
  <2>1. Consistent BY <1>1 DEF TransportInv
  <2> QED BY <2>1, AtRest DEF TimerPerOperation
<1> QED BY <1>1, TransportInvariant, PTL

(* A connection keeps itself alive while libuv can call back with it, and a *)
(* closing one at rest has nobody waiting (close_on_loop, handle_closed).   *)
THEOREM KeptAlive == Spec => []KeptWhileInUse
<1>1. ASSUME TransportInv PROVE KeptWhileInUse
  <2>1. Consistent BY <1>1 DEF TransportInv
  <2>2. ASSUME NEW k \in Conns
        PROVE  LET d == conn[k] IN
               /\ d.handles # {} \/ (\E i \in DOMAIN d.writes : d.writes[i]) => d.keep
               /\ d.closing => ~d.open
               /\ d.closing /\ stack = <<>> =>
                    d.reader = NoCoro /\ d.writer = NoCoro /\ ~d.connecting
    <3>1. Sound(conn[k]) BY <2>1 DEF Consistent, Good
    <3>2. Handles # {} BY DEF Handles
    <3>3. stack = <<>> /\ conn[k].closing =>
            conn[k].reader = NoCoro /\ conn[k].writer = NoCoro /\ ~conn[k].connecting
      BY <2>1, AtRest
    <3> QED BY <3>1, <3>2, <3>3 DEF Sound
  <2> QED BY <2>2 DEF KeptWhileInUse
<1> QED BY <1>1, TransportInvariant, PTL
=============================================================================
