--------------------------- MODULE TcpRelayProofs ---------------------------
(***************************************************************************)
(* Proofs about TcpRelay, for every number of bytes, every window, buffer, *)
(* chunk and water mark, and every number of faults.                       *)
(*                                                                         *)
(* A handler of the client works on a record x, a handler of the server on *)
(* a record y, so the invariant is the conjunction of a predicate of each  *)
(* side and of the two equations that join them.  Each operator has a      *)
(* lemma: it keeps the predicate of its side and the bytes it moves.       *)
(***************************************************************************)
EXTENDS TcpRelay, SequenceTheorems, TLAPS

Bytes == Seq(Nat)

Flow ==
    [state : {"pending_stream", "active", "closing", "freed"}, q : Bytes, withheld : BOOLEAN,
     held : Nat, stash : Bytes, paused : BOOLEAN, tcp_fin_seen : BOOLEAN, fin_sent : BOOLEAN,
     fin_received : BOOLEAN, pcb : {"open", "closed", "aborted"}, credit : Nat, snd : Bytes,
     shut : BOOLEAN]

Stream ==
    [hdr : {"none", "200", "error"}, wire : Bytes, body : Bytes, fin : BOOLEAN,
     fin_in : BOOLEAN, reset : BOOLEAN]

Egress ==
    [state : {"connecting", "active", "freed"}, stash : Bytes, paused : BOOLEAN,
     fin_received : BOOLEAN, shutdown_done : BOOLEAN, up_stash : Bytes, withheld : BOOLEAN,
     eof : BOOLEAN, fin_sent : BOOLEAN, want_read : BOOLEAN, want_write : BOOLEAN,
     closed : BOOLEAN]

Socket == [out : Bytes, out_fin : BOOLEAN, in : Bytes, in_fin : BOOLEAN]
Peer   == [sent : Nat, fin : BOOLEAN, got : Bytes]
Status == {"LIVE", "GONE", "ABORTED"}

ClientRec == [c : Flow, up : Stream, down : Stream, st : Status]
ServerRec == [e : Egress, up : Stream, down : Stream, sk : Socket]

(* Nothing is in flight behind a FIN that has arrived. *)
StreamOK(h) == Room(h) >= 0 /\ (h.fin_in => h.fin /\ h.wire = <<>>)

-----------------------------------------------------------------------------
(* What is true of the client's side at the end of each of its calls *)

(* The flow owns its pcb until it closes or aborts it. *)
PcbOwned(f) ==
    /\ f.pcb = "open" <=> f.state \in {"pending_stream", "active"}
    /\ f.pcb = "closed" <=> f.state = "closing"

(* The window is owed, and bounds the queue. *)
WindowKept(f) ==
    /\ f.credit = f.held /\ f.credit <= Wnd
    /\ f.held > 0 => f.withheld
    /\ Len(f.q) <= HighWater + f.credit

Waits(f) == f.pcb = "open" /\ f.withheld => f.q # <<>>

(* A flow is paused with a chunk in its stash. *)
Stashed(f) ==
    /\ f.paused <=> f.stash # <<>>
    /\ Len(f.stash) <= Mss /\ Len(f.snd) <= SndBuf

FinsSent(x) ==
    /\ x.c.fin_sent => x.c.q = <<>> /\ x.up.fin
    /\ x.up.fin /\ x.c.state # "freed" => x.c.fin_sent

FinsSeen(x) ==
    /\ x.c.shut = x.c.fin_received
    /\ x.c.fin_received => x.down.fin_in /\ x.c.stash = <<>> /\ x.down.body = <<>>

ClientOK(x) ==
    /\ x \in ClientRec
    /\ StreamOK(x.up) /\ StreamOK(x.down)
    /\ PcbOwned(x.c) /\ WindowKept(x.c) /\ Stashed(x.c)
    /\ FinsSent(x) /\ FinsSeen(x)
    /\ x.c.state = "freed" => x.c = [NewFlow EXCEPT !.state = "freed", !.pcb = "aborted"]

-----------------------------------------------------------------------------
(* What is true of the server's side *)

Connecting(f) ==
    /\ f.stash = <<>> /\ f.up_stash = <<>>
    /\ ~f.paused /\ ~f.withheld /\ ~f.eof /\ ~f.fin_sent /\ ~f.fin_received

(* A flow is paused with a chunk in its stash, withholds reads with a      *)
(* chunk in the other, and is registered for what it waits for.            *)
Registered(f) ==
    /\ f.paused <=> f.stash # <<>>
    /\ f.withheld <=> f.up_stash # <<>>
Interest(f) ==
    /\ f.want_write = f.paused
    /\ f.want_read = (~f.withheld /\ ~f.eof)

ShutdownOK(y) ==
    /\ y.e.shutdown_done = y.e.fin_received
    /\ y.e.fin_received => y.up.fin_in /\ y.e.stash = <<>> /\ y.up.body = <<>>

EofOK(y) ==
    /\ y.e.fin_sent = y.down.fin
    /\ y.e.fin_sent => y.e.eof /\ y.e.up_stash = <<>>
    /\ y.e.eof => y.sk.in_fin /\ y.sk.in = <<>>

ServerOK(y) ==
    /\ y \in ServerRec
    /\ StreamOK(y.up) /\ StreamOK(y.down)
    /\ Len(y.e.stash) <= Chunk /\ Len(y.e.up_stash) <= Chunk
    /\ Len(y.sk.out) <= SockCap /\ Len(y.sk.in) <= SockCap
    /\ y.e.state = "connecting" => Connecting(y.e)
    /\ y.e.state = "active" => Registered(y.e)
    /\ ShutdownOK(y) /\ EofOK(y)

-----------------------------------------------------------------------------
(* The two directions, from the receiver to the sender, for a flow f of    *)
(* the client, a flow g of the server, the stream's directions u and d and *)
(* the socket k.  A direction is whole until a flow is freed that has not  *)
(* seen its end.                                                           *)

UpWhole(f, u, g, k, in, or) ==
    (f.state # "freed" \/ u.fin) /\ (g.state # "freed" \/ g.shutdown_done)
        => or.got \o (k.out \o (g.stash \o (u.body \o (u.wire \o f.q)))) = Count(in.sent)

DownWhole(f, d, g, k, in, or) ==
    f.state # "freed" /\ (g.state # "freed" \/ g.fin_sent)
        => in.got \o (f.snd \o (f.stash \o (d.body \o (d.wire \o (g.up_stash \o k.in)))))
             = Count(or.sent)

(* A FIN on the way was sent. *)
FinsMeant(f, u, k, in, or) ==
    /\ in \in Peer /\ or \in Peer
    /\ f.tcp_fin_seen => in.fin
    /\ u.fin => in.fin
    /\ k.in_fin => or.fin

OnClient(f, u, d) == [c |-> f, up |-> u, down |-> d, st |-> "LIVE"]
OnServer(g, u, d, k) == [e |-> g, up |-> u, down |-> d, sk |-> k]

Sides(f, u, d, g, k, in, or) ==
    /\ ClientOK(OnClient(f, u, d)) /\ Waits(f)
    /\ ServerOK(OnServer(g, u, d, k)) /\ (g.state = "active" => Interest(g))
    /\ FinsMeant(f, u, k, in, or)
    /\ UpWhole(f, u, g, k, in, or) /\ DownWhole(f, d, g, k, in, or)

(* The inductive invariant. *)
RelayInv ==
    /\ Sides(c, up, down, e, sk, inner, origin)
    /\ AbortReported /\ lwip \in {"none", "ERR_OK", "ERR_ABRT"}

-----------------------------------------------------------------------------
(* Constants and sequences *)

LEMMA Bounds ==
    /\ Wnd \in Nat /\ HighWater \in Nat /\ LowWater \in Nat /\ SndBuf \in Nat /\ Mss \in Nat
    /\ H3Cap \in Nat /\ SockCap \in Nat /\ Chunk \in Nat
    /\ 0 < LowWater /\ LowWater <= HighWater /\ 0 < Mss /\ 0 < Chunk
  BY RelayAssumption

LEMMA Empty == <<>> \in Bytes /\ Len(<<>>) = 0 /\ \A s \in Bytes : s = <<>> <=> Len(s) = 0
  <1>1. <<>> \in Bytes /\ Len(<<>>) = 0
    BY EmptySeq DEF Bytes
  <1>2. ASSUME NEW s \in Bytes
        PROVE  s = <<>> <=> Len(s) = 0
    BY EmptySeq DEF Bytes
  <1> QED
    BY <1>1, <1>2

LEMMA LenType == \A s \in Bytes : Len(s) \in Nat
  BY LenProperties DEF Bytes

LEMMA Joined ==
    ASSUME NEW s \in Bytes, NEW t \in Bytes
    PROVE  s \o t \in Bytes /\ Len(s \o t) = Len(s) + Len(t)
  BY ConcatProperties DEF Bytes

LEMMA JoinEmpty ==
    ASSUME NEW s \in Bytes
    PROVE  s \o <<>> = s /\ <<>> \o s = s
  BY ConcatEmptySeq DEF Bytes

LEMMA Assoc ==
    ASSUME NEW s \in Bytes, NEW t \in Bytes, NEW u \in Bytes
    PROVE  (s \o t) \o u = s \o (t \o u)
  BY SMTT(90), ConcatAssociative DEF Bytes

(* A part of a sequence. *)
LEMMA Part ==
    ASSUME NEW s \in Bytes, NEW m \in Nat, NEW n \in Nat, m <= n, n <= Len(s)
    PROVE  SubSeq(s, m + 1, n) \in Bytes /\ Len(SubSeq(s, m + 1, n)) = n - m
  <1>1. \A i \in (m + 1)..n : s[i] \in Nat
    BY ElementOfSeq, LenType DEF Bytes
  <1>2. /\ SubSeq(s, m + 1, n) \in Seq(Nat)
        /\ Len(SubSeq(s, m + 1, n)) = IF m + 1 <= n THEN n - (m + 1) + 1 ELSE 0
    BY SMTT(90), <1>1, SubSeqProperties
  <1> QED
    BY <1>2 DEF Bytes

(* A sequence cut in two. *)
LEMMA Cut ==
    ASSUME NEW s \in Bytes, NEW n \in Nat, n <= Len(s)
    PROVE  /\ Front(s, n) \in Bytes /\ Len(Front(s, n)) = n
           /\ After(s, n) \in Bytes /\ Len(After(s, n)) = Len(s) - n
           /\ Front(s, n) \o After(s, n) = s
  <1>1. Len(s) \in Nat
    BY LenType
  <1>2. Front(s, n) \in Bytes /\ Len(Front(s, n)) = n
    <2>1. SubSeq(s, 0 + 1, n) \in Bytes /\ Len(SubSeq(s, 0 + 1, n)) = n - 0
      BY Part
    <2>2. 0 + 1 = 1 /\ n - 0 = n
      OBVIOUS
    <2> QED
      BY <2>1, <2>2 DEF Front
  <1>3. After(s, n) \in Bytes /\ Len(After(s, n)) = Len(s) - n
    BY <1>1, Part DEF After
  <1>4. SubSeq(s, 1, n) \o SubSeq(s, n + 1, Len(s)) = SubSeq(s, 1, Len(s))
    <2>1. s \in Seq(Nat) /\ 1 \in 1..Len(s)+1 /\ n \in 1-1..Len(s) /\ Len(s) \in n..Len(s)
      BY <1>1 DEF Bytes
    <2> QED
      BY <2>1, ConcatAdjacentSubSeq
  <1>5. SubSeq(s, 1, Len(s)) = s
    BY SubSeqFull DEF Bytes
  <1> QED
    BY <1>2, <1>3, <1>4, <1>5 DEF Front, After

(* A sequence cut in three. *)
LEMMA CutTwice ==
    ASSUME NEW s \in Bytes, NEW m \in Nat, NEW n \in Nat, m <= n, n <= Len(s)
    PROVE  /\ SubSeq(s, m + 1, n) \in Bytes /\ Len(SubSeq(s, m + 1, n)) = n - m
           /\ Front(s, m) \o (SubSeq(s, m + 1, n) \o After(s, n)) = s
  <1>1. Len(s) \in Nat
    BY LenType
  <1>2. SubSeq(s, m + 1, n) \in Bytes /\ Len(SubSeq(s, m + 1, n)) = n - m
    BY Part
  <1>3. SubSeq(s, m + 1, n) \o SubSeq(s, n + 1, Len(s)) = SubSeq(s, m + 1, Len(s))
    <2>1. s \in Seq(Nat) /\ m + 1 \in 1..Len(s)+1 /\ n \in (m+1)-1..Len(s) /\ Len(s) \in n..Len(s)
      BY <1>1 DEF Bytes
    <2> QED
      BY <2>1, ConcatAdjacentSubSeq
  <1>4. Front(s, m) \o After(s, m) = s
    <2>1. m <= Len(s)
      BY <1>1
    <2> QED
      BY <2>1, Cut
  <1> QED
    BY <1>2, <1>3, <1>4 DEF After

LEMMA Counted ==
    ASSUME NEW m \in Nat, NEW n \in Nat
    PROVE  /\ Count(m) \in Bytes /\ Len(Count(m)) = m
           /\ After(Count(m + n), m) \in Bytes /\ Len(After(Count(m + n), m)) = n
           /\ Count(m) \o After(Count(m + n), m) = Count(m + n)
  <1>1. ASSUME NEW k \in Nat
        PROVE  Count(k) \in Bytes /\ Len(Count(k)) = k
    <2>1. Count(k) \in [1..k -> Nat]
      BY DEF Count
    <2>2. Count(k) \in Seq(Nat)
      BY <2>1, SeqDef
    <2> QED
      BY <2>1, <2>2, LenProperties DEF Bytes, Count
  <1>2. /\ Front(Count(m + n), m) \in Bytes /\ Len(Front(Count(m + n), m)) = m
        /\ After(Count(m + n), m) \in Bytes /\ Len(After(Count(m + n), m)) = n
        /\ Front(Count(m + n), m) \o After(Count(m + n), m) = Count(m + n)
    <2> DEFINE s == Count(m + n)
    <2>1. s \in Bytes /\ Len(s) = m + n
      BY <1>1
    <2> HIDE DEF s
    <2>4. m <= Len(s)
      BY <2>1
    <2>2. /\ Front(s, m) \in Bytes /\ Len(Front(s, m)) = m
          /\ After(s, m) \in Bytes /\ Len(After(s, m)) = Len(s) - m
          /\ Front(s, m) \o After(s, m) = s
      BY <2>1, <2>4, Cut
    <2>3. Len(s) - m = n
      BY <2>1
    <2> QED
      BY <2>2, <2>3 DEF s
  <1>3. Front(Count(m + n), m) = Count(m)
    <2>1. \A i \in 1..m : Count(m + n)[i] \in Nat /\ Count(m + n)[i] = i /\ Count(m)[i] = i
      BY DEF Count
    <2>2. \A i \in 1..m-1+1 : SubSeq(Count(m + n), 1, m)[i] = Count(m + n)[1+i-1]
      BY <2>1, SubSeqProperties
    <2>3. \A i \in 1..m : Front(Count(m + n), m)[i] = Count(m)[i]
      BY <2>1, <2>2 DEF Front
    <2> QED
      BY <1>1, <1>2, <2>3, SeqEqual DEF Bytes
  <1> QED
    BY <1>1, <1>2, <1>3

LEMMA Smallest ==
    ASSUME NEW a \in Nat, NEW b \in Nat
    PROVE  Smaller(a, b) \in Nat /\ Smaller(a, b) <= a /\ Smaller(a, b) <= b
  BY DEF Smaller

(* Whole chunks of size k below n. *)
LEMMA Floor ==
    ASSUME NEW n \in Nat, NEW k \in Nat, 0 < k
    PROVE  (n \div k) * k \in Nat /\ (n \div k) * k <= n /\ n < (n \div k) * k + k
  <1>1. n \div k \in Nat /\ n % k \in 0..(k - 1) /\ n = k * (n \div k) + (n % k)
    BY Z3
  <1>2. (n \div k) * k = k * (n \div k) /\ k * (n \div k) \in Nat
    BY <1>1, Z3
  <1> QED
    BY <1>1, <1>2

(* What moves between two neighbours. *)
LEMMA Move ==
    ASSUME NEW s \in Bytes, NEW t \in Bytes, NEW n \in Nat, n <= Len(t)
    PROVE  /\ s \o Front(t, n) \in Bytes /\ Len(s \o Front(t, n)) = Len(s) + n
           /\ (s \o Front(t, n)) \o After(t, n) = s \o t
  <1>1. /\ Front(t, n) \in Bytes /\ Len(Front(t, n)) = n
        /\ After(t, n) \in Bytes /\ Front(t, n) \o After(t, n) = t
    BY Cut
  <1>2. s \o Front(t, n) \in Bytes /\ Len(s \o Front(t, n)) = Len(s) + Len(Front(t, n))
    BY <1>1, Joined
  <1>3. (s \o Front(t, n)) \o After(t, n) = s \o (Front(t, n) \o After(t, n))
    BY <1>1, Assoc
  <1> QED
    BY <1>1, <1>2, <1>3

-----------------------------------------------------------------------------
(* The client's operators *)

(* A call of the client on x leaves z: it moves the bytes it takes from    *)
(* the application to the stream and those of the stream to lwIP, and      *)
(* drops them only with the flow.                                          *)
ClientKeeps(x, z) ==
    /\ ClientOK(z)
    /\ z.up.body = x.up.body /\ z.up.fin_in = x.up.fin_in
    /\ z.down.wire = x.down.wire /\ z.down.fin = x.down.fin /\ z.down.fin_in = x.down.fin_in
    /\ z.up.fin => x.up.fin \/ x.c.tcp_fin_seen
    /\ z.c.tcp_fin_seen => x.c.tcp_fin_seen
    /\ z.c.state = "freed" => z.up.fin = x.up.fin
    /\ z.c.state # "freed" \/ z.up.fin => z.up.wire \o z.c.q = x.up.wire \o x.c.q
    /\ z.c.state # "freed" => z.c.snd \o (z.c.stash \o z.down.body)
                                = x.c.snd \o (x.c.stash \o x.down.body)
    /\ z.st = "ABORTED" <=> z.c.pcb = "aborted"
    /\ z.st = "LIVE" <=> z.c.pcb = "open"

(* The flow is there. *)
Running(x) == ClientOK(x) /\ x.st = "LIVE" /\ x.c.pcb = "open"

LEMMA KeepsItself ==
    ASSUME NEW x, Running(x)
    PROVE  ClientKeeps(x, x)
  BY SMTT(90) DEF Running, ClientKeeps, ClientOK, PcbOwned

LEMMA KeepsOn ==
    ASSUME NEW x, NEW y, NEW z, ClientKeeps(x, y), y.st = "LIVE", ClientKeeps(y, z),
           z.c.state = "freed" => y.up.fin = x.up.fin
    PROVE  ClientKeeps(x, z)
  <1>1. y.c.state # "freed"
    BY DEF ClientKeeps, ClientOK, PcbOwned
  <1> QED
    BY ZenonT(90), <1>1 DEF ClientKeeps

LEMMA TeardownFields ==
    ASSUME NEW x \in ClientRec, NEW close_h3 \in BOOLEAN
    PROVE  LET z == TeardownFlow(x, close_h3) IN
           /\ z \in ClientRec
           /\ z.c = [NewFlow EXCEPT !.state = "freed", !.pcb = "aborted"]
           /\ z.up.body = x.up.body /\ z.up.wire = x.up.wire /\ z.up.fin = x.up.fin
           /\ z.up.fin_in = x.up.fin_in
           /\ z.down = x.down
           /\ z.st = IF x.c.pcb = "open" THEN "ABORTED" ELSE "GONE"
  <1>1. [NewFlow EXCEPT !.state = "freed", !.pcb = "aborted"] \in Flow
    BY Empty DEF NewFlow, Flow
  <1> QED
    BY <1>1 DEF TeardownFlow, ClientRec, Stream, Status

LEMMA FreedFields ==
    LET f == [NewFlow EXCEPT !.state = "freed", !.pcb = "aborted"] IN
    /\ f \in Flow /\ f.state = "freed" /\ f.pcb = "aborted" /\ f.q = <<>> /\ f.stash = <<>>
    /\ f.snd = <<>> /\ f.paused = FALSE /\ ~f.withheld /\ f.held = 0 /\ f.credit = 0
    /\ ~f.tcp_fin_seen /\ ~f.fin_sent /\ f.fin_received = FALSE /\ f.shut = FALSE
  BY Empty DEF NewFlow, Flow

LEMMA TeardownOK ==
    ASSUME NEW x, ClientOK(x), NEW close_h3 \in BOOLEAN
    PROVE  ClientOK(TeardownFlow(x, close_h3))
  <1> DEFINE z == TeardownFlow(x, close_h3)
  <1>1. /\ z \in ClientRec
        /\ z.c = [NewFlow EXCEPT !.state = "freed", !.pcb = "aborted"]
        /\ z.up.body = x.up.body /\ z.up.wire = x.up.wire /\ z.up.fin = x.up.fin
        /\ z.up.fin_in = x.up.fin_in /\ z.down = x.down
    BY TeardownFields DEF ClientOK
  <1> HIDE DEF z
  <1>2. StreamOK(z.up) /\ StreamOK(z.down)
    BY <1>1 DEF ClientOK, StreamOK, Room
  <1>3. PcbOwned(z.c) /\ WindowKept(z.c) /\ Stashed(z.c)
    BY <1>1, FreedFields, Bounds, Empty DEF PcbOwned, WindowKept, Stashed
  <1>4. FinsSent(z) /\ FinsSeen(z)
    BY <1>1, FreedFields DEF FinsSent, FinsSeen
  <1> QED
    BY <1>1, <1>2, <1>3, <1>4 DEF ClientOK, z

LEMMA TeardownKeeps ==
    ASSUME NEW x, Running(x), NEW close_h3 \in BOOLEAN
    PROVE  ClientKeeps(x, TeardownFlow(x, close_h3))
  <1> DEFINE z == TeardownFlow(x, close_h3)
  <1>1. ClientOK(z)
    BY TeardownOK DEF Running
  <1>2. /\ z.c = [NewFlow EXCEPT !.state = "freed", !.pcb = "aborted"]
        /\ z.up.body = x.up.body /\ z.up.wire = x.up.wire /\ z.up.fin = x.up.fin
        /\ z.up.fin_in = x.up.fin_in /\ z.down = x.down /\ z.st = "ABORTED"
    BY TeardownFields DEF ClientOK, Running
  <1> HIDE DEF z
  <1>3. z.c.state = "freed" /\ z.c.pcb = "aborted" /\ z.c.q = <<>> /\ ~z.c.tcp_fin_seen
    BY <1>2, FreedFields
  <1>4. z.up.fin => x.c.q = <<>>
    BY <1>2 DEF Running, ClientOK, FinsSent, PcbOwned
  <1> QED
    BY <1>1, <1>2, <1>3, <1>4 DEF ClientKeeps, z

LEMMA CloseFields ==
    ASSUME NEW x \in ClientRec
    PROVE  LET z == FinishCleanClose(x) IN
           /\ z \in ClientRec /\ z.up = x.up /\ z.down = x.down /\ z.st = "GONE"
           /\ z.c.state = "closing" /\ z.c.pcb = "closed" /\ z.c.stash = <<>>
           /\ z.c.q = x.c.q /\ z.c.snd = x.c.snd /\ z.c.paused = x.c.paused
           /\ z.c.withheld = x.c.withheld /\ z.c.held = x.c.held /\ z.c.credit = x.c.credit
           /\ z.c.tcp_fin_seen = x.c.tcp_fin_seen /\ z.c.fin_sent = x.c.fin_sent
           /\ z.c.fin_received = x.c.fin_received /\ z.c.shut = x.c.shut
  <1>1. [x.c EXCEPT !.state = "closing", !.pcb = "closed", !.stash = <<>>] \in Flow
    BY Empty DEF ClientRec, Flow
  <1> QED
    BY <1>1 DEF FinishCleanClose, ClientRec, Flow, Status

(* The flow may close when it has sent its FIN and seen the other's. *)
LEMMA CloseKeeps ==
    ASSUME NEW x, Running(x), x.c.fin_sent, x.c.fin_received
    PROVE  ClientKeeps(x, FinishCleanClose(x))
  <1> DEFINE z == FinishCleanClose(x)
  <1>0. x \in ClientRec /\ x.c \in Flow
    BY DEF Running, ClientOK, ClientRec
  <1>1. /\ z \in ClientRec /\ z.up = x.up /\ z.down = x.down /\ z.st = "GONE"
        /\ z.c.state = "closing" /\ z.c.pcb = "closed" /\ z.c.stash = <<>>
        /\ z.c.q = x.c.q /\ z.c.snd = x.c.snd /\ z.c.paused = x.c.paused
        /\ z.c.withheld = x.c.withheld /\ z.c.held = x.c.held /\ z.c.credit = x.c.credit
        /\ z.c.tcp_fin_seen = x.c.tcp_fin_seen /\ z.c.fin_sent = x.c.fin_sent
        /\ z.c.fin_received = x.c.fin_received /\ z.c.shut = x.c.shut
    BY <1>0, CloseFields
  <1> HIDE DEF z
  <1>2. x.c.stash = <<>>
    BY DEF Running, ClientOK, FinsSeen
  <1>3. StreamOK(z.up) /\ StreamOK(z.down) /\ PcbOwned(z.c)
    BY <1>1 DEF Running, ClientOK, PcbOwned
  <1>4. WindowKept(z.c) /\ Stashed(z.c)
    BY <1>1, <1>2 DEF Running, ClientOK, WindowKept, Stashed
  <1>5. FinsSent(z) /\ FinsSeen(z)
    BY <1>1, <1>2 DEF Running, ClientOK, FinsSent, FinsSeen
  <1>6. ClientOK(z)
    BY <1>1, <1>3, <1>4, <1>5 DEF ClientOK
  <1> QED
    BY <1>1, <1>2, <1>6 DEF ClientKeeps, z

LEMMA FinFields ==
    ASSUME NEW x \in ClientRec
    PROVE  LET z == [x EXCEPT !.c.fin_sent = TRUE, !.up.fin = TRUE] IN
           /\ z \in ClientRec /\ z.down = x.down /\ z.st = x.st
           /\ z.up.body = x.up.body /\ z.up.wire = x.up.wire /\ z.up.fin = TRUE
           /\ z.up.fin_in = x.up.fin_in
           /\ z.c.state = x.c.state /\ z.c.pcb = x.c.pcb /\ z.c.stash = x.c.stash
           /\ z.c.q = x.c.q /\ z.c.snd = x.c.snd /\ z.c.paused = x.c.paused
           /\ z.c.withheld = x.c.withheld /\ z.c.held = x.c.held /\ z.c.credit = x.c.credit
           /\ z.c.tcp_fin_seen = x.c.tcp_fin_seen /\ z.c.fin_sent = TRUE
           /\ z.c.fin_received = x.c.fin_received /\ z.c.shut = x.c.shut
  <1>1. [x.c EXCEPT !.fin_sent = TRUE] \in Flow
    BY DEF ClientRec, Flow
  <1>2. [x.up EXCEPT !.fin = TRUE] \in Stream
    BY DEF ClientRec, Stream
  <1> QED
    BY <1>1, <1>2 DEF ClientRec, Flow, Stream

(* The FIN goes out behind an empty queue. *)
LEMMA MaybeFinKeeps ==
    ASSUME NEW x, Running(x), NEW err \in BOOLEAN
    PROVE  LET z == UplinkMaybeFin(x, err) IN
           /\ ClientKeeps(x, z)
           /\ z.st = "LIVE" => z.c.q = x.c.q /\ z.c.withheld = x.c.withheld
  <1> DEFINE z == UplinkMaybeFin(x, err)
             y == [x EXCEPT !.c.fin_sent = TRUE, !.up.fin = TRUE]
  <1>0. x \in ClientRec
    BY DEF Running, ClientOK
  <1>1. CASE x.c.state # "active" \/ ~x.c.tcp_fin_seen \/ x.c.fin_sent \/ x.c.q # <<>>
    <2>1. z = x
      BY <1>1 DEF UplinkMaybeFin
    <2> QED
      BY <2>1, KeepsItself
  <1>2. CASE /\ x.c.state = "active" /\ x.c.tcp_fin_seen /\ ~x.c.fin_sent /\ x.c.q = <<>>
             /\ err
    <2>1. z = TeardownFlow(x, TRUE)
      BY <1>2 DEF UplinkMaybeFin, OnRelayError
    <2>2. ClientKeeps(x, z)
      BY <2>1, TeardownKeeps
    <2>3. z.st # "LIVE"
      BY <2>1, <1>0, TeardownFields
    <2> QED
      BY <2>2, <2>3
  <1>3. CASE /\ x.c.state = "active" /\ x.c.tcp_fin_seen /\ ~x.c.fin_sent /\ x.c.q = <<>>
             /\ ~err /\ Room(x.up) = 0
    <2>1. z = x
      BY <1>3 DEF UplinkMaybeFin
    <2> QED
      BY <2>1, KeepsItself
  <1>4. CASE /\ x.c.state = "active" /\ x.c.tcp_fin_seen /\ ~x.c.fin_sent /\ x.c.q = <<>>
             /\ ~err /\ Room(x.up) # 0
    <2>1. z = IF y.c.fin_received THEN FinishCleanClose(y) ELSE y
      BY SMTT(90), <1>4 DEF UplinkMaybeFin
    <2>2. /\ y \in ClientRec /\ y.down = x.down /\ y.st = x.st
          /\ y.up.body = x.up.body /\ y.up.wire = x.up.wire /\ y.up.fin = TRUE
          /\ y.up.fin_in = x.up.fin_in
          /\ y.c.state = x.c.state /\ y.c.pcb = x.c.pcb /\ y.c.stash = x.c.stash
          /\ y.c.q = x.c.q /\ y.c.snd = x.c.snd /\ y.c.paused = x.c.paused
          /\ y.c.withheld = x.c.withheld /\ y.c.held = x.c.held /\ y.c.credit = x.c.credit
          /\ y.c.tcp_fin_seen = x.c.tcp_fin_seen /\ y.c.fin_sent = TRUE
          /\ y.c.fin_received = x.c.fin_received /\ y.c.shut = x.c.shut
      BY <1>0, FinFields
    <2> HIDE DEF y, z
    <2>3. StreamOK(y.up) /\ StreamOK(y.down) /\ PcbOwned(y.c)
      BY <2>2 DEF Running, ClientOK, PcbOwned, StreamOK, Room
    <2>4. WindowKept(y.c) /\ Stashed(y.c)
      BY <2>2 DEF Running, ClientOK, WindowKept, Stashed
    <2>5. FinsSent(y) /\ FinsSeen(y)
      BY <1>4, <2>2 DEF Running, ClientOK, FinsSent, FinsSeen
    <2>6. Running(y)
      BY <1>4, <2>2, <2>3, <2>4, <2>5 DEF ClientOK, Running
    <2>7. ClientKeeps(x, y)
      BY <1>4, <2>2, <2>6 DEF ClientKeeps, Running
    <2>8. CASE ~y.c.fin_received
      BY <2>1, <2>2, <2>7, <2>8 DEF z
    <2>9. CASE y.c.fin_received
      <3>1. ClientKeeps(y, z)
        BY <2>1, <2>2, <2>6, <2>9, CloseKeeps
      <3>2. z.st = "GONE" /\ z.c.state = "closing"
        BY <2>1, <2>2, <2>9, CloseFields
      <3>3. ClientKeeps(x, z)
        BY <2>6, <2>7, <3>1, <3>2, KeepsOn DEF Running
      <3> QED
        BY <3>2, <3>3 DEF z
    <2> QED
      BY SMTT(90), <2>8, <2>9
  <1> QED
    BY <1>1, <1>2, <1>3, <1>4

LEMMA RoomNat ==
    ASSUME NEW h \in Stream, StreamOK(h)
    PROVE  Room(h) \in Nat
  <1> DEFINE a == Len(h.wire)
             b == Len(h.body)
  <1>1. a \in Nat /\ b \in Nat
    BY LenType DEF Stream
  <1>2. Room(h) = H3Cap - a - b /\ Room(h) >= 0
    BY DEF Room, StreamOK
  <1> HIDE DEF a, b
  <1>3. H3Cap - a - b \in Int
    BY <1>1, Bounds
  <1> QED
    BY <1>2, <1>3

(* A stream that takes no more than its room. *)
LEMMA RoomKept ==
    ASSUME NEW h \in Stream, NEW g \in Stream, NEW n \in Nat,
           n <= Room(h), Len(g.wire) = Len(h.wire) + n, g.body = h.body
    PROVE  Room(g) >= 0
  <1> DEFINE a == Len(h.wire)
             b == Len(h.body)
  <1>1. a \in Nat /\ b \in Nat
    BY LenType DEF Stream
  <1>2. Room(h) = H3Cap - a - b /\ Room(g) = H3Cap - (a + n) - b
    BY DEF Room
  <1> HIDE DEF a, b
  <1>3. n <= H3Cap - a - b
    BY <1>2
  <1>4. H3Cap - (a + n) - b >= 0
    BY <1>1, <1>3, Bounds
  <1> QED
    BY <1>2, <1>4

(* Another queue and other bytes on the wire. *)
Sent(x, w, q) == [[x EXCEPT !.up.wire = w] EXCEPT !.c.q = q]

LEMMA SendFields ==
    ASSUME NEW x \in ClientRec, NEW w \in Bytes, NEW q \in Bytes
    PROVE  LET z == Sent(x, w, q) IN
           /\ z \in ClientRec /\ z.down = x.down /\ z.st = x.st
           /\ z.up.body = x.up.body /\ z.up.wire = w /\ z.up.fin = x.up.fin
           /\ z.up.fin_in = x.up.fin_in
           /\ z.c.state = x.c.state /\ z.c.pcb = x.c.pcb /\ z.c.stash = x.c.stash
           /\ z.c.q = q /\ z.c.snd = x.c.snd /\ z.c.paused = x.c.paused
           /\ z.c.withheld = x.c.withheld /\ z.c.held = x.c.held /\ z.c.credit = x.c.credit
           /\ z.c.tcp_fin_seen = x.c.tcp_fin_seen /\ z.c.fin_sent = x.c.fin_sent
           /\ z.c.fin_received = x.c.fin_received /\ z.c.shut = x.c.shut
  <1>1. [x.c EXCEPT !.q = q] \in Flow
    BY DEF ClientRec, Flow
  <1>2. [x.up EXCEPT !.wire = w] \in Stream
    BY DEF ClientRec, Stream
  <1> QED
    BY <1>1, <1>2 DEF Sent, ClientRec, Flow, Stream

(* uplink_send_from moves the head of the queue to the stream. *)
LEMMA SendKeeps ==
    ASSUME NEW x, Running(x)
    PROVE  LET n == Smaller(Room(x.up), Len(x.c.q))
               y == [UplinkSendFrom(x, x.c.q) EXCEPT !.c.q = After(@, Smaller(Room(x.up), Len(@)))]
           IN  /\ Running(y) /\ ClientKeeps(x, y)
               /\ y.up.fin = x.up.fin /\ y.c.state = x.c.state
  <1> DEFINE n == Smaller(Room(x.up), Len(x.c.q))
             w == x.up.wire \o Front(x.c.q, n)
             q == After(x.c.q, n)
             z == Sent(x, w, q)
             y == [UplinkSendFrom(x, x.c.q) EXCEPT !.c.q = After(@, Smaller(Room(x.up), Len(@)))]
  <1>0. /\ x \in ClientRec /\ x.c.q \in Bytes /\ x.up.wire \in Bytes /\ x.up.body \in Bytes
        /\ x.up \in Stream
    BY DEF Running, ClientOK, ClientRec, Flow, Stream
  <1>1. Len(x.c.q) \in Nat /\ Len(x.up.wire) \in Nat /\ Len(x.up.body) \in Nat
    BY <1>0, LenType
  <1>2. Room(x.up) \in Nat
    BY SMTT(90), <1>1, Bounds DEF Room, Running, ClientOK, StreamOK
  <1>3. n \in Nat /\ n <= Len(x.c.q) /\ n <= Room(x.up)
    BY <1>1, <1>2, Smallest
  <1>4. y = z
    BY <1>0 DEF UplinkSendFrom, ClientRec, Sent
  <1> HIDE DEF n, y
  <1>5. /\ w \in Bytes /\ Len(w) = Len(x.up.wire) + n /\ w \o q = x.up.wire \o x.c.q
        /\ q \in Bytes /\ Len(q) = Len(x.c.q) - n
    BY <1>0, <1>3, Move, Cut
  <1> HIDE DEF w, q
  <1>6. /\ z \in ClientRec /\ z.down = x.down /\ z.st = x.st
        /\ z.up.body = x.up.body /\ z.up.wire = w /\ z.up.fin = x.up.fin
        /\ z.up.fin_in = x.up.fin_in
        /\ z.c.state = x.c.state /\ z.c.pcb = x.c.pcb /\ z.c.stash = x.c.stash
        /\ z.c.q = q /\ z.c.snd = x.c.snd /\ z.c.paused = x.c.paused
        /\ z.c.withheld = x.c.withheld /\ z.c.held = x.c.held /\ z.c.credit = x.c.credit
        /\ z.c.tcp_fin_seen = x.c.tcp_fin_seen /\ z.c.fin_sent = x.c.fin_sent
        /\ z.c.fin_received = x.c.fin_received /\ z.c.shut = x.c.shut
    BY <1>0, <1>5, SendFields
  <1> HIDE DEF z
  <1>7. x.c.q = <<>> => q = <<>> /\ w = x.up.wire
    <2> SUFFICES ASSUME x.c.q = <<>>
                 PROVE  q = <<>> /\ w = x.up.wire
      OBVIOUS
    <2>1. Len(x.c.q) = 0
      BY Empty
    <2>2. Len(q) = 0
      BY <1>1, <1>3, <1>5, <2>1
    <2>3. q = <<>>
      BY <1>5, <2>2, Empty
    <2>4. w \o <<>> = w /\ x.up.wire \o <<>> = x.up.wire
      BY <1>0, <1>5, JoinEmpty
    <2> QED
      BY <1>5, <2>3, <2>4
  <1>8. StreamOK(z.up) /\ StreamOK(z.down) /\ PcbOwned(z.c)
    <2>1. StreamOK(z.down) /\ PcbOwned(z.c)
      BY <1>6 DEF Running, ClientOK, PcbOwned
    <2>2. Room(z.up) >= 0
      <3>1. z.up \in Stream /\ Len(z.up.wire) = Len(x.up.wire) + n
        BY <1>5, <1>6 DEF ClientRec
      <3> QED
        BY <1>0, <1>3, <1>6, <3>1, RoomKept
    <2>3. x.up.fin_in => x.up.fin /\ x.up.wire = <<>>
      BY DEF Running, ClientOK, StreamOK
    <2>4. x.up.fin => x.c.q = <<>>
      BY DEF Running, ClientOK, FinsSent, PcbOwned
    <2> QED
      BY <1>6, <1>7, <2>1, <2>2, <2>3, <2>4 DEF StreamOK
  <1>9. WindowKept(z.c) /\ Stashed(z.c)
    <2>1. Stashed(z.c)
      BY <1>6 DEF Running, ClientOK, Stashed
    <2>2. x.c.credit \in Nat /\ Len(x.c.q) <= HighWater + x.c.credit
      BY <1>0 DEF Running, ClientOK, WindowKept, ClientRec, Flow
    <2>3. Len(z.c.q) <= HighWater + z.c.credit
      BY <1>1, <1>3, <1>5, <1>6, <2>2, Bounds
    <2> QED
      BY <1>6, <2>1, <2>3 DEF Running, ClientOK, WindowKept
  <1>10. FinsSent(z) /\ FinsSeen(z)
    BY <1>6, <1>7 DEF Running, ClientOK, FinsSent, FinsSeen
  <1>11. Running(z)
    <2>1. z.c.state # "freed"
      BY <1>6 DEF Running, ClientOK, PcbOwned
    <2> QED
      BY <1>6, <1>8, <1>9, <1>10, <2>1 DEF ClientOK, Running
  <1>12. ClientKeeps(x, z)
    <2>1. z.c.state # "freed"
      BY <1>6 DEF Running, ClientOK, PcbOwned
    <2> QED
      BY <1>5, <1>6, <1>11, <2>1 DEF ClientKeeps, Running
  <1> QED
    BY <1>4, <1>6, <1>11, <1>12 DEF y

Resumed(x) == [x EXCEPT !.c.withheld = FALSE, !.c.credit = @ - x.c.held, !.c.held = 0]

LEMMA ResumeFields ==
    ASSUME NEW x \in ClientRec, x.c.credit = x.c.held
    PROVE  LET z == Resumed(x) IN
           /\ z \in ClientRec /\ z.c.credit = 0
           /\ z.down = x.down /\ z.st = x.st /\ z.up = x.up
           /\ z.c.state = x.c.state /\ z.c.pcb = x.c.pcb /\ z.c.stash = x.c.stash
           /\ z.c.q = x.c.q /\ z.c.snd = x.c.snd /\ z.c.paused = x.c.paused
           /\ z.c.withheld = FALSE /\ z.c.held = 0
           /\ z.c.tcp_fin_seen = x.c.tcp_fin_seen /\ z.c.fin_sent = x.c.fin_sent
           /\ z.c.fin_received = x.c.fin_received /\ z.c.shut = x.c.shut
  <1>1. x.c.credit - x.c.held = 0
    BY DEF ClientRec, Flow
  <1>2. [x.c EXCEPT !.withheld = FALSE, !.credit = 0, !.held = 0] \in Flow
    BY DEF ClientRec, Flow
  <1> QED
    BY ZenonT(90), <1>1, <1>2 DEF Resumed, ClientRec, Flow

(* The withheld window is given back when the queue is below LowWater. *)
LEMMA ResumeKeeps ==
    ASSUME NEW x, Running(x)
    PROVE  LET z == ResumeRecved(x) IN
           /\ Running(z) /\ ClientKeeps(x, z) /\ Waits(z.c)
           /\ z.c.state = x.c.state /\ z.up = x.up
  <1> DEFINE z == ResumeRecved(x)
  <1>0. x \in ClientRec /\ x.c \in Flow /\ x.c.q \in Bytes
    BY DEF Running, ClientOK, ClientRec, Flow
  <1>1. CASE ~(x.c.withheld /\ Len(x.c.q) < LowWater)
    <2>1. z = x
      BY <1>1 DEF ResumeRecved
    <2>2. Waits(x.c)
      BY <1>0, <1>1, Empty, Bounds DEF Waits
    <2> QED
      BY <2>1, <2>2, KeepsItself
  <1>2. CASE x.c.withheld /\ Len(x.c.q) < LowWater
    <2>1. z = Resumed(x)
      BY <1>2 DEF ResumeRecved, Resumed
    <2> HIDE DEF z
    <2>2. x.c.credit = x.c.held
      BY DEF Running, ClientOK, WindowKept
    <2>3. /\ z \in ClientRec /\ z.c.credit = 0
          /\ z.down = x.down /\ z.st = x.st /\ z.up = x.up
          /\ z.c.state = x.c.state /\ z.c.pcb = x.c.pcb /\ z.c.stash = x.c.stash
          /\ z.c.q = x.c.q /\ z.c.snd = x.c.snd /\ z.c.paused = x.c.paused
          /\ z.c.withheld = FALSE /\ z.c.held = 0
          /\ z.c.tcp_fin_seen = x.c.tcp_fin_seen /\ z.c.fin_sent = x.c.fin_sent
          /\ z.c.fin_received = x.c.fin_received /\ z.c.shut = x.c.shut
      BY <1>0, <2>1, <2>2, ResumeFields
    <2>4. StreamOK(z.up) /\ StreamOK(z.down) /\ PcbOwned(z.c) /\ Stashed(z.c)
      BY <2>3 DEF Running, ClientOK, PcbOwned, Stashed
    <2>5. WindowKept(z.c)
      <3>1. Len(x.c.q) \in Nat
        BY <1>0, LenType
      <3> QED
        BY <1>2, <2>3, <3>1, Bounds DEF WindowKept
    <2>6. FinsSent(z) /\ FinsSeen(z)
      BY <2>3 DEF Running, ClientOK, FinsSent, FinsSeen
    <2>7. z.c.state # "freed"
      BY <2>3 DEF Running, ClientOK, PcbOwned
    <2>8. Running(z)
      BY <2>3, <2>4, <2>5, <2>6, <2>7 DEF ClientOK, Running
    <2>9. ClientKeeps(x, z)
      BY <2>3, <2>7, <2>8 DEF ClientKeeps, Running
    <2>10. Waits(z.c)
      BY <2>3 DEF Waits
    <2> QED
      BY <2>3, <2>8, <2>9, <2>10 DEF z
  <1> QED
    BY <1>1, <1>2

(* uplink_flush: bytes, then the FIN, then the window. *)
LEMMA UplinkFlushKeeps ==
    ASSUME NEW x, Running(x), NEW err \in BOOLEAN
    PROVE  LET z == UplinkFlush(x, err) IN
           /\ ClientKeeps(x, z)
           /\ Waits(x.c) => Waits(z.c)
  <1> DEFINE y == [UplinkSendFrom(x, x.c.q) EXCEPT !.c.q = After(@, Smaller(Room(x.up), Len(@)))]
             v == UplinkMaybeFin(y, err)
             z == UplinkFlush(x, err)
  <1>0. x \in ClientRec
    BY DEF Running, ClientOK
  <1>1. CASE x.c.state # "active"
    <2>1. z = x
      BY <1>1 DEF UplinkFlush
    <2> QED
      BY <2>1, KeepsItself
  <1>2. CASE x.c.state = "active" /\ err /\ x.c.q # <<>>
    <2>1. z = TeardownFlow(x, TRUE)
      BY <1>2 DEF UplinkFlush, OnRelayError
    <2>2. ClientKeeps(x, z)
      BY <2>1, TeardownKeeps
    <2>3. z.c.pcb # "open"
      BY <1>0, <2>1, TeardownFields, FreedFields
    <2> QED
      BY <2>2, <2>3 DEF Waits
  <1>3. CASE x.c.state = "active" /\ ~(err /\ x.c.q # <<>>)
    <2>1. z = IF v.st = "LIVE" THEN ResumeRecved(v) ELSE v
      BY <1>3 DEF UplinkFlush
    <2>2. Running(y) /\ ClientKeeps(x, y) /\ y.up.fin = x.up.fin
      BY SendKeeps
    <2> HIDE DEF y
    <2>3. ClientKeeps(y, v)
      BY <2>2, MaybeFinKeeps
    <2> HIDE DEF v, z
    <2>4. ClientKeeps(x, v)
      BY <2>2, <2>3, KeepsOn DEF Running
    <2>5. CASE v.st = "LIVE"
      <3>1. Running(v)
        BY <2>4, <2>5 DEF ClientKeeps, Running
      <3>2. Running(z) /\ ClientKeeps(v, z) /\ Waits(z.c) /\ z.c.state = v.c.state /\ z.up = v.up
        BY <2>1, <2>5, <3>1, ResumeKeeps
      <3>3. z.c.state # "freed"
        BY <3>2 DEF Running, ClientOK, PcbOwned
      <3>4. ClientKeeps(x, z)
        BY <2>4, <2>5, <3>2, <3>3, KeepsOn
      <3> QED
        BY <3>2, <3>4 DEF z
    <2>6. CASE v.st # "LIVE"
      <3>1. z = v
        BY <2>1, <2>6
      <3>2. v.c.pcb # "open"
        BY <2>4, <2>6 DEF ClientKeeps
      <3> QED
        BY <2>4, <3>1, <3>2 DEF Waits, z
    <2> QED
      BY <2>5, <2>6
  <1> QED
    BY <1>1, <1>2, <1>3

Held(x, k) == [x EXCEPT !.c.withheld = TRUE, !.c.held = @ + k, !.c.credit = @ + k]

LEMMA HeldFields ==
    ASSUME NEW x \in ClientRec, NEW k \in Nat
    PROVE  LET z == Held(x, k) IN
           /\ z \in ClientRec /\ z.c.credit = x.c.credit + k
           /\ z.down = x.down /\ z.st = x.st /\ z.up = x.up
           /\ z.c.state = x.c.state /\ z.c.pcb = x.c.pcb /\ z.c.stash = x.c.stash
           /\ z.c.q = x.c.q /\ z.c.snd = x.c.snd /\ z.c.paused = x.c.paused
           /\ z.c.withheld = TRUE /\ z.c.held = x.c.held + k
           /\ z.c.tcp_fin_seen = x.c.tcp_fin_seen /\ z.c.fin_sent = x.c.fin_sent
           /\ z.c.fin_received = x.c.fin_received /\ z.c.shut = x.c.shut
  <1>1. x.c.credit + k \in Nat /\ x.c.held + k \in Nat
    BY DEF ClientRec, Flow
  <1>2. [x.c EXCEPT !.withheld = TRUE, !.credit = x.c.credit + k, !.held = x.c.held + k] \in Flow
    BY <1>1 DEF ClientRec, Flow
  <1> QED
    BY <1>1, <1>2 DEF Held, ClientRec, Flow

(* What the flow is offered: bytes behind its queue. *)
Offered(x, bytes) == Sent(x, x.up.wire, x.c.q \o bytes)

LEMMA OfferedFields ==
    ASSUME NEW x \in ClientRec, NEW bytes, x.c.q \o bytes \in Bytes
    PROVE  LET o == Offered(x, bytes) IN
           /\ o \in ClientRec /\ o.down = x.down /\ o.st = x.st
           /\ o.up.body = x.up.body /\ o.up.wire = x.up.wire /\ o.up.fin = x.up.fin
           /\ o.up.fin_in = x.up.fin_in /\ o.c.state = x.c.state /\ o.c.pcb = x.c.pcb
           /\ o.c.stash = x.c.stash /\ o.c.q = x.c.q \o bytes /\ o.c.snd = x.c.snd
           /\ o.c.tcp_fin_seen = x.c.tcp_fin_seen
  <1> DEFINE w == x.up.wire
             q == x.c.q \o bytes
  <1>1. w \in Bytes /\ q \in Bytes
    BY DEF ClientRec, Stream
  <1>2. Offered(x, bytes) = Sent(x, w, q)
    BY DEF Offered
  <1> HIDE DEF w, q
  <1> DEFINE o == Sent(x, w, q)
  <1>3. /\ o \in ClientRec /\ o.down = x.down /\ o.st = x.st
        /\ o.up.body = x.up.body /\ o.up.wire = w /\ o.up.fin = x.up.fin
        /\ o.up.fin_in = x.up.fin_in /\ o.c.state = x.c.state /\ o.c.pcb = x.c.pcb
        /\ o.c.stash = x.c.stash /\ o.c.q = q /\ o.c.snd = x.c.snd
        /\ o.c.tcp_fin_seen = x.c.tcp_fin_seen
    BY <1>1, SendFields
  <1> HIDE DEF o
  <1> QED
    BY <1>2, <1>3 DEF o, w, q

LEMMA Whole ==
    ASSUME NEW s \in Bytes
    PROVE  Front(s, Len(s)) = s
  BY SubSeqFull DEF Bytes, Front

(* Front(bytes, n) goes to the stream past an empty queue, the rest to the *)
(* queue.                                                                  *)
LEMMA Divide ==
    ASSUME NEW w \in Bytes, NEW q \in Bytes, NEW s \in Bytes, NEW n \in Nat, n <= Len(s),
           q = <<>> \/ n = 0
    PROVE  /\ w \o Front(s, n) \in Bytes /\ Len(w \o Front(s, n)) = Len(w) + n
           /\ q \o After(s, n) \in Bytes /\ Len(q \o After(s, n)) = Len(q) + (Len(s) - n)
           /\ (w \o Front(s, n)) \o (q \o After(s, n)) = w \o (q \o s)
  <1>1. /\ Front(s, n) \in Bytes /\ Len(Front(s, n)) = n
        /\ After(s, n) \in Bytes /\ Len(After(s, n)) = Len(s) - n
        /\ Front(s, n) \o After(s, n) = s
    BY Cut
  <1>2. /\ w \o Front(s, n) \in Bytes /\ Len(w \o Front(s, n)) = Len(w) + n
        /\ (w \o Front(s, n)) \o After(s, n) = w \o s
    BY Move
  <1>3. q \o After(s, n) \in Bytes /\ Len(q \o After(s, n)) = Len(q) + Len(After(s, n))
    BY <1>1, Joined
  <1>4. CASE q = <<>>
    <2>1. q \o After(s, n) = After(s, n) /\ q \o s = s
      BY <1>1, <1>4, JoinEmpty
    <2> QED
      BY <1>1, <1>2, <1>3, <2>1
  <1>5. CASE n = 0
    <2>1. Front(s, n) = <<>>
      BY <1>1, <1>5, Empty
    <2>2. After(s, n) = s /\ w \o Front(s, n) = w
      BY <1>1, <2>1, JoinEmpty
    <2> QED
      BY <1>1, <1>2, <1>3, <2>2
  <1> QED
    BY <1>4, <1>5

(* The bytes lwIP delivers and the window it advertised for them. *)
LEMMA UplinkDeliverKeeps ==
    ASSUME NEW x, Running(x), NEW bytes \in Bytes, Len(bytes) > 0, ~x.up.fin,
           x.c.credit + Len(bytes) <= Wnd, NEW err \in BOOLEAN, Waits(x.c)
    PROVE  LET z == UplinkDeliver(x, bytes, err) IN
           ClientKeeps(Offered(x, bytes), z) /\ Waits(z.c)
  <1> DEFINE direct == x.c.state = "active" /\ x.c.q = <<>>
             n == IF direct THEN Smaller(Room(x.up), Len(bytes)) ELSE 0
             w == x.up.wire \o Front(bytes, n)
             q == x.c.q \o After(bytes, n)
             y == Sent(x, w, q)
             hold == n < Len(bytes) /\ (y.c.withheld \/ y.c.state = "active"
                                         \/ Len(y.c.q) >= HighWater)
             o == Offered(x, bytes)
             z == UplinkDeliver(x, bytes, err)
  <1>0. /\ x \in ClientRec /\ x.c \in Flow /\ x.c.q \in Bytes /\ x.up.wire \in Bytes
        /\ x.up.body \in Bytes /\ x.up \in Stream /\ x.c.credit \in Nat
    BY DEF Running, ClientOK, ClientRec, Flow, Stream
  <1>1. Len(x.c.q) \in Nat /\ Len(x.up.wire) \in Nat /\ Len(bytes) \in Nat
    BY <1>0, LenType
  <1>2. Room(x.up) \in Nat
    BY <1>0, RoomNat DEF Running, ClientOK
  <1>3. n \in Nat /\ n <= Len(bytes) /\ n <= Room(x.up) /\ (x.c.q = <<>> \/ n = 0)
    <2>1. CASE direct
      <3>1. n = Smaller(Room(x.up), Len(bytes)) /\ x.c.q = <<>>
        BY <2>1
      <3> QED
        BY <1>1, <1>2, <3>1, Smallest
    <2>2. CASE ~direct
      <3>1. n = 0
        BY <2>2
      <3> QED
        BY <1>1, <1>2, <3>1
    <2> QED
      BY <2>1, <2>2
  <1>4. x.c.q \o bytes \in Bytes
    BY <1>0, Joined
  <1>5. /\ o \in ClientRec /\ o.down = x.down /\ o.st = x.st
        /\ o.up.body = x.up.body /\ o.up.wire = x.up.wire /\ o.up.fin = x.up.fin
        /\ o.up.fin_in = x.up.fin_in /\ o.c.state = x.c.state /\ o.c.pcb = x.c.pcb
        /\ o.c.stash = x.c.stash /\ o.c.q = x.c.q \o bytes /\ o.c.snd = x.c.snd
        /\ o.c.tcp_fin_seen = x.c.tcp_fin_seen
    BY <1>0, <1>4, OfferedFields
  <1>6. z = IF err THEN TeardownFlow(x, TRUE) ELSE IF hold THEN Held(y, Len(bytes)) ELSE y
    <2>1. Front(bytes, n) \in Bytes /\ Len(Front(bytes, n)) = n
      BY <1>3, Cut
    <2>2. Smaller(Room(x.up), Len(Front(bytes, n))) = n
      BY <1>2, <1>3, <2>1 DEF Smaller
    <2>3. Front(Front(bytes, n), Smaller(Room(x.up), Len(Front(bytes, n)))) = Front(bytes, n)
      BY <2>1, <2>2, Whole
    <2>4. UplinkSendFrom(x, Front(bytes, n)) = [x EXCEPT !.up.wire = w]
      BY <2>3 DEF UplinkSendFrom
    <2> DEFINE v == [UplinkSendFrom(x, Front(bytes, n)) EXCEPT !.c.q = @ \o After(bytes, n)]
    <2>5. v = y
      BY <1>0, <2>4 DEF Sent, ClientRec
    <2>6. z = IF err THEN OnRelayError(x)
              ELSE IF n < Len(bytes) /\ (v.c.withheld \/ v.c.state = "active"
                                          \/ Len(v.c.q) >= HighWater)
              THEN [v EXCEPT !.c.withheld = TRUE, !.c.held = @ + Len(bytes),
                             !.c.credit = @ + Len(bytes)]
              ELSE v
      BY DEF UplinkDeliver
    <2> HIDE DEF v, y, z
    <2> QED
      BY <2>5, <2>6 DEF OnRelayError, Held
  <1> HIDE DEF n, z, o
  <1>7. /\ w \in Bytes /\ Len(w) = Len(x.up.wire) + n
        /\ q \in Bytes /\ Len(q) = Len(x.c.q) + (Len(bytes) - n)
        /\ w \o q = x.up.wire \o (x.c.q \o bytes)
    <2> DEFINE a == x.up.wire
               b == x.c.q
    <2>1. a \in Bytes /\ b \in Bytes /\ n \in Nat /\ n <= Len(bytes) /\ (b = <<>> \/ n = 0)
      BY <1>0, <1>3
    <2> HIDE DEF a, b
    <2>2. /\ a \o Front(bytes, n) \in Bytes /\ Len(a \o Front(bytes, n)) = Len(a) + n
          /\ b \o After(bytes, n) \in Bytes
          /\ Len(b \o After(bytes, n)) = Len(b) + (Len(bytes) - n)
          /\ (a \o Front(bytes, n)) \o (b \o After(bytes, n)) = a \o (b \o bytes)
      <3>1. /\ a \o Front(bytes, n) \in Bytes /\ Len(a \o Front(bytes, n)) = Len(a) + n
            /\ b \o After(bytes, n) \in Bytes
        BY <2>1, Divide
      <3>2. Len(b \o After(bytes, n)) = Len(b) + (Len(bytes) - n)
        BY <2>1, Divide
      <3>3. (a \o Front(bytes, n)) \o (b \o After(bytes, n)) = a \o (b \o bytes)
        BY ZenonT(90), <2>1, Divide
      <3> QED
        BY <3>1, <3>2, <3>3
    <2> QED
      BY <2>2 DEF a, b
  <1>8. n = Len(bytes) => q = x.c.q
    <2> SUFFICES ASSUME n = Len(bytes)
                 PROVE  q = x.c.q
      OBVIOUS
    <2>0. n \in Nat /\ n <= Len(bytes)
      BY <1>3
    <2>3. After(bytes, n) \in Bytes /\ Len(After(bytes, n)) = Len(bytes) - n
      BY <2>0, Cut
    <2>1. After(bytes, n) \in Bytes /\ Len(After(bytes, n)) = 0
      BY <2>0, <2>3
    <2>2. After(bytes, n) = <<>>
      BY <2>1, Empty
    <2> QED
      BY <1>0, <2>2, JoinEmpty
  <1> HIDE DEF w, q
  <1>9. /\ y \in ClientRec /\ y.down = x.down /\ y.st = x.st
        /\ y.up.body = x.up.body /\ y.up.wire = w /\ y.up.fin = x.up.fin
        /\ y.up.fin_in = x.up.fin_in
        /\ y.c.state = x.c.state /\ y.c.pcb = x.c.pcb /\ y.c.stash = x.c.stash
        /\ y.c.q = q /\ y.c.snd = x.c.snd /\ y.c.paused = x.c.paused
        /\ y.c.withheld = x.c.withheld /\ y.c.held = x.c.held /\ y.c.credit = x.c.credit
        /\ y.c.tcp_fin_seen = x.c.tcp_fin_seen /\ y.c.fin_sent = x.c.fin_sent
        /\ y.c.fin_received = x.c.fin_received /\ y.c.shut = x.c.shut
    BY <1>0, <1>7, SendFields
  <1> HIDE DEF y
  <1>10. CASE err
    <2>1. z = TeardownFlow(x, TRUE)
      BY <1>6, <1>10
    <2>2. ClientKeeps(x, z)
      BY <2>1, TeardownKeeps
    <2>3. z.up.fin = x.up.fin /\ z.c.state = "freed" /\ z.c.pcb = "aborted"
      BY <1>0, <2>1, TeardownFields, FreedFields
    <2> QED
      BY <1>5, <2>2, <2>3 DEF ClientKeeps, Waits, z, o
  <1>11. /\ StreamOK(y.up) /\ StreamOK(y.down) /\ PcbOwned(y.c) /\ Stashed(y.c)
         /\ FinsSeen(y) /\ ~y.c.fin_sent /\ ~y.up.fin /\ y.c.state # "freed"
    <2>1. ~x.c.fin_sent /\ ~x.up.fin_in
      BY DEF Running, ClientOK, FinsSent, StreamOK
    <2>2. Room(y.up) >= 0
      <3>1. y.up \in Stream /\ Len(y.up.wire) = Len(x.up.wire) + n
        BY <1>7, <1>9 DEF ClientRec
      <3> QED
        BY <1>0, <1>3, <1>9, <3>1, RoomKept
    <2>3. StreamOK(y.up) /\ StreamOK(y.down) /\ PcbOwned(y.c) /\ Stashed(y.c)
      BY SMTT(90), <1>9, <2>1, <2>2 DEF Running, ClientOK, PcbOwned, Stashed, StreamOK
    <2> QED
      BY <1>9, <2>1, <2>3 DEF Running, ClientOK, FinsSeen, PcbOwned
  <1>12. CASE ~err /\ hold
    <2>1. z = Held(y, Len(bytes))
      BY <1>6, <1>12
    <2>2. /\ z \in ClientRec /\ z.c.credit = y.c.credit + Len(bytes)
          /\ z.down = y.down /\ z.st = y.st /\ z.up = y.up
          /\ z.c.state = y.c.state /\ z.c.pcb = y.c.pcb /\ z.c.stash = y.c.stash
          /\ z.c.q = y.c.q /\ z.c.snd = y.c.snd /\ z.c.paused = y.c.paused
          /\ z.c.withheld = TRUE /\ z.c.held = y.c.held + Len(bytes)
          /\ z.c.tcp_fin_seen = y.c.tcp_fin_seen /\ z.c.fin_sent = y.c.fin_sent
          /\ z.c.fin_received = y.c.fin_received /\ z.c.shut = y.c.shut
      BY ZenonT(90), <1>1, <1>9, <2>1, HeldFields
    <2>3. WindowKept(z.c)
      <3>1. x.c.credit = x.c.held /\ Len(x.c.q) <= HighWater + x.c.credit
        BY DEF Running, ClientOK, WindowKept
      <3>2. z.c.credit = x.c.credit + Len(bytes) /\ Len(z.c.q) = Len(x.c.q) + (Len(bytes) - n)
        BY <1>7, <1>9, <2>2
      <3>3. Len(x.c.q) + (Len(bytes) - n) <= HighWater + (x.c.credit + Len(bytes))
        BY SMTT(90), <1>0, <1>1, <1>3, <3>1, Bounds
      <3> QED
        BY <1>9, <2>2, <3>1, <3>2, <3>3 DEF WindowKept
    <2>4. PcbOwned(z.c) /\ Stashed(z.c) /\ FinsSeen(z) /\ FinsSent(z)
      BY <1>11, <2>2 DEF PcbOwned, Stashed, FinsSeen, FinsSent
    <2>5. ClientOK(z)
      BY <1>11, <2>2, <2>3, <2>4 DEF ClientOK
    <2>6. z.c.q # <<>>
      <3>1. Len(q) > 0
        BY SMTT(90), <1>1, <1>3, <1>7, <1>12
      <3> QED
        BY <1>9, <2>2, <3>1, Empty
    <2>7. z.st = "LIVE" /\ z.c.pcb = "open"
      BY <1>9, <2>2 DEF Running
    <2> QED
      BY <1>5, <1>7, <1>9, <1>11, <2>2, <2>5, <2>6, <2>7 DEF ClientKeeps, Waits, z, o
  <1>13. CASE ~err /\ ~hold
    <2>1. z = y
      BY <1>6, <1>13
    <2>2. WindowKept(y.c) /\ Waits(y.c)
      <3>1. CASE n = Len(bytes)
        BY <1>8, <1>9, <3>1 DEF Running, ClientOK, WindowKept, Waits
      <3>2. CASE n # Len(bytes)
        <4>1. ~x.c.withheld /\ ~(Len(q) >= HighWater)
          BY <1>1, <1>3, <1>9, <1>13, <3>2
        <4>2. Len(q) \in Nat /\ Len(q) <= HighWater + x.c.credit
          BY <1>0, <1>7, <4>1, LenType, Bounds
        <4> QED
          BY <1>9, <4>1, <4>2 DEF Running, ClientOK, WindowKept, Waits
      <3> QED
        BY <3>1, <3>2
    <2>3. FinsSent(y)
      BY <1>11 DEF FinsSent
    <2>4. ClientOK(y)
      BY <1>9, <1>11, <2>2, <2>3 DEF ClientOK
    <2>5. y.st = "LIVE" /\ y.c.pcb = "open"
      BY <1>9 DEF Running
    <2> QED
      BY <1>5, <1>7, <1>9, <1>11, <2>1, <2>2, <2>4, <2>5 DEF ClientKeeps, z, o
  <1> QED
    BY <1>10, <1>12, <1>13

Shut(x) == [x EXCEPT !.c.fin_received = TRUE, !.c.shut = TRUE]

LEMMA ShutFields ==
    ASSUME NEW x \in ClientRec
    PROVE  LET z == Shut(x) IN
           /\ z \in ClientRec /\ z.c.credit = x.c.credit
           /\ z.down = x.down /\ z.st = x.st /\ z.up = x.up
           /\ z.c.state = x.c.state /\ z.c.pcb = x.c.pcb /\ z.c.stash = x.c.stash
           /\ z.c.q = x.c.q /\ z.c.snd = x.c.snd /\ z.c.paused = x.c.paused
           /\ z.c.withheld = x.c.withheld /\ z.c.held = x.c.held
           /\ z.c.tcp_fin_seen = x.c.tcp_fin_seen /\ z.c.fin_sent = x.c.fin_sent
           /\ z.c.fin_received = TRUE /\ z.c.shut = TRUE
  <1>1. [x.c EXCEPT !.fin_received = TRUE, !.shut = TRUE] \in Flow
    BY DEF ClientRec, Flow
  <1> QED
    BY <1>1 DEF Shut, ClientRec, Flow

(* The server's FIN is passed on behind the last byte. *)
LEMMA MaybeShutdownKeeps ==
    ASSUME NEW x, Running(x), x.down.fin_in, x.c.stash = <<>>, x.down.body = <<>>
    PROVE  LET z == DownlinkMaybeShutdown(x) IN
           ClientKeeps(x, z) /\ (Waits(x.c) => Waits(z.c))
  <1> DEFINE z == DownlinkMaybeShutdown(x)
             y == Shut(x)
  <1>0. x \in ClientRec
    BY DEF Running, ClientOK
  <1>1. CASE x.c.fin_received
    <2>1. z = x
      BY <1>1 DEF DownlinkMaybeShutdown
    <2> QED
      BY <2>1, KeepsItself
  <1>2. CASE ~x.c.fin_received
    <2>1. z = IF y.c.fin_sent THEN FinishCleanClose(y) ELSE y
      BY <1>2 DEF DownlinkMaybeShutdown, Shut
    <2>2. /\ y \in ClientRec /\ y.c.credit = x.c.credit
          /\ y.down = x.down /\ y.st = x.st /\ y.up = x.up
          /\ y.c.state = x.c.state /\ y.c.pcb = x.c.pcb /\ y.c.stash = x.c.stash
          /\ y.c.q = x.c.q /\ y.c.snd = x.c.snd /\ y.c.paused = x.c.paused
          /\ y.c.withheld = x.c.withheld /\ y.c.held = x.c.held
          /\ y.c.tcp_fin_seen = x.c.tcp_fin_seen /\ y.c.fin_sent = x.c.fin_sent
          /\ y.c.fin_received = TRUE /\ y.c.shut = TRUE
      BY <1>0, ShutFields
    <2> HIDE DEF y, z
    <2>3. StreamOK(y.up) /\ StreamOK(y.down) /\ PcbOwned(y.c)
      BY <2>2 DEF Running, ClientOK, PcbOwned
    <2>4. WindowKept(y.c) /\ Stashed(y.c)
      BY <2>2 DEF Running, ClientOK, WindowKept, Stashed
    <2>5. FinsSent(y) /\ FinsSeen(y)
      BY <2>2 DEF Running, ClientOK, FinsSent, FinsSeen
    <2>6. y.c.state # "freed"
      BY <2>2 DEF Running, ClientOK, PcbOwned
    <2>7. Running(y)
      BY <2>2, <2>3, <2>4, <2>5, <2>6 DEF ClientOK, Running
    <2>8. ClientKeeps(x, y)
      BY <2>2, <2>6, <2>7 DEF ClientKeeps, Running
    <2>9. CASE ~y.c.fin_sent
      BY <2>1, <2>2, <2>8, <2>9 DEF Waits, z
    <2>10. CASE y.c.fin_sent
      <3>1. ClientKeeps(y, z)
        BY <2>1, <2>2, <2>7, <2>10, CloseKeeps
      <3>2. z.c.state = "closing" /\ z.c.pcb = "closed"
        BY <2>1, <2>2, <2>10, CloseFields
      <3>3. ClientKeeps(x, z)
        BY <2>7, <2>8, <3>1, <3>2, KeepsOn DEF Running
      <3> QED
        BY <3>2, <3>3 DEF Waits, z
    <2> QED
      BY <2>9, <2>10
  <1> QED
    BY <1>1, <1>2

Drained(x, b, s, t, p) ==
    [x EXCEPT !.down.body = b, !.c.snd = s, !.c.stash = t, !.c.paused = p]

LEMMA DrainedFields ==
    ASSUME NEW x \in ClientRec, NEW b \in Bytes, NEW s \in Bytes, NEW t \in Bytes,
           NEW p \in BOOLEAN
    PROVE  LET z == Drained(x, b, s, t, p) IN
           /\ z \in ClientRec /\ z.c.credit = x.c.credit
           /\ z.down.body = b /\ z.down.wire = x.down.wire /\ z.down.fin = x.down.fin
           /\ z.down.fin_in = x.down.fin_in /\ z.st = x.st /\ z.up = x.up
           /\ z.c.state = x.c.state /\ z.c.pcb = x.c.pcb /\ z.c.stash = t
           /\ z.c.q = x.c.q /\ z.c.snd = s /\ z.c.paused = p
           /\ z.c.withheld = x.c.withheld /\ z.c.held = x.c.held
           /\ z.c.tcp_fin_seen = x.c.tcp_fin_seen /\ z.c.fin_sent = x.c.fin_sent
           /\ z.c.fin_received = x.c.fin_received /\ z.c.shut = x.c.shut
  <1>1. [x.c EXCEPT !.snd = s, !.stash = t, !.paused = p] \in Flow
    BY DEF ClientRec, Flow
  <1>2. [x.down EXCEPT !.body = b] \in Stream
    BY DEF ClientRec, Stream
  <1> QED
    BY <1>1, <1>2 DEF Drained, ClientRec, Flow, Stream

(* What lwIP, the stash and the stream hold may move towards lwIP. *)
LEMMA DrainedKeeps ==
    ASSUME NEW x, Running(x), NEW b \in Bytes, NEW s \in Bytes, NEW t \in Bytes,
           NEW p \in BOOLEAN, p <=> t # <<>>, Len(t) <= Mss, Len(s) <= SndBuf,
           Len(b) <= Len(x.down.body), s \o (t \o b) = x.c.snd \o (x.c.stash \o x.down.body),
           x.c.fin_received => t = <<>> /\ b = <<>>
    PROVE  LET z == Drained(x, b, s, t, p) IN
           Running(z) /\ ClientKeeps(x, z) /\ (Waits(x.c) => Waits(z.c))
  <1> DEFINE z == Drained(x, b, s, t, p)
  <1>0. x \in ClientRec /\ x.down \in Stream
    BY DEF Running, ClientOK, ClientRec
  <1>1. /\ z \in ClientRec /\ z.c.credit = x.c.credit
        /\ z.down.body = b /\ z.down.wire = x.down.wire /\ z.down.fin = x.down.fin
        /\ z.down.fin_in = x.down.fin_in /\ z.st = x.st /\ z.up = x.up
        /\ z.c.state = x.c.state /\ z.c.pcb = x.c.pcb /\ z.c.stash = t
        /\ z.c.q = x.c.q /\ z.c.snd = s /\ z.c.paused = p
        /\ z.c.withheld = x.c.withheld /\ z.c.held = x.c.held
        /\ z.c.tcp_fin_seen = x.c.tcp_fin_seen /\ z.c.fin_sent = x.c.fin_sent
        /\ z.c.fin_received = x.c.fin_received /\ z.c.shut = x.c.shut
    BY <1>0, DrainedFields
  <1> HIDE DEF z
  <1>2. StreamOK(z.down)
    <2> DEFINE a == Len(x.down.wire)
               k == Len(x.down.body)
               j == Len(b)
    <2>1. a \in Nat /\ j \in Nat /\ k \in Nat /\ j <= k
      BY <1>0, LenType DEF Stream
    <2>2. H3Cap - a - k >= 0 /\ (x.down.fin_in => x.down.fin /\ x.down.wire = <<>>)
      BY DEF Running, ClientOK, StreamOK, Room
    <2> HIDE DEF a, k, j
    <2>3. H3Cap - a - j >= 0
      BY <2>1, <2>2, Bounds
    <2>4. Room(z.down) = H3Cap - a - j
      BY <1>1 DEF Room, a, j
    <2> QED
      BY <1>1, <2>2, <2>3, <2>4 DEF StreamOK
  <1>3. StreamOK(z.up) /\ PcbOwned(z.c)
    BY <1>1 DEF Running, ClientOK, PcbOwned
  <1>4. WindowKept(z.c) /\ Stashed(z.c)
    BY <1>1 DEF Running, ClientOK, WindowKept, Stashed
  <1>5. FinsSent(z) /\ FinsSeen(z)
    BY <1>1 DEF Running, ClientOK, FinsSent, FinsSeen
  <1>6. z.c.state # "freed"
    BY <1>1 DEF Running, ClientOK, PcbOwned
  <1>7. Running(z)
    BY <1>1, <1>2, <1>3, <1>4, <1>5, <1>6 DEF ClientOK, Running
  <1>8. ClientKeeps(x, z)
    BY <1>1, <1>6, <1>7 DEF ClientKeeps, Running
  <1> QED
    BY <1>1, <1>7, <1>8 DEF Waits, z

(* The chunks that fit and the one that does not. *)
LEMMA DrainBounds ==
    ASSUME NEW len \in Nat, NEW room \in Nat
    PROVE  LET wrote == IF len <= room THEN len ELSE (room \div Mss) * Mss
               read  == Smaller(wrote + Mss, len)
           IN  /\ wrote \in Nat /\ wrote <= room /\ wrote <= len
               /\ read \in Nat /\ wrote <= read /\ read <= len /\ read - wrote <= Mss
               /\ wrote < len => wrote < read
  <1> DEFINE wrote == IF len <= room THEN len ELSE (room \div Mss) * Mss
             read  == Smaller(wrote + Mss, len)
  <1>1. wrote \in Nat /\ wrote <= room /\ wrote <= len
    <2>1. (room \div Mss) * Mss \in Nat /\ (room \div Mss) * Mss <= room
      BY Bounds, Floor
    <2> DEFINE f == (room \div Mss) * Mss
    <2> HIDE DEF f
    <2> QED
      BY <2>1 DEF f
  <1> HIDE DEF wrote
  <1>2. /\ read \in Nat /\ wrote <= read /\ read <= len /\ read - wrote <= Mss
        /\ wrote < len => wrote < read
    BY <1>1, Bounds DEF Smaller
  <1> HIDE DEF read
  <1> QED
    BY <1>1, <1>2 DEF wrote, read

(* downlink_drain *)
LEMMA DownlinkDrainKeeps ==
    ASSUME NEW x, Running(x), x.c.stash = <<>>, NEW room \in Nat,
           Len(x.c.snd) + room <= SndBuf, NEW err \in BOOLEAN
    PROVE  LET z == DownlinkDrain(x, room, err) IN
           ClientKeeps(x, z) /\ (Waits(x.c) => Waits(z.c))
  <1> DEFINE body  == x.down.body
             wrote == IF Len(body) <= room THEN Len(body) ELSE (room \div Mss) * Mss
             read  == Smaller(wrote + Mss, Len(body))
             b     == After(body, read)
             s     == x.c.snd \o Front(body, wrote)
             t     == SubSeq(body, wrote + 1, read)
             p     == wrote < Len(body)
             y     == Drained(x, b, s, t, p)
             z     == DownlinkDrain(x, room, err)
  <1>0. x \in ClientRec /\ body \in Bytes /\ x.c.snd \in Bytes /\ Len(body) \in Nat
    BY LenType DEF Running, ClientOK, ClientRec, Flow, Stream
  <1>1. /\ wrote \in Nat /\ wrote <= room /\ wrote <= Len(body)
        /\ read \in Nat /\ wrote <= read /\ read <= Len(body) /\ read - wrote <= Mss
        /\ wrote < Len(body) => wrote < read
    <2> DEFINE len == Len(body)
    <2>1. len \in Nat
      BY <1>0
    <2> HIDE DEF len
    <2>2. LET wr == IF len <= room THEN len ELSE (room \div Mss) * Mss
              rd  == Smaller(wr + Mss, len)
          IN  /\ wr \in Nat /\ wr <= room /\ wr <= len
              /\ rd \in Nat /\ wr <= rd /\ rd <= len /\ rd - wr <= Mss
              /\ wr < len => wr < rd
      BY <2>1, DrainBounds
    <2> QED
      BY <2>2 DEF len
  <1>2. z = IF err THEN TeardownFlow(x, TRUE)
            ELSE IF x.down.fin_in /\ ~y.c.paused THEN DownlinkMaybeShutdown(y) ELSE y
    <2> DEFINE v == [x EXCEPT !.down.body = After(@, read), !.c.snd = @ \o Front(body, wrote),
                              !.c.stash = SubSeq(body, wrote + 1, read),
                              !.c.paused = wrote < Len(body)]
    <2>1. z = IF err THEN OnRelayError(x)
              ELSE IF x.down.fin_in /\ ~v.c.paused THEN DownlinkMaybeShutdown(v) ELSE v
      BY DEF DownlinkDrain
    <2>2. v = y
      BY <1>0 DEF Drained, ClientRec
    <2> HIDE DEF v, y, z
    <2> QED
      BY <2>1, <2>2 DEF OnRelayError
  <1> HIDE DEF wrote, read, z
  <1>3. /\ b \in Bytes /\ Len(b) = Len(body) - read
        /\ s \in Bytes /\ Len(s) = Len(x.c.snd) + wrote
        /\ t \in Bytes /\ Len(t) = read - wrote
        /\ Front(body, wrote) \in Bytes /\ Front(body, wrote) \o (t \o b) = body
    <2> HIDE DEF body
    <2>1. b \in Bytes /\ Len(b) = Len(body) - read
      BY <1>0, <1>1, Cut
    <2>2. Front(body, wrote) \in Bytes /\ Len(Front(body, wrote)) = wrote
      BY <1>0, <1>1, Cut
    <2>3. s \in Bytes /\ Len(s) = Len(x.c.snd) + wrote
      BY <1>0, <2>2, Joined
    <2>4. t \in Bytes /\ Len(t) = read - wrote /\ Front(body, wrote) \o (t \o b) = body
      BY <1>0, <1>1, CutTwice
    <2> QED
      BY <2>1, <2>2, <2>3, <2>4
  <1>4. s \o (t \o b) = x.c.snd \o (x.c.stash \o body)
    <2>1. x.c.stash \o body = body
      BY <1>0, JoinEmpty
    <2>2. t \o b \in Bytes
      BY <1>3, Joined
    <2>3. s \o (t \o b) = x.c.snd \o (Front(body, wrote) \o (t \o b))
      BY <1>0, <1>3, <2>2, Assoc
    <2> QED
      BY <1>3, <2>1, <2>3
  <1> HIDE DEF b, s, t
  <1>5. /\ p \in BOOLEAN /\ (p <=> t # <<>>) /\ Len(t) <= Mss /\ Len(s) <= SndBuf
        /\ Len(b) <= Len(body) /\ (~p => t = <<>> /\ b = <<>>)
    <2>1. p <=> t # <<>>
      BY <1>0, <1>1, <1>3, Empty
    <2>2. Len(t) <= Mss /\ Len(b) <= Len(body)
      BY <1>0, <1>1, <1>3, Bounds
    <2>3. Len(s) <= SndBuf
      <3>1. Len(x.c.snd) \in Nat
        BY <1>0, LenType
      <3> QED
        BY <1>1, <1>3, <3>1, Bounds
    <2>4. ~p => Len(b) = 0
      BY <1>0, <1>1, <1>3
    <2> QED
      BY <1>3, <2>1, <2>2, <2>3, <2>4, Empty
  <1>6. x.c.fin_received => t = <<>> /\ b = <<>>
    <2> SUFFICES ASSUME x.c.fin_received
                 PROVE  t = <<>> /\ b = <<>>
      OBVIOUS
    <2>1. body = <<>>
      BY DEF Running, ClientOK, FinsSeen
    <2>2. Len(body) = 0
      BY <2>1, Empty
    <2>3. ~p
      BY <1>1, <2>2
    <2> QED
      BY <1>5, <2>3
  <1> HIDE DEF p
  <1>7. Running(y) /\ ClientKeeps(x, y) /\ (Waits(x.c) => Waits(y.c))
    BY <1>3, <1>4, <1>5, <1>6, DrainedKeeps
  <1>8. /\ y.down.body = b /\ y.down.fin_in = x.down.fin_in /\ y.c.stash = t /\ y.c.paused = p
        /\ y.up = x.up
    BY <1>0, <1>3, <1>5, DrainedFields
  <1> HIDE DEF y
  <1>9. CASE err
    <2>1. z = TeardownFlow(x, TRUE)
      BY <1>2, <1>9
    <2>2. ClientKeeps(x, z)
      BY <2>1, TeardownKeeps
    <2>3. z.c.pcb = "aborted"
      BY <1>0, <2>1, TeardownFields, FreedFields
    <2> QED
      BY <2>2, <2>3 DEF Waits, z
  <1>10. CASE ~err /\ x.down.fin_in /\ ~p
    <2>1. z = DownlinkMaybeShutdown(y)
      BY <1>2, <1>8, <1>10
    <2>2. ClientKeeps(y, z) /\ (Waits(y.c) => Waits(z.c))
      BY <1>5, <1>7, <1>8, <1>10, <2>1, MaybeShutdownKeeps
    <2>3. ClientKeeps(x, z)
      BY <1>7, <1>8, <2>2, KeepsOn DEF Running
    <2> QED
      BY <1>7, <2>2, <2>3 DEF z
  <1>11. CASE ~err /\ ~(x.down.fin_in /\ ~p)
    <2>1. z = y
      BY <1>2, <1>8, <1>11
    <2> QED
      BY <1>7, <2>1 DEF z
  <1> QED
    BY <1>9, <1>10, <1>11

(* A retry that has room for the stash ends the pause. *)
LEMMA StashRetryKeeps ==
    ASSUME NEW x, Running(x), NEW room \in Nat, Len(x.c.snd) + room <= SndBuf,
           NEW err \in BOOLEAN
    PROVE  LET z == DownlinkStashRetry(x, room, err) IN
           /\ ClientKeeps(x, z) /\ (Waits(x.c) => Waits(z.c))
           /\ z.st = "LIVE" => z.up = x.up
           /\ z.st = "LIVE" /\ ~z.c.paused /\ x.c.paused
                => /\ z.c.stash = <<>> /\ Len(x.c.stash) <= room
                   /\ Len(z.c.snd) = Len(x.c.snd) + Len(x.c.stash)
  <1> DEFINE z == DownlinkStashRetry(x, room, err)
             s == x.c.snd \o x.c.stash
             y == Drained(x, x.down.body, s, <<>>, FALSE)
  <1>0. /\ x \in ClientRec /\ x.down.body \in Bytes /\ x.c.snd \in Bytes /\ x.c.stash \in Bytes
        /\ Len(x.c.stash) \in Nat /\ Len(x.c.snd) \in Nat
    BY LenType DEF Running, ClientOK, ClientRec, Flow, Stream
  <1>1. CASE room < Len(x.c.stash)
    <2>1. z = x
      BY <1>1 DEF DownlinkStashRetry
    <2> QED
      BY <2>1, KeepsItself
  <1>2. CASE ~(room < Len(x.c.stash)) /\ err
    <2>1. z = TeardownFlow(x, TRUE)
      BY <1>2 DEF DownlinkStashRetry, OnRelayError
    <2> HIDE DEF z
    <2>2. ClientKeeps(x, z)
      BY <2>1, TeardownKeeps
    <2>3. z.c.pcb = "aborted" /\ z.st = "ABORTED"
      BY <1>0, <2>1, TeardownFields, FreedFields DEF Running
    <2> QED
      BY <2>2, <2>3 DEF Waits, z
  <1>3. CASE ~(room < Len(x.c.stash)) /\ ~err
    <2>1. z = y
      <3>1. z = [x EXCEPT !.c.snd = s, !.c.stash = <<>>, !.c.paused = FALSE]
        BY <1>3 DEF DownlinkStashRetry
      <3>2. [x EXCEPT !.c.snd = s, !.c.stash = <<>>, !.c.paused = FALSE]
              = [x EXCEPT !.down.body = x.down.body, !.c.snd = s, !.c.stash = <<>>,
                          !.c.paused = FALSE]
        BY ZenonT(90), <1>0 DEF ClientRec, Stream
      <3> QED
        BY <3>1, <3>2 DEF Drained
    <2>2. s \in Bytes /\ Len(s) = Len(x.c.snd) + Len(x.c.stash)
      BY <1>0, Joined
    <2>3. s \o (<<>> \o x.down.body) = x.c.snd \o (x.c.stash \o x.down.body)
      <3>1. <<>> \o x.down.body = x.down.body
        BY <1>0, JoinEmpty
      <3>2. s \o x.down.body = x.c.snd \o (x.c.stash \o x.down.body)
        BY <1>0, Assoc
      <3> QED
        BY <3>1, <3>2
    <2> DEFINE b == x.down.body
               t == <<>>
               p == FALSE
    <2>4. Len(s) <= SndBuf
      <3> DEFINE a == Len(x.c.snd)
                 k == Len(x.c.stash)
      <3>1. a \in Nat /\ k \in Nat /\ k <= room /\ a + room <= SndBuf
        BY <1>0, <1>3
      <3> HIDE DEF a, k
      <3>2. a + k <= SndBuf
        BY <3>1, Bounds
      <3> QED
        BY <2>2, <3>2 DEF a, k
    <2>5. x.c.fin_received => b = <<>>
      BY DEF Running, ClientOK, FinsSeen
    <2>6. /\ b \in Bytes /\ t \in Bytes /\ p \in BOOLEAN /\ (p <=> t # <<>>) /\ Len(t) <= Mss
          /\ Len(b) <= Len(x.down.body) /\ Len(x.c.stash) <= room /\ t = <<>> /\ p = FALSE
      BY <1>0, <1>3, Empty, LenType, Bounds
    <2>10. s \o (t \o b) = x.c.snd \o (x.c.stash \o x.down.body)
      BY <2>3
    <2> HIDE DEF s, t, p, b
    <2>7. Running(Drained(x, b, s, t, p)) /\ ClientKeeps(x, Drained(x, b, s, t, p))
          /\ (Waits(x.c) => Waits(Drained(x, b, s, t, p).c))
      BY <2>2, <2>10, <2>4, <2>5, <2>6, DrainedKeeps
    <2> DEFINE v == Drained(x, b, s, t, p)
    <2>8. v.c.stash = t /\ v.c.snd = s /\ v.up = x.up
      <3>1. b \in Bytes /\ t \in Bytes /\ p \in BOOLEAN /\ s \in Bytes
        BY <2>2, <2>6
      <3>2. x \in ClientRec
        BY <1>0
      <3>3. v.c.stash = t
        BY <3>1, <3>2, DrainedFields
      <3>4. v.c.snd = s
        BY <3>1, <3>2, DrainedFields
      <3>5. v.up = x.up
        BY <3>1, <3>2, DrainedFields
      <3> QED
        BY <3>3, <3>4, <3>5
    <2>9. z = v
      BY <2>1 DEF t, p, b
    <2> HIDE DEF z, v
    <2> QED
      BY <2>2, <2>6, <2>7, <2>8, <2>9 DEF z, v
  <1> QED
    BY <1>1, <1>2, <1>3

(* downlink_pump: the stash, then the stream. *)
LEMMA DownlinkPumpKeeps ==
    ASSUME NEW x, Running(x), NEW room \in Nat, Len(x.c.snd) + room <= SndBuf,
           NEW err \in BOOLEAN
    PROVE  LET z == DownlinkPump(x, room, err) IN
           ClientKeeps(x, z) /\ (Waits(x.c) => Waits(z.c))
  <1> DEFINE z == DownlinkPump(x, room, err)
             y == IF x.c.paused THEN DownlinkStashRetry(x, room, err) ELSE x
             r == room - Len(x.c.stash)
  <1>0. /\ x.c \in Flow /\ x.c.stash \in Bytes /\ Len(x.c.stash) \in Nat /\ Len(x.c.snd) \in Nat
    BY LenType DEF Running, ClientOK, ClientRec, Flow
  <1>1. z = IF y.st # "LIVE" \/ y.c.paused \/ y.c.state # "active" THEN y
            ELSE DownlinkDrain(y, r, err /\ ~x.c.paused)
    BY DEF DownlinkPump
  <1>2. /\ ClientKeeps(x, y) /\ (Waits(x.c) => Waits(y.c))
        /\ y.st = "LIVE" => y.up = x.up
        /\ y.st = "LIVE" /\ ~y.c.paused
             => /\ y.c.stash = <<>> /\ Len(x.c.stash) <= room
                /\ Len(y.c.snd) = Len(x.c.snd) + Len(x.c.stash)
    <2>1. CASE x.c.paused
      <3>1. y = DownlinkStashRetry(x, room, err)
        BY <2>1
      <3> HIDE DEF y
      <3> QED
        BY ZenonT(90), <2>1, <3>1, StashRetryKeeps
    <2>2. CASE ~x.c.paused
      <3>1. y = x
        BY <2>2
      <3>2. x.c.stash = <<>>
        BY <2>2 DEF Running, ClientOK, Stashed
      <3>3. Len(x.c.stash) = 0
        BY <3>2, Empty
      <3> HIDE DEF y
      <3> QED
        BY <1>0, <3>1, <3>2, <3>3, KeepsItself
    <2> QED
      BY <2>1, <2>2
  <1> HIDE DEF y, z
  <1>3. CASE y.st # "LIVE" \/ y.c.paused \/ y.c.state # "active"
    <2>1. z = y
      BY <1>1, <1>3
    <2> QED
      BY <1>2, <2>1 DEF z
  <1>4. CASE y.st = "LIVE" /\ ~y.c.paused /\ y.c.state = "active"
    <2>1. z = DownlinkDrain(y, r, err /\ ~x.c.paused)
      BY <1>1, <1>4
    <2>2. Running(y)
      BY <1>2, <1>4 DEF ClientKeeps, Running
    <2>3. r \in Nat /\ Len(y.c.snd) + r <= SndBuf
      <3> DEFINE a == Len(x.c.snd)
                 k == Len(x.c.stash)
      <3>1. /\ a \in Nat /\ k \in Nat /\ k <= room /\ a + room <= SndBuf
            /\ Len(y.c.snd) = a + k /\ r = room - k
        BY <1>0, <1>2, <1>4
      <3> HIDE DEF a, k, r
      <3>2. room - k \in Nat /\ (a + k) + (room - k) <= SndBuf
        BY <3>1, Bounds
      <3> QED
        BY <3>1, <3>2
    <2> DEFINE er == err /\ ~x.c.paused
    <2>4. er \in BOOLEAN
      OBVIOUS
    <2> HIDE DEF r, er
    <2>5. ClientKeeps(y, DownlinkDrain(y, r, er)) /\ (Waits(y.c) => Waits(DownlinkDrain(y, r, er).c))
      BY <1>2, <1>4, <2>2, <2>3, <2>4, DownlinkDrainKeeps
    <2>6. ClientKeeps(y, z) /\ (Waits(y.c) => Waits(z.c))
      BY <2>1, <2>5 DEF er
    <2>7. ClientKeeps(x, z)
      BY <1>2, <1>4, <2>6, KeepsOn
    <2> QED
      BY <1>2, <2>6, <2>7 DEF z
  <1> QED
    BY <1>3, <1>4

-----------------------------------------------------------------------------
(* The server's operators *)

Relay(y) == ServerOK(y) /\ y.e.state = "active"

(* A call of the server on y leaves z: it moves the bytes of the stream to *)
(* the socket and those of the socket to the stream.                       *)
ServerKeeps(y, z) ==
    /\ Relay(z)
    /\ z.up.wire = y.up.wire /\ z.up.fin = y.up.fin /\ z.up.fin_in = y.up.fin_in
    /\ z.down.body = y.down.body /\ z.down.fin_in = y.down.fin_in
    /\ z.sk.in_fin = y.sk.in_fin
    /\ z.sk.out \o (z.e.stash \o z.up.body) = y.sk.out \o (y.e.stash \o y.up.body)
    /\ z.down.wire \o (z.e.up_stash \o z.sk.in) = y.down.wire \o (y.e.up_stash \o y.sk.in)

LEMMA ServerKeepsItself ==
    ASSUME NEW y, Relay(y)
    PROVE  ServerKeeps(y, y)
  BY SMTT(90) DEF ServerKeeps

LEMMA ServerKeepsOn ==
    ASSUME NEW x, NEW y, NEW z, ServerKeeps(x, y), ServerKeeps(y, z)
    PROVE  ServerKeeps(x, z)
  BY DEF ServerKeeps

(* Every field of the server's record but those of the fd's registration. *)
SameRelay(y, z) ==
    /\ z \in ServerRec /\ z.up = y.up /\ z.sk = y.sk
    /\ z.down.wire = y.down.wire /\ z.down.body = y.down.body /\ z.down.fin = y.down.fin
    /\ z.down.fin_in = y.down.fin_in
    /\ z.e.state = y.e.state /\ z.e.stash = y.e.stash /\ z.e.paused = y.e.paused
    /\ z.e.fin_received = y.e.fin_received /\ z.e.shutdown_done = y.e.shutdown_done
    /\ z.e.up_stash = y.e.up_stash /\ z.e.withheld = y.e.withheld /\ z.e.eof = y.e.eof
    /\ z.e.fin_sent = y.e.fin_sent

LEMMA SameRelayKeeps ==
    ASSUME NEW y, Relay(y), NEW z, SameRelay(y, z)
    PROVE  ServerKeeps(y, z)
  <1>1. StreamOK(z.up) /\ StreamOK(z.down)
    BY DEF Relay, ServerOK, SameRelay, StreamOK, Room
  <1>2. Registered(z.e) /\ ShutdownOK(z) /\ EofOK(z)
    BY DEF Relay, ServerOK, SameRelay, Registered, ShutdownOK, EofOK
  <1>3. ServerOK(z)
    BY <1>1, <1>2 DEF Relay, ServerOK, SameRelay
  <1> QED
    BY <1>3 DEF ServerKeeps, Relay, SameRelay

(* svr_tcp_egress_flow_close *)
LEMMA CloseRequestKeeps ==
    ASSUME NEW y, Relay(y)
    PROVE  LET z == CloseRequest(y) IN
           ServerKeeps(y, z) /\ (Interest(y.e) => Interest(z.e))
  <1> DEFINE z == CloseRequest(y)
  <1>0. y \in ServerRec
    BY DEF Relay, ServerOK
  <1>1. [y.e EXCEPT !.closed = TRUE] \in Egress /\ [y.down EXCEPT !.reset = TRUE] \in Stream
    BY <1>0 DEF ServerRec, Egress, Stream
  <1>2. SameRelay(y, z) /\ z.e.want_read = y.e.want_read /\ z.e.want_write = y.e.want_write
    BY <1>0, <1>1 DEF CloseRequest, SameRelay, ServerRec, Egress, Stream
  <1> HIDE DEF z
  <1>3. ServerKeeps(y, z)
    BY <1>2, SameRelayKeeps
  <1> QED
    BY <1>2, <1>3 DEF Interest, SameRelay, z

LEMMA InterestFields ==
    ASSUME NEW y \in ServerRec, y.e.state = "active"
    PROVE  LET z == UpdateFdInterest(y) IN SameRelay(y, z) /\ Interest(z.e)
  <1> DEFINE f == [y.e EXCEPT !.want_write = y.e.paused, !.want_read = ~y.e.withheld /\ ~y.e.eof]
             z == UpdateFdInterest(y)
  <1>1. f \in Egress
    BY DEF ServerRec, Egress
  <1>2. z = [y EXCEPT !.e = f]
    BY DEF UpdateFdInterest, ServerRec
  <1>3. /\ f.state = y.e.state /\ f.stash = y.e.stash /\ f.paused = y.e.paused
        /\ f.fin_received = y.e.fin_received /\ f.shutdown_done = y.e.shutdown_done
        /\ f.up_stash = y.e.up_stash /\ f.withheld = y.e.withheld /\ f.eof = y.e.eof
        /\ f.fin_sent = y.e.fin_sent
        /\ f.want_write = y.e.paused /\ f.want_read = (~y.e.withheld /\ ~y.e.eof)
    BY DEF ServerRec, Egress
  <1> HIDE DEF f, z
  <1>4. z \in ServerRec /\ z.e = f /\ z.up = y.up /\ z.down = y.down /\ z.sk = y.sk
    BY <1>1, <1>2 DEF ServerRec
  <1>5. SameRelay(y, z) /\ Interest(z.e)
    BY <1>3, <1>4 DEF SameRelay, Interest
  <1> QED
    BY <1>5 DEF z

LEMMA InterestKeeps ==
    ASSUME NEW y, Relay(y)
    PROVE  LET z == UpdateFdInterest(y) IN
           ServerKeeps(y, z) /\ SameRelay(y, z) /\ Interest(z.e)
  <1> DEFINE z == UpdateFdInterest(y)
  <1>1. SameRelay(y, z) /\ Interest(z.e)
    BY InterestFields DEF Relay, ServerOK
  <1> HIDE DEF z
  <1>2. ServerKeeps(y, z)
    BY <1>1, SameRelayKeeps
  <1> QED
    BY <1>1, <1>2 DEF z

MovedUp(y, b, o, s, p) ==
    [y EXCEPT !.up.body = b, !.sk.out = o, !.e.stash = s, !.e.paused = p]

LEMMA MovedUpFields ==
    ASSUME NEW y \in ServerRec, NEW b \in Bytes, NEW o \in Bytes, NEW s \in Bytes,
           NEW p \in BOOLEAN
    PROVE  LET z == MovedUp(y, b, o, s, p) IN
           /\ z \in ServerRec /\ z.down = y.down
           /\ z.up.body = b /\ z.up.wire = y.up.wire /\ z.up.fin = y.up.fin
           /\ z.up.fin_in = y.up.fin_in
           /\ z.sk.out = o /\ z.sk.in = y.sk.in /\ z.sk.in_fin = y.sk.in_fin
           /\ z.e.state = y.e.state /\ z.e.stash = s /\ z.e.paused = p
           /\ z.e.fin_received = y.e.fin_received /\ z.e.shutdown_done = y.e.shutdown_done
           /\ z.e.up_stash = y.e.up_stash /\ z.e.withheld = y.e.withheld /\ z.e.eof = y.e.eof
           /\ z.e.fin_sent = y.e.fin_sent
           /\ z.e.want_read = y.e.want_read /\ z.e.want_write = y.e.want_write
  <1>1. [y.up EXCEPT !.body = b] \in Stream
    BY DEF ServerRec, Stream
  <1>2. [y.sk EXCEPT !.out = o] \in Socket
    BY DEF ServerRec, Socket
  <1>3. [y.e EXCEPT !.stash = s, !.paused = p] \in Egress
    BY DEF ServerRec, Egress
  <1> QED
    BY <1>1, <1>2, <1>3 DEF MovedUp, ServerRec, Stream, Socket, Egress

(* What the socket, the stash and the stream hold may move to the socket. *)
LEMMA MovedUpKeeps ==
    ASSUME NEW y, Relay(y), NEW b \in Bytes, NEW o \in Bytes, NEW s \in Bytes,
           NEW p \in BOOLEAN, p <=> s # <<>>, Len(s) <= Chunk, Len(o) <= SockCap,
           Len(b) <= Len(y.up.body), o \o (s \o b) = y.sk.out \o (y.e.stash \o y.up.body),
           y.e.fin_received => s = <<>> /\ b = <<>>
    PROVE  ServerKeeps(y, MovedUp(y, b, o, s, p))
  <1> DEFINE z == MovedUp(y, b, o, s, p)
  <1>0. y \in ServerRec /\ y.up \in Stream
    BY DEF Relay, ServerOK, ServerRec
  <1>1. /\ z \in ServerRec /\ z.down = y.down
        /\ z.up.body = b /\ z.up.wire = y.up.wire /\ z.up.fin = y.up.fin
        /\ z.up.fin_in = y.up.fin_in
        /\ z.sk.out = o /\ z.sk.in = y.sk.in /\ z.sk.in_fin = y.sk.in_fin
        /\ z.e.state = y.e.state /\ z.e.stash = s /\ z.e.paused = p
        /\ z.e.fin_received = y.e.fin_received /\ z.e.shutdown_done = y.e.shutdown_done
        /\ z.e.up_stash = y.e.up_stash /\ z.e.withheld = y.e.withheld /\ z.e.eof = y.e.eof
        /\ z.e.fin_sent = y.e.fin_sent
    BY <1>0, MovedUpFields
  <1> HIDE DEF z
  <1>2. StreamOK(z.up)
    <2> DEFINE a == Len(y.up.wire)
               k == Len(y.up.body)
               j == Len(b)
    <2>1. a \in Nat /\ j \in Nat /\ k \in Nat /\ j <= k
      BY <1>0, LenType DEF Stream
    <2>2. H3Cap - a - k >= 0 /\ (y.up.fin_in => y.up.fin /\ y.up.wire = <<>>)
      BY DEF Relay, ServerOK, StreamOK, Room
    <2> HIDE DEF a, k, j
    <2>3. H3Cap - a - j >= 0
      BY <2>1, <2>2, Bounds
    <2>4. Room(z.up) = H3Cap - a - j
      BY <1>1 DEF Room, a, j
    <2> QED
      BY <1>1, <2>2, <2>3, <2>4 DEF StreamOK
  <1>3. StreamOK(z.down) /\ Registered(z.e)
    BY <1>1 DEF Relay, ServerOK, Registered
  <1>4. ShutdownOK(z) /\ EofOK(z)
    BY <1>1 DEF Relay, ServerOK, ShutdownOK, EofOK
  <1>5. Relay(z)
    BY <1>1, <1>2, <1>3, <1>4 DEF Relay, ServerOK
  <1>6. ServerKeeps(y, z)
    BY <1>1, <1>5 DEF ServerKeeps
  <1> QED
    BY <1>6 DEF z

LEMMA ShutdownDone ==
    ASSUME NEW y, ShutdownOK(y)
    PROVE  MaybeShutdownDownlink(y) = y
  BY DEF MaybeShutdownDownlink, ShutdownOK

(* The client's FIN, behind its last byte, shuts the socket down. *)
LEMMA ShutdownKeeps ==
    ASSUME NEW y, Relay(y), y.up.fin_in, y.e.stash = <<>>, y.up.body = <<>>, ~y.e.paused
    PROVE  LET z == MaybeShutdownDownlink([y EXCEPT !.e.fin_received = TRUE]) IN
           ServerKeeps(y, z) /\ (Interest(y.e) => Interest(z.e))
  <1> DEFINE v == [y EXCEPT !.e.fin_received = TRUE]
             z == MaybeShutdownDownlink(v)
  <1>0. y \in ServerRec
    BY DEF Relay, ServerOK
  <1>1. [y.e EXCEPT !.fin_received = TRUE] \in Egress
    BY <1>0 DEF ServerRec, Egress
  <1>2. /\ v \in ServerRec /\ v.up = y.up /\ v.down = y.down /\ v.sk = y.sk
        /\ v.e.state = y.e.state /\ v.e.stash = y.e.stash /\ v.e.paused = y.e.paused
        /\ v.e.fin_received = TRUE /\ v.e.shutdown_done = y.e.shutdown_done
        /\ v.e.up_stash = y.e.up_stash /\ v.e.withheld = y.e.withheld /\ v.e.eof = y.e.eof
        /\ v.e.fin_sent = y.e.fin_sent
        /\ v.e.want_read = y.e.want_read /\ v.e.want_write = y.e.want_write
    BY <1>0, <1>1 DEF ServerRec, Egress
  <1> HIDE DEF v
  <1>3. /\ z \in ServerRec /\ z.up = v.up /\ z.down = v.down
        /\ z.sk.out = v.sk.out /\ z.sk.in = v.sk.in /\ z.sk.in_fin = v.sk.in_fin
        /\ z.e.state = v.e.state /\ z.e.stash = v.e.stash /\ z.e.paused = v.e.paused
        /\ z.e.fin_received = TRUE /\ z.e.shutdown_done = TRUE
        /\ z.e.up_stash = v.e.up_stash /\ z.e.withheld = v.e.withheld /\ z.e.eof = v.e.eof
        /\ z.e.fin_sent = v.e.fin_sent
        /\ z.e.want_read = v.e.want_read /\ z.e.want_write = v.e.want_write
    <2>1. CASE v.e.shutdown_done
      <3>1. z = v
        BY <2>1 DEF MaybeShutdownDownlink
      <3>2. v.e.shutdown_done = TRUE
        BY <1>2, <2>1 DEF ServerRec, Egress
      <3> QED
        BY <1>2, <3>1, <3>2
    <2>2. CASE ~v.e.shutdown_done
      <3>1. z = [v EXCEPT !.sk.out_fin = TRUE, !.e.shutdown_done = TRUE]
        BY <1>2, <2>2 DEF MaybeShutdownDownlink
      <3> HIDE DEF z
      <3>2. /\ [v.sk EXCEPT !.out_fin = TRUE] \in Socket
            /\ [v.e EXCEPT !.shutdown_done = TRUE] \in Egress
        BY <1>2 DEF ServerRec, Socket, Egress
      <3> QED
        BY <1>2, <3>1, <3>2 DEF ServerRec, Socket, Egress
    <2> QED
      BY <2>1, <2>2
  <1> HIDE DEF z
  <1>4. StreamOK(z.up) /\ StreamOK(z.down) /\ Registered(z.e)
    BY <1>2, <1>3 DEF Relay, ServerOK, Registered
  <1>5. ShutdownOK(z) /\ EofOK(z)
    BY <1>2, <1>3 DEF Relay, ServerOK, ShutdownOK, EofOK
  <1>6. Relay(z)
    BY <1>2, <1>3, <1>4, <1>5 DEF Relay, ServerOK
  <1>7. ServerKeeps(y, z)
    BY <1>2, <1>3, <1>6 DEF ServerKeeps
  <1> QED
    BY <1>2, <1>3, <1>7 DEF Interest, z, v

(* The chunk that holds the byte after the first n of len. *)
LEMMA ChunkBounds ==
    ASSUME NEW n \in Nat, NEW len \in Nat, n < len
    PROVE  LET r == ChunkEnd(n, len) IN r \in Nat /\ n < r /\ r <= len /\ r - n <= Chunk
  <1> DEFINE f == (n \div Chunk) * Chunk
  <1>1. f \in Nat /\ f <= n /\ n < f + Chunk
    BY Bounds, Floor
  <1> HIDE DEF f
  <1>2. ChunkEnd(n, len) = Smaller(f + Chunk, len)
    BY DEF ChunkEnd, f
  <1> QED
    BY <1>1, <1>2, Bounds DEF Smaller

(* What one pass of a relay loop reads of s when the next hop has room. *)
LEMMA ReadBounds ==
    ASSUME NEW room \in Nat, NEW len \in Nat
    PROVE  LET sent == Smaller(room, len)
               read == IF sent = len THEN sent ELSE ChunkEnd(sent, len)
           IN  /\ sent \in Nat /\ sent <= room /\ sent <= len
               /\ read \in Nat /\ sent <= read /\ read <= len /\ read - sent <= Chunk
               /\ sent < len => sent < read
  <1> DEFINE sent == Smaller(room, len)
             read == IF sent = len THEN sent ELSE ChunkEnd(sent, len)
  <1>1. sent \in Nat /\ sent <= room /\ sent <= len
    BY Smallest
  <1> HIDE DEF sent
  <1>2. /\ read \in Nat /\ sent <= read /\ read <= len /\ read - sent <= Chunk
        /\ sent < len => sent < read
    <2>1. CASE sent = len
      BY <1>1, <2>1, Bounds
    <2>2. CASE sent # len
      <3>1. sent < len
        BY <1>1, <2>2
      <3> DEFINE r == ChunkEnd(sent, len)
      <3>2. r \in Nat /\ sent < r /\ r <= len /\ r - sent <= Chunk
        BY <1>1, <3>1, ChunkBounds
      <3> HIDE DEF r
      <3>3. read = r
        BY <2>2 DEF r
      <3> QED
        BY <1>1, <3>2, <3>3
    <2> QED
      BY <2>1, <2>2
  <1> HIDE DEF read
  <1> QED
    BY <1>1, <1>2 DEF sent, read

(* Bytes cut between the next hop, the stash and where they were read. *)
LEMMA Relayed ==
    ASSUME NEW o \in Bytes, NEW s \in Bytes, NEW m \in Nat, NEW n \in Nat, m <= n, n <= Len(s)
    PROVE  /\ o \o Front(s, m) \in Bytes /\ Len(o \o Front(s, m)) = Len(o) + m
           /\ SubSeq(s, m + 1, n) \in Bytes /\ Len(SubSeq(s, m + 1, n)) = n - m
           /\ After(s, n) \in Bytes /\ Len(After(s, n)) = Len(s) - n
           /\ (o \o Front(s, m)) \o (SubSeq(s, m + 1, n) \o After(s, n)) = o \o (<<>> \o s)
  <1>0. Len(s) \in Nat /\ m <= Len(s)
    BY LenType
  <1>1. Front(s, m) \in Bytes /\ Len(Front(s, m)) = m
    BY <1>0, Cut
  <1>2. o \o Front(s, m) \in Bytes /\ Len(o \o Front(s, m)) = Len(o) + m
    BY <1>1, Joined
  <1>3. /\ SubSeq(s, m + 1, n) \in Bytes /\ Len(SubSeq(s, m + 1, n)) = n - m
        /\ Front(s, m) \o (SubSeq(s, m + 1, n) \o After(s, n)) = s
    BY CutTwice
  <1>4. After(s, n) \in Bytes /\ Len(After(s, n)) = Len(s) - n
    BY Cut
  <1> DEFINE t == SubSeq(s, m + 1, n) \o After(s, n)
  <1>5. t \in Bytes
    BY <1>3, <1>4, Joined
  <1>6. (o \o Front(s, m)) \o t = o \o (Front(s, m) \o t)
    <2> HIDE DEF t
    <2> QED
      BY <1>1, <1>5, Assoc
  <1>7. <<>> \o s = s
    BY JoinEmpty
  <1> QED
    BY <1>2, <1>3, <1>4, <1>6, <1>7

(* svr_tcp_egress_drain_body *)
LEMMA DrainBodyKeeps ==
    ASSUME NEW y, Relay(y), NEW err \in BOOLEAN
    PROVE  LET z == DrainBody(y, err) IN
           ServerKeeps(y, z) /\ (Interest(y.e) => Interest(z.e))
  <1> DEFINE body == y.up.body
             sent == Smaller(SockCap - Len(y.sk.out), Len(body))
             read == IF sent = Len(body) THEN sent ELSE ChunkEnd(sent, Len(body))
             b == After(body, read)
             o == y.sk.out \o Front(body, sent)
             s == SubSeq(body, sent + 1, read)
             p == sent < Len(body)
             v == [y EXCEPT !.up.body = After(@, read), !.sk.out = @ \o Front(body, sent)]
             w == MovedUp(y, b, o, s, p)
             z == DrainBody(y, err)
  <1>0. /\ y \in ServerRec /\ body \in Bytes /\ y.sk.out \in Bytes /\ Len(body) \in Nat
        /\ Len(y.sk.out) \in Nat /\ SockCap - Len(y.sk.out) \in Nat
    <2>1. y \in ServerRec /\ body \in Bytes /\ y.sk.out \in Bytes /\ Len(y.sk.out) <= SockCap
      BY DEF Relay, ServerOK, ServerRec, Socket, Stream
    <2>2. Len(body) \in Nat /\ Len(y.sk.out) \in Nat
      BY <2>1, LenType
    <2> DEFINE a == Len(y.sk.out)
    <2>3. a \in Nat /\ a <= SockCap
      BY <2>1, <2>2
    <2> HIDE DEF a
    <2>4. SockCap - a \in Nat
      BY <2>3, Bounds
    <2> QED
      BY <2>1, <2>2, <2>4 DEF a
  <1>1. /\ sent \in Nat /\ sent <= SockCap - Len(y.sk.out) /\ sent <= Len(body)
        /\ read \in Nat /\ sent <= read /\ read <= Len(body) /\ read - sent <= Chunk
        /\ sent < Len(body) => sent < read
    <2> DEFINE len == Len(body)
               room == SockCap - Len(y.sk.out)
    <2>1. len \in Nat /\ room \in Nat
      BY <1>0
    <2> HIDE DEF len, room
    <2>2. LET se == Smaller(room, len)
              re == IF se = len THEN se ELSE ChunkEnd(se, len)
          IN  /\ se \in Nat /\ se <= room /\ se <= len
              /\ re \in Nat /\ se <= re /\ re <= len /\ re - se <= Chunk
              /\ se < len => se < re
      BY <2>1, ReadBounds
    <2> QED
      BY <2>2 DEF len, room
  <1>2. z = IF y.e.paused THEN y
            ELSE IF err THEN CloseRequest(y)
            ELSE IF p THEN UpdateFdInterest([v EXCEPT !.e.stash = s, !.e.paused = TRUE])
            ELSE IF y.up.fin_in THEN MaybeShutdownDownlink([v EXCEPT !.e.fin_received = TRUE])
            ELSE v
    BY DEF DrainBody
  <1>3. CASE y.e.paused
    <2>1. z = y
      BY <1>2, <1>3
    <2> QED
      BY <2>1, ServerKeepsItself
  <1>4. CASE ~y.e.paused /\ err
    <2>1. z = CloseRequest(y)
      BY <1>2, <1>4
    <2> QED
      BY <2>1, CloseRequestKeeps
  <1>5. CASE ~y.e.paused /\ ~err
    <2>1. y.e.stash = <<>>
      BY <1>5 DEF Relay, ServerOK, Registered
    <2>2. y.e.paused = FALSE
      BY <1>0, <1>5 DEF ServerRec, Egress
    <2>3. p => [v EXCEPT !.e.stash = s, !.e.paused = TRUE] = w
      BY <1>0 DEF MovedUp, ServerRec
    <2>4. /\ o \in Bytes /\ Len(o) = Len(y.sk.out) + sent
          /\ s \in Bytes /\ Len(s) = read - sent
          /\ b \in Bytes /\ Len(b) = Len(body) - read
          /\ o \o (s \o b) = y.sk.out \o (<<>> \o body)
      <3> DEFINE a == y.sk.out
      <3>1. /\ a \in Bytes /\ body \in Bytes /\ sent \in Nat /\ read \in Nat
            /\ sent <= read /\ read <= Len(body)
        BY <1>0, <1>1
      <3> HIDE DEF a, body, sent, read
      <3>2. a \o Front(body, sent) \in Bytes /\ Len(a \o Front(body, sent)) = Len(a) + sent
        BY ZenonT(90), <3>1, Relayed
      <3>3. s \in Bytes /\ Len(s) = read - sent
        BY <3>1, Part
      <3>4. b \in Bytes /\ Len(b) = Len(body) - read
        BY <3>1, Cut
      <3>5. (a \o Front(body, sent)) \o (s \o b) = a \o (<<>> \o body)
        BY ZenonT(90), <3>1, Relayed
      <3> QED
        BY <3>2, <3>3, <3>4, <3>5 DEF a
    <2> HIDE DEF sent, read
    <2>5. /\ p \in BOOLEAN /\ (p <=> s # <<>>) /\ Len(s) <= Chunk /\ Len(o) <= SockCap
          /\ Len(b) <= Len(body) /\ (~p => s = <<>> /\ b = <<>>)
      <3> HIDE DEF o, s, b
      <3>1. p <=> Len(s) # 0
        BY <1>0, <1>1, <2>4
      <3>2. Len(s) <= Chunk /\ Len(b) <= Len(body) /\ (~p => Len(b) = 0)
        BY <1>0, <1>1, <2>4, Bounds
      <3>3. Len(o) <= SockCap
        <4> DEFINE a == Len(y.sk.out)
        <4>1. a \in Nat /\ sent <= SockCap - a /\ Len(o) = a + sent
          BY <1>0, <1>1, <2>4
        <4> HIDE DEF a
        <4>2. a + sent <= SockCap
          BY <1>1, <4>1, Bounds
        <4> QED
          BY <4>1, <4>2
      <3> QED
        BY <2>4, <3>1, <3>2, <3>3, Empty
    <2>6. ~p => v = w
      <3> SUFFICES ASSUME ~p
                   PROVE  v = w
        OBVIOUS
      <3>1. s = <<>> /\ p = FALSE
        BY <2>5
      <3>2. v = [y EXCEPT !.up.body = b, !.sk.out = o, !.e.stash = <<>>, !.e.paused = FALSE]
        <4>1. [y.e EXCEPT !.stash = <<>>, !.paused = FALSE] = y.e
          BY <1>0, <2>1, <2>2 DEF ServerRec, Egress
        <4>2. [y EXCEPT !.up.body = b, !.sk.out = o, !.e.stash = <<>>, !.e.paused = FALSE]
                = [y EXCEPT !.up.body = b, !.sk.out = o,
                            !.e = [y.e EXCEPT !.stash = <<>>, !.paused = FALSE]]
          BY <1>0 DEF ServerRec
        <4>3. v = [y EXCEPT !.up.body = b, !.sk.out = o, !.e = y.e]
          BY <1>0 DEF ServerRec
        <4> QED
          BY <4>1, <4>2, <4>3
      <3> QED
        BY <3>1, <3>2 DEF MovedUp
    <2>7. y.e.fin_received => s = <<>> /\ b = <<>>
      <3> SUFFICES ASSUME y.e.fin_received
                   PROVE  ~p
        BY <2>5
      <3>1. body = <<>>
        BY DEF Relay, ServerOK, ShutdownOK
      <3>2. Len(body) = 0
        BY <3>1, Empty
      <3> QED
        BY <1>1, <3>2
    <2> HIDE DEF s, b, o, p
    <2>8. ServerKeeps(y, w)
      BY <2>1, <2>4, <2>5, <2>7, MovedUpKeeps
    <2>9. /\ w.e.paused = p /\ w.e.stash = s /\ w.up.body = b /\ w.up.fin_in = y.up.fin_in
          /\ w.e.withheld = y.e.withheld /\ w.e.eof = y.e.eof
          /\ w.e.want_read = y.e.want_read /\ w.e.want_write = y.e.want_write
      BY <1>0, <2>4, <2>5, MovedUpFields
    <2> HIDE DEF w, v, z
    <2>10. CASE p
      <3>1. z = UpdateFdInterest(w)
        BY SMTT(90), <1>2, <1>5, <2>3, <2>10
      <3>2. ServerKeeps(w, z) /\ Interest(z.e)
        BY ZenonT(90), <2>8, <3>1, InterestKeeps DEF ServerKeeps
      <3> QED
        BY <2>8, <3>2, ServerKeepsOn DEF z
    <2>11. CASE ~p /\ y.up.fin_in
      <3>1. z = MaybeShutdownDownlink([w EXCEPT !.e.fin_received = TRUE])
        BY SMTT(90), <1>2, <1>5, <2>6, <2>11
      <3>2. ServerKeeps(w, z) /\ (Interest(w.e) => Interest(z.e))
        BY <2>5, <2>8, <2>9, <2>11, <3>1, ShutdownKeeps DEF ServerKeeps
      <3>3. Interest(y.e) => Interest(w.e)
        BY <2>2, <2>5, <2>9, <2>11 DEF Interest
      <3> QED
        BY <2>8, <3>2, <3>3, ServerKeepsOn DEF z
    <2>12. CASE ~p /\ ~y.up.fin_in
      <3>1. z = w
        BY <1>2, <1>5, <2>6, <2>12
      <3>2. Interest(y.e) => Interest(w.e)
        BY <2>2, <2>5, <2>9, <2>12 DEF Interest
      <3> QED
        BY <2>8, <3>1, <3>2 DEF z
    <2> QED
      BY <2>10, <2>11, <2>12
  <1> QED
    BY <1>3, <1>4, <1>5

(* svr_tcp_egress_flush_downlink_retry *)
LEMMA FlushRetryKeeps ==
    ASSUME NEW y, Relay(y), y.e.paused, NEW err \in BOOLEAN
    PROVE  LET z == FlushDownlinkRetry(y, err) IN
           ServerKeeps(y, z) /\ (Interest(y.e) => Interest(z.e))
  <1> DEFINE n == Smaller(SockCap - Len(y.sk.out), Len(y.e.stash))
             b == y.up.body
             o == y.sk.out \o Front(y.e.stash, n)
             s == After(y.e.stash, n)
             p == s # <<>>
             v == [y EXCEPT !.sk.out = @ \o Front(y.e.stash, n), !.e.stash = After(@, n)]
             w == MovedUp(y, b, o, s, p)
             z == FlushDownlinkRetry(y, err)
  <1>0. /\ y \in ServerRec /\ b \in Bytes /\ y.sk.out \in Bytes /\ y.e.stash \in Bytes
        /\ Len(y.e.stash) \in Nat /\ Len(y.sk.out) \in Nat /\ SockCap - Len(y.sk.out) \in Nat
        /\ Len(b) \in Nat /\ y.up \in Stream /\ y.e \in Egress
    <2>1. /\ y \in ServerRec /\ b \in Bytes /\ y.sk.out \in Bytes /\ y.e.stash \in Bytes
          /\ Len(y.sk.out) <= SockCap /\ y.up \in Stream /\ y.e \in Egress
      BY DEF Relay, ServerOK, ServerRec, Socket, Stream, Egress
    <2>2. Len(y.e.stash) \in Nat /\ Len(y.sk.out) \in Nat /\ Len(b) \in Nat
      BY <2>1, LenType
    <2> DEFINE a == Len(y.sk.out)
    <2>3. a \in Nat /\ a <= SockCap
      BY <2>1, <2>2
    <2> HIDE DEF a
    <2>4. SockCap - a \in Nat
      BY <2>3, Bounds
    <2> QED
      BY <2>1, <2>2, <2>4 DEF a
  <1>1. n \in Nat /\ n <= SockCap - Len(y.sk.out) /\ n <= Len(y.e.stash)
    BY <1>0, Smallest
  <1>2. z = IF err THEN CloseRequest(y)
            ELSE IF v.e.stash # <<>> THEN v
            ELSE DrainBody(UpdateFdInterest(MaybeShutdownDownlink([v EXCEPT !.e.paused = FALSE])),
                           FALSE)
    BY DEF FlushDownlinkRetry
  <1>3. CASE err
    <2>1. z = CloseRequest(y)
      BY <1>2, <1>3
    <2> QED
      BY <2>1, CloseRequestKeeps
  <1>4. CASE ~err
    <2>1. v = [[y EXCEPT !.sk.out = o] EXCEPT !.e.stash = s] /\ v.e.stash = s
      BY <1>0 DEF ServerRec, Egress
    <2>2. y.e.paused = TRUE
      BY <1>0 DEF Egress
    <2>3. p => v = w
      <3> SUFFICES ASSUME p
                   PROVE  v = w
        OBVIOUS
      <3>1. [y.e EXCEPT !.stash = s, !.paused = TRUE] = [y.e EXCEPT !.stash = s]
        BY <1>0, <2>2 DEF Egress
      <3>2. [y.up EXCEPT !.body = b] = y.up
        BY <1>0 DEF Stream
      <3>3. v = [y EXCEPT !.up = y.up, !.sk.out = o, !.e = [y.e EXCEPT !.stash = s]]
        BY <1>0 DEF ServerRec
      <3>4. [y EXCEPT !.up.body = b, !.sk.out = o, !.e.stash = s, !.e.paused = TRUE]
              = [y EXCEPT !.up = [y.up EXCEPT !.body = b], !.sk.out = o,
                          !.e = [y.e EXCEPT !.stash = s, !.paused = TRUE]]
        BY <1>0 DEF ServerRec
      <3>5. w = [y EXCEPT !.up.body = b, !.sk.out = o, !.e.stash = s, !.e.paused = TRUE]
        BY DEF MovedUp
      <3> QED
        BY <3>1, <3>2, <3>3, <3>4, <3>5
    <2>4. ~p => [v EXCEPT !.e.paused = FALSE] = w
      <3> SUFFICES ASSUME ~p
                   PROVE  [v EXCEPT !.e.paused = FALSE] = w
        OBVIOUS
      <3>2. [y.up EXCEPT !.body = b] = y.up
        BY <1>0 DEF Stream
      <3>3. [v EXCEPT !.e.paused = FALSE]
              = [y EXCEPT !.up = y.up, !.sk.out = o, !.e = [y.e EXCEPT !.stash = s, !.paused = FALSE]]
        BY <1>0 DEF ServerRec
      <3>4. [y EXCEPT !.up.body = b, !.sk.out = o, !.e.stash = s, !.e.paused = FALSE]
              = [y EXCEPT !.up = [y.up EXCEPT !.body = b], !.sk.out = o,
                          !.e = [y.e EXCEPT !.stash = s, !.paused = FALSE]]
        BY <1>0 DEF ServerRec
      <3>5. w = [y EXCEPT !.up.body = b, !.sk.out = o, !.e.stash = s, !.e.paused = FALSE]
        BY DEF MovedUp
      <3> QED
        BY <3>2, <3>3, <3>4, <3>5
    <2>5. /\ o \in Bytes /\ Len(o) = Len(y.sk.out) + n
          /\ s \in Bytes /\ Len(s) = Len(y.e.stash) - n
          /\ o \o (s \o b) = y.sk.out \o (y.e.stash \o b)
      <3> DEFINE a == y.sk.out
                 d == y.e.stash
      <3>1. a \in Bytes /\ d \in Bytes /\ b \in Bytes /\ n \in Nat /\ n <= Len(d)
        BY <1>0, <1>1
      <3> HIDE DEF a, d, b, n
      <3>2. /\ a \o Front(d, n) \in Bytes /\ Len(a \o Front(d, n)) = Len(a) + n
            /\ (a \o Front(d, n)) \o After(d, n) = a \o d
        BY <3>1, Move
      <3>3. After(d, n) \in Bytes /\ Len(After(d, n)) = Len(d) - n
        BY <3>1, Cut
      <3>4. (a \o Front(d, n)) \o (After(d, n) \o b) = ((a \o Front(d, n)) \o After(d, n)) \o b
        BY ZenonT(90), <3>1, <3>2, <3>3, Assoc
      <3>5. (a \o d) \o b = a \o (d \o b)
        BY <3>1, Assoc
      <3> QED
        BY <3>2, <3>3, <3>4, <3>5 DEF a, d
    <2>6. p \in BOOLEAN /\ (p <=> s # <<>>) /\ Len(s) <= Chunk /\ Len(o) <= SockCap
      <3> DEFINE a == Len(y.sk.out)
                 k == Len(y.e.stash)
      <3>1. /\ a \in Nat /\ k \in Nat /\ n <= SockCap - a /\ Len(o) = a + n /\ Len(s) = k - n
            /\ k <= Chunk
        BY <1>0, <1>1, <2>5 DEF Relay, ServerOK
      <3> HIDE DEF a, k, n
      <3>2. a + n <= SockCap /\ k - n <= Chunk
        BY <1>1, <3>1, Bounds
      <3> QED
        BY SMTT(90), <3>1, <3>2
    <2>7. ~y.e.fin_received
      BY DEF Relay, ServerOK, ShutdownOK, Registered
    <2>8. Len(b) <= Len(y.up.body)
      BY <1>0
    <2> HIDE DEF n, s, o, p, v, z
    <2>9. ServerKeeps(y, w)
      BY <1>0, <2>5, <2>6, <2>7, <2>8, MovedUpKeeps
    <2>10. /\ w.e.paused = p /\ w.e.withheld = y.e.withheld /\ w.e.eof = y.e.eof
           /\ w.e.want_read = y.e.want_read /\ w.e.want_write = y.e.want_write
      <3>1. /\ y \in ServerRec /\ b \in Bytes /\ o \in Bytes /\ s \in Bytes /\ p \in BOOLEAN
        BY <1>0, <2>5, <2>6
      <3> HIDE DEF b
      <3> QED
        BY <3>1, MovedUpFields
    <2> HIDE DEF w
    <2>11. CASE p
      <3>1. z = w
        BY <1>2, <1>4, <2>1, <2>3, <2>11 DEF p
      <3>2. p = TRUE
        BY <2>6, <2>11
      <3>3. Interest(y.e) => Interest(w.e)
        BY <2>2, <2>10, <3>2 DEF Interest
      <3> QED
        BY <2>9, <3>1, <3>3 DEF z
    <2>12. CASE ~p
      <3>1. z = DrainBody(UpdateFdInterest(MaybeShutdownDownlink(w)), FALSE)
        BY ZenonT(90), <1>2, <1>4, <2>1, <2>4, <2>12 DEF p
      <3>2. MaybeShutdownDownlink(w) = w
        BY <2>9, ShutdownDone DEF ServerKeeps, Relay, ServerOK
      <3> DEFINE u == UpdateFdInterest(w)
      <3>3. ServerKeeps(w, u) /\ Interest(u.e)
        BY ZenonT(90), <2>9, InterestKeeps DEF ServerKeeps
      <3> HIDE DEF u
      <3>4. z = DrainBody(u, FALSE)
        BY SMTT(90), <3>1, <3>2 DEF u
      <3>5. ServerKeeps(u, z) /\ (Interest(u.e) => Interest(z.e))
        BY <3>3, <3>4, DrainBodyKeeps DEF ServerKeeps
      <3>6. ServerKeeps(y, z)
        BY <2>9, <3>3, <3>5, ServerKeepsOn
      <3> QED
        BY <3>3, <3>5, <3>6 DEF z
    <2> QED
      BY <2>11, <2>12
  <1> QED
    BY <1>3, <1>4

MovedDown(y, w, u, i, h) ==
    [y EXCEPT !.down.wire = w, !.e.up_stash = u, !.sk.in = i, !.e.withheld = h]

LEMMA MovedDownFields ==
    ASSUME NEW y \in ServerRec, NEW w \in Bytes, NEW u \in Bytes, NEW i \in Bytes,
           NEW h \in BOOLEAN
    PROVE  LET z == MovedDown(y, w, u, i, h) IN
           /\ z \in ServerRec /\ z.up = y.up
           /\ z.down.wire = w /\ z.down.body = y.down.body /\ z.down.fin = y.down.fin
           /\ z.down.fin_in = y.down.fin_in
           /\ z.sk.out = y.sk.out /\ z.sk.in = i /\ z.sk.in_fin = y.sk.in_fin
           /\ z.e.state = y.e.state /\ z.e.stash = y.e.stash /\ z.e.paused = y.e.paused
           /\ z.e.fin_received = y.e.fin_received /\ z.e.shutdown_done = y.e.shutdown_done
           /\ z.e.up_stash = u /\ z.e.withheld = h /\ z.e.eof = y.e.eof
           /\ z.e.fin_sent = y.e.fin_sent
           /\ z.e.want_read = y.e.want_read /\ z.e.want_write = y.e.want_write
  <1>1. [y.down EXCEPT !.wire = w] \in Stream
    BY DEF ServerRec, Stream
  <1>2. [y.sk EXCEPT !.in = i] \in Socket
    BY DEF ServerRec, Socket
  <1>3. [y.e EXCEPT !.up_stash = u, !.withheld = h] \in Egress
    BY DEF ServerRec, Egress
  <1> QED
    BY <1>1, <1>2, <1>3 DEF MovedDown, ServerRec, Stream, Socket, Egress

(* What the stream, the stash and the socket hold may move to the stream. *)
LEMMA MovedDownKeeps ==
    ASSUME NEW y, Relay(y), NEW w \in Bytes, NEW u \in Bytes, NEW i \in Bytes, NEW h \in BOOLEAN,
           NEW n \in Nat, n <= Room(y.down), Len(w) = Len(y.down.wire) + n,
           h <=> u # <<>>, Len(u) <= Chunk, Len(i) <= SockCap,
           w \o (u \o i) = y.down.wire \o (y.e.up_stash \o y.sk.in),
           y.e.eof => i = <<>>, y.e.fin_sent => u = <<>> /\ w = y.down.wire
    PROVE  ServerKeeps(y, MovedDown(y, w, u, i, h))
  <1> DEFINE z == MovedDown(y, w, u, i, h)
  <1>0. y \in ServerRec /\ y.down \in Stream
    BY DEF Relay, ServerOK, ServerRec
  <1>1. /\ z \in ServerRec /\ z.up = y.up
        /\ z.down.wire = w /\ z.down.body = y.down.body /\ z.down.fin = y.down.fin
        /\ z.down.fin_in = y.down.fin_in
        /\ z.sk.out = y.sk.out /\ z.sk.in = i /\ z.sk.in_fin = y.sk.in_fin
        /\ z.e.state = y.e.state /\ z.e.stash = y.e.stash /\ z.e.paused = y.e.paused
        /\ z.e.fin_received = y.e.fin_received /\ z.e.shutdown_done = y.e.shutdown_done
        /\ z.e.up_stash = u /\ z.e.withheld = h /\ z.e.eof = y.e.eof
        /\ z.e.fin_sent = y.e.fin_sent
    BY <1>0, MovedDownFields
  <1> HIDE DEF z
  <1>2. StreamOK(z.down)
    <2>1. Room(z.down) >= 0
      <3>1. z.down \in Stream /\ Len(z.down.wire) = Len(y.down.wire) + n
        BY <1>1 DEF ServerRec
      <3> QED
        BY <1>0, <1>1, <3>1, RoomKept
    <2>2. y.down.fin_in => y.down.fin /\ y.down.wire = <<>> /\ y.e.fin_sent
      BY DEF Relay, ServerOK, StreamOK, EofOK
    <2> QED
      BY <1>1, <2>1, <2>2 DEF StreamOK
  <1>3. StreamOK(z.up) /\ Registered(z.e)
    BY <1>1 DEF Relay, ServerOK, Registered
  <1>4. ShutdownOK(z) /\ EofOK(z)
    BY <1>1 DEF Relay, ServerOK, ShutdownOK, EofOK
  <1>5. Relay(z)
    BY <1>1, <1>2, <1>3, <1>4 DEF Relay, ServerOK
  <1>6. ServerKeeps(y, z)
    BY <1>1, <1>5 DEF ServerKeeps
  <1> QED
    BY <1>6 DEF z

(* The FIN of the origin goes out when nothing is stashed. *)
LEMMA TryUplinkFinKeeps ==
    ASSUME NEW y, Relay(y), y.e.eof, y.e.up_stash = <<>>
    PROVE  LET z == TryUplinkFin(y, FALSE) IN
           ServerKeeps(y, z) /\ (Interest(y.e) => Interest(z.e))
  <1> DEFINE z == TryUplinkFin(y, FALSE)
  <1>0. y \in ServerRec
    BY DEF Relay, ServerOK
  <1>1. CASE y.e.fin_sent \/ Room(y.down) = 0
    <2>1. z = y
      BY <1>1 DEF TryUplinkFin
    <2> QED
      BY <2>1, ServerKeepsItself
  <1>2. CASE ~y.e.fin_sent /\ Room(y.down) # 0
    <2>1. z = [y EXCEPT !.e.fin_sent = TRUE, !.down.fin = TRUE]
      BY <1>2 DEF TryUplinkFin
    <2> HIDE DEF z
    <2>2. /\ [y.e EXCEPT !.fin_sent = TRUE] \in Egress
          /\ [y.down EXCEPT !.fin = TRUE] \in Stream
      BY <1>0 DEF ServerRec, Egress, Stream
    <2>3. /\ z \in ServerRec /\ z.up = y.up /\ z.sk = y.sk
          /\ z.down.wire = y.down.wire /\ z.down.body = y.down.body /\ z.down.fin = TRUE
          /\ z.down.fin_in = y.down.fin_in
          /\ z.e.state = y.e.state /\ z.e.stash = y.e.stash /\ z.e.paused = y.e.paused
          /\ z.e.fin_received = y.e.fin_received /\ z.e.shutdown_done = y.e.shutdown_done
          /\ z.e.up_stash = y.e.up_stash /\ z.e.withheld = y.e.withheld /\ z.e.eof = y.e.eof
          /\ z.e.fin_sent = TRUE
          /\ z.e.want_read = y.e.want_read /\ z.e.want_write = y.e.want_write
      BY <1>0, <2>1, <2>2 DEF ServerRec, Egress, Stream
    <2>4. StreamOK(z.up) /\ StreamOK(z.down)
      BY <2>3 DEF Relay, ServerOK, StreamOK, Room
    <2>5. Registered(z.e) /\ ShutdownOK(z) /\ EofOK(z)
      BY <2>3 DEF Relay, ServerOK, Registered, ShutdownOK, EofOK
    <2>6. Relay(z)
      BY <2>3, <2>4, <2>5 DEF Relay, ServerOK
    <2>7. ServerKeeps(y, z)
      BY <2>3, <2>6 DEF ServerKeeps
    <2> QED
      BY <2>3, <2>7 DEF Interest, z
  <1> QED
    BY <1>1, <1>2

(* The end of the origin's bytes was read. *)
LEMMA EofKeeps ==
    ASSUME NEW y, Relay(y), y.sk.in_fin, y.sk.in = <<>>
    PROVE  LET z == [y EXCEPT !.e.eof = TRUE] IN
           ServerKeeps(y, z) /\ z.e.eof = TRUE /\ z.e.up_stash = y.e.up_stash
  <1> DEFINE z == [y EXCEPT !.e.eof = TRUE]
  <1>0. y \in ServerRec
    BY DEF Relay, ServerOK
  <1>1. [y.e EXCEPT !.eof = TRUE] \in Egress
    BY <1>0 DEF ServerRec, Egress
  <1>2. /\ z \in ServerRec /\ z.up = y.up /\ z.sk = y.sk /\ z.down = y.down
        /\ z.e.state = y.e.state /\ z.e.stash = y.e.stash /\ z.e.paused = y.e.paused
        /\ z.e.fin_received = y.e.fin_received /\ z.e.shutdown_done = y.e.shutdown_done
        /\ z.e.up_stash = y.e.up_stash /\ z.e.withheld = y.e.withheld /\ z.e.eof = TRUE
        /\ z.e.fin_sent = y.e.fin_sent
    BY <1>0, <1>1 DEF ServerRec, Egress
  <1> HIDE DEF z
  <1>3. Registered(z.e) /\ ShutdownOK(z) /\ EofOK(z)
    BY <1>2 DEF Relay, ServerOK, Registered, ShutdownOK, EofOK
  <1>4. Relay(z)
    BY <1>2, <1>3 DEF Relay, ServerOK
  <1>5. ServerKeeps(y, z)
    BY <1>2, <1>4 DEF ServerKeeps
  <1> QED
    BY <1>2, <1>5 DEF z

(* svr_tcp_egress_uplink_recv *)
LEMMA UplinkRecvKeeps ==
    ASSUME NEW y, Relay(y), ~y.e.withheld, NEW err \in BOOLEAN
    PROVE  LET z == UplinkRecv(y, err) IN
           ServerKeeps(y, z) /\ (Interest(y.e) => Interest(z.e))
  <1> DEFINE in == y.sk.in
             sent == Smaller(Room(y.down), Len(in))
             read == IF sent = Len(in) THEN sent ELSE ChunkEnd(sent, Len(in))
             i == After(in, read)
             r == y.down.wire \o Front(in, sent)
             u == SubSeq(in, sent + 1, read)
             p == sent < Len(in)
             v == [y EXCEPT !.sk.in = After(@, read), !.down.wire = @ \o Front(in, sent)]
             w == MovedDown(y, r, u, i, p)
             z == UplinkRecv(y, err)
  <1>0. /\ y \in ServerRec /\ in \in Bytes /\ y.down.wire \in Bytes /\ Len(in) \in Nat
        /\ Room(y.down) \in Nat /\ y.e \in Egress /\ Len(in) <= SockCap
    <2>1. /\ y \in ServerRec /\ in \in Bytes /\ y.down.wire \in Bytes /\ y.down \in Stream
          /\ StreamOK(y.down) /\ y.e \in Egress /\ Len(in) <= SockCap
      BY DEF Relay, ServerOK, ServerRec, Socket, Stream
    <2>2. Len(in) \in Nat
      BY <2>1, LenType
    <2>3. Room(y.down) \in Nat
      BY <2>1, RoomNat
    <2> QED
      BY <2>1, <2>2, <2>3
  <1>1. /\ sent \in Nat /\ sent <= Room(y.down) /\ sent <= Len(in)
        /\ read \in Nat /\ sent <= read /\ read <= Len(in) /\ read - sent <= Chunk
        /\ sent < Len(in) => sent < read
    <2> DEFINE len == Len(in)
               room == Room(y.down)
    <2>1. len \in Nat /\ room \in Nat
      BY <1>0
    <2> HIDE DEF len, room
    <2>2. LET se == Smaller(room, len)
              re == IF se = len THEN se ELSE ChunkEnd(se, len)
          IN  /\ se \in Nat /\ se <= room /\ se <= len
              /\ re \in Nat /\ se <= re /\ re <= len /\ re - se <= Chunk
              /\ se < len => se < re
      BY <2>1, ReadBounds
    <2> QED
      BY <2>2 DEF len, room
  <1>2. z = IF err THEN CloseRequest(y)
            ELSE IF p THEN UpdateFdInterest([v EXCEPT !.e.up_stash = u, !.e.withheld = TRUE])
            ELSE IF y.sk.in_fin
            THEN TryUplinkFin(UpdateFdInterest([v EXCEPT !.e.eof = TRUE]), FALSE)
            ELSE UpdateFdInterest(v)
    BY DEF UplinkRecv
  <1>3. CASE err
    <2>1. z = CloseRequest(y)
      BY <1>2, <1>3
    <2> QED
      BY <2>1, CloseRequestKeeps
  <1>4. CASE ~err
    <2>1. y.e.up_stash = <<>>
      BY DEF Relay, ServerOK, Registered
    <2>2. y.e.withheld = FALSE
      BY <1>0 DEF Egress
    <2>3. p => [v EXCEPT !.e.up_stash = u, !.e.withheld = TRUE] = w
      BY ZenonT(90), <1>0 DEF MovedDown, ServerRec
    <2>4. /\ r \in Bytes /\ Len(r) = Len(y.down.wire) + sent
          /\ u \in Bytes /\ Len(u) = read - sent
          /\ i \in Bytes /\ Len(i) = Len(in) - read
          /\ r \o (u \o i) = y.down.wire \o (<<>> \o in)
      <3> DEFINE a == y.down.wire
      <3>1. /\ a \in Bytes /\ in \in Bytes /\ sent \in Nat /\ read \in Nat
            /\ sent <= read /\ read <= Len(in)
        BY <1>0, <1>1
      <3> HIDE DEF a, in, sent, read
      <3>2. a \o Front(in, sent) \in Bytes /\ Len(a \o Front(in, sent)) = Len(a) + sent
        BY ZenonT(90), <3>1, Relayed
      <3>3. u \in Bytes /\ Len(u) = read - sent
        BY <3>1, Part
      <3>4. i \in Bytes /\ Len(i) = Len(in) - read
        BY <3>1, Cut
      <3>5. (a \o Front(in, sent)) \o (u \o i) = a \o (<<>> \o in)
        BY ZenonT(90), <3>1, Relayed
      <3> QED
        BY <3>2, <3>3, <3>4, <3>5 DEF a
    <2>5. in = <<>> => r = y.down.wire
      <3> SUFFICES ASSUME in = <<>>
                   PROVE  r = y.down.wire
        OBVIOUS
      <3>1. Len(in) = 0
        BY Empty
      <3>2. sent = 0
        BY <1>1, <3>1
      <3> HIDE DEF sent
      <3>3. Front(in, sent) \in Bytes /\ Len(Front(in, sent)) = 0
        BY <1>0, <1>1, <3>2, Cut
      <3>4. Front(in, sent) = <<>>
        BY <3>3, Empty
      <3> QED
        BY <1>0, <3>4, JoinEmpty
    <2> HIDE DEF sent, read
    <2>6. /\ p \in BOOLEAN /\ (p <=> u # <<>>) /\ Len(u) <= Chunk /\ Len(i) <= SockCap
          /\ (~p => u = <<>> /\ i = <<>>)
      <3> HIDE DEF r, u, i
      <3>1. p <=> Len(u) # 0
        BY <1>0, <1>1, <2>4
      <3>2. Len(u) <= Chunk /\ Len(i) <= SockCap /\ (~p => Len(i) = 0)
        BY <1>0, <1>1, <2>4, Bounds
      <3> QED
        BY <2>4, <3>1, <3>2, Empty
    <2>7. ~p => v = w
      <3> SUFFICES ASSUME ~p
                   PROVE  v = w
        OBVIOUS
      <3>1. u = <<>> /\ p = FALSE
        BY <2>6
      <3>2. v = [y EXCEPT !.down.wire = r, !.e.up_stash = <<>>, !.sk.in = i, !.e.withheld = FALSE]
        <4>1. [y.e EXCEPT !.up_stash = <<>>, !.withheld = FALSE] = y.e
          BY <1>0, <2>1, <2>2 DEF Egress
        <4>2. [y EXCEPT !.down.wire = r, !.e.up_stash = <<>>, !.sk.in = i, !.e.withheld = FALSE]
                = [y EXCEPT !.down.wire = r, !.sk.in = i,
                            !.e = [y.e EXCEPT !.up_stash = <<>>, !.withheld = FALSE]]
          BY <1>0 DEF ServerRec
        <4>3. v = [y EXCEPT !.down.wire = r, !.sk.in = i, !.e = y.e]
          BY <1>0 DEF ServerRec
        <4> QED
          BY <4>1, <4>2, <4>3
      <3> QED
        BY <3>1, <3>2 DEF MovedDown
    <2>8. /\ y.e.eof => i = <<>>
          /\ y.e.fin_sent => u = <<>> /\ r = y.down.wire
      <3>1. y.e.eof => in = <<>>
        BY DEF Relay, ServerOK, EofOK
      <3>2. y.e.fin_sent => y.e.eof
        BY DEF Relay, ServerOK, EofOK
      <3>3. in = <<>> => ~p
        <4> SUFFICES ASSUME in = <<>>
                     PROVE  ~p
          OBVIOUS
        <4>1. Len(in) = 0
          BY Empty
        <4> QED
          BY <1>1, <4>1
      <3> QED
        BY <2>5, <2>6, <3>1, <3>2, <3>3
    <2>9. /\ sent \in Nat /\ sent <= Room(y.down) /\ Len(r) = Len(y.down.wire) + sent
          /\ r \o (u \o i) = y.down.wire \o (y.e.up_stash \o y.sk.in)
      BY <1>1, <2>1, <2>4
    <2> HIDE DEF r, u, i, p
    <2>10. ServerKeeps(y, w)
      BY <2>4, <2>6, <2>8, <2>9, MovedDownKeeps
    <2>11. w.e.up_stash = u /\ w.sk.in = i /\ w.sk.in_fin = y.sk.in_fin
      <3>1. y \in ServerRec /\ r \in Bytes /\ u \in Bytes /\ i \in Bytes /\ p \in BOOLEAN
        BY <1>0, <2>4, <2>6
      <3> QED
        BY <3>1, MovedDownFields
    <2> HIDE DEF w, v, z
    <2>12. CASE p
      <3>1. z = UpdateFdInterest(w)
        BY SMTT(90), <1>2, <1>4, <2>3, <2>12
      <3>2. ServerKeeps(w, z) /\ Interest(z.e)
        BY <2>10, <3>1, InterestKeeps DEF ServerKeeps
      <3> QED
        BY SMTT(90), <2>10, <3>2, ServerKeepsOn DEF z
    <2>13. CASE ~p /\ y.sk.in_fin
      <3> DEFINE a == [w EXCEPT !.e.eof = TRUE]
                 d == UpdateFdInterest(a)
      <3>1. z = TryUplinkFin(d, FALSE)
        BY SMTT(90), <1>2, <1>4, <2>7, <2>13
      <3>2. ServerKeeps(w, a) /\ a.e.eof = TRUE /\ a.e.up_stash = w.e.up_stash
        BY ZenonT(90), <2>6, <2>10, <2>11, <2>13, EofKeeps DEF ServerKeeps
      <3> HIDE DEF a
      <3>3. ServerKeeps(a, d) /\ SameRelay(a, d) /\ Interest(d.e)
        BY ZenonT(90), <3>2, InterestKeeps DEF ServerKeeps
      <3> HIDE DEF d
      <3>4. d.e.eof /\ d.e.up_stash = <<>>
        BY SMTT(90), <2>6, <2>11, <2>13, <3>2, <3>3 DEF SameRelay
      <3>5. ServerKeeps(d, z) /\ (Interest(d.e) => Interest(z.e))
        BY <3>1, <3>3, <3>4, TryUplinkFinKeeps DEF ServerKeeps
      <3>6. ServerKeeps(y, z)
        BY <2>10, <3>2, <3>3, <3>5, ServerKeepsOn
      <3> QED
        BY <3>3, <3>5, <3>6 DEF z
    <2>14. CASE ~p /\ ~y.sk.in_fin
      <3>1. z = UpdateFdInterest(w)
        BY <1>2, <1>4, <2>7, <2>14
      <3>2. ServerKeeps(w, z) /\ Interest(z.e)
        BY <2>10, <3>1, InterestKeeps DEF ServerKeeps
      <3> QED
        BY <2>10, <3>2, ServerKeepsOn DEF z
    <2> QED
      BY <2>12, <2>13, <2>14
  <1> QED
    BY <1>3, <1>4

(* The fd is ready: the retry, then the reads. *)
LEMMA RelayReadyKeeps ==
    ASSUME NEW y, Relay(y), NEW readable \in BOOLEAN, NEW writable \in BOOLEAN, NEW err \in BOOLEAN
    PROVE  LET z == OnRelayReady(y, readable, writable, err) IN
           ServerKeeps(y, z) /\ (Interest(y.e) => Interest(z.e))
  <1> DEFINE v == IF writable /\ y.e.paused THEN FlushDownlinkRetry(y, err) ELSE y
             z == OnRelayReady(y, readable, writable, err)
  <1>1. ServerKeeps(y, v) /\ (Interest(y.e) => Interest(v.e))
    <2>1. CASE writable /\ y.e.paused
      <3>1. v = FlushDownlinkRetry(y, err)
        BY <2>1
      <3> QED
        BY <2>1, <3>1, FlushRetryKeeps
    <2>2. CASE ~(writable /\ y.e.paused)
      <3>1. v = y
        BY SMTT(90), <2>2
      <3> QED
        BY <3>1, ServerKeepsItself
    <2> QED
      BY <2>1, <2>2
  <1>2. z = IF v.e.closed THEN v
            ELSE IF readable /\ ~v.e.withheld THEN UplinkRecv(v, err) ELSE UpdateFdInterest(v)
    BY SMTT(90) DEF OnRelayReady
  <1> HIDE DEF v, z
  <1>3. Relay(v)
    BY <1>1 DEF ServerKeeps
  <1>4. CASE v.e.closed
    BY <1>1, <1>2, <1>4 DEF z
  <1>5. CASE ~v.e.closed /\ readable /\ ~v.e.withheld
    <2>1. z = UplinkRecv(v, err)
      BY <1>2, <1>5
    <2>2. ServerKeeps(v, z) /\ (Interest(v.e) => Interest(z.e))
      BY <1>3, <1>5, <2>1, UplinkRecvKeeps
    <2> QED
      BY <1>1, <2>2, ServerKeepsOn DEF z
  <1>6. CASE ~v.e.closed /\ ~(readable /\ ~v.e.withheld)
    <2>1. z = UpdateFdInterest(v)
      BY <1>2, <1>6
    <2>2. ServerKeeps(v, z) /\ Interest(z.e)
      BY <1>3, <2>1, InterestKeeps
    <2> QED
      BY <1>1, <2>2, ServerKeepsOn DEF z
  <1> QED
    BY <1>4, <1>5, <1>6

(* The stream takes bytes again. *)
LEMMA H3WritableKeeps ==
    ASSUME NEW y, Relay(y), NEW err \in BOOLEAN
    PROVE  LET z == OnH3Writable(y, err) IN
           ServerKeeps(y, z) /\ (Interest(y.e) => Interest(z.e))
  <1> DEFINE n == Smaller(Room(y.down), Len(y.e.up_stash))
             r == y.down.wire \o Front(y.e.up_stash, n)
             s == After(y.e.up_stash, n)
             i == y.sk.in
             p == s # <<>>
             v == [y EXCEPT !.down.wire = @ \o Front(y.e.up_stash, n), !.e.up_stash = After(@, n)]
             m == MovedDown(y, r, s, i, p)
             w == IF y.e.withheld THEN UpdateFdInterest([v EXCEPT !.e.withheld = FALSE]) ELSE v
             z == OnH3Writable(y, err)
  <1>0. /\ y \in ServerRec /\ i \in Bytes /\ y.down.wire \in Bytes /\ y.e.up_stash \in Bytes
        /\ Len(y.e.up_stash) \in Nat /\ Room(y.down) \in Nat /\ y.e \in Egress
        /\ Len(i) <= SockCap /\ y.sk \in Socket /\ Len(y.e.up_stash) <= Chunk
    <2>1. /\ y \in ServerRec /\ i \in Bytes /\ y.down.wire \in Bytes /\ y.e.up_stash \in Bytes
          /\ y.down \in Stream /\ StreamOK(y.down) /\ y.e \in Egress /\ y.sk \in Socket
          /\ Len(i) <= SockCap /\ Len(y.e.up_stash) <= Chunk
      BY DEF Relay, ServerOK, ServerRec, Socket, Stream, Egress
    <2>2. Len(y.e.up_stash) \in Nat
      BY <2>1, LenType
    <2>3. Room(y.down) \in Nat
      BY <2>1, RoomNat
    <2> QED
      BY <2>1, <2>2, <2>3
  <1>1. n \in Nat /\ n <= Room(y.down) /\ n <= Len(y.e.up_stash)
    BY <1>0, Smallest
  <1>2. z = IF err /\ (y.e.withheld \/ y.e.eof) THEN CloseRequest(y)
            ELSE IF v.e.up_stash # <<>> THEN v
            ELSE IF w.e.eof THEN TryUplinkFin(w, FALSE) ELSE w
    BY DEF OnH3Writable
  <1>3. CASE err /\ (y.e.withheld \/ y.e.eof)
    <2>1. z = CloseRequest(y)
      BY <1>2, <1>3
    <2> QED
      BY <2>1, CloseRequestKeeps
  <1>4. CASE ~(err /\ (y.e.withheld \/ y.e.eof))
    <2>1. v = [[y EXCEPT !.down.wire = r] EXCEPT !.e.up_stash = s] /\ v.e.up_stash = s
      BY SMTT(90), <1>0 DEF ServerRec, Egress
    <2>2. /\ r \in Bytes /\ Len(r) = Len(y.down.wire) + n
          /\ s \in Bytes /\ Len(s) = Len(y.e.up_stash) - n
          /\ r \o (s \o i) = y.down.wire \o (y.e.up_stash \o i)
          /\ y.e.up_stash = <<>> => s = <<>> /\ r = y.down.wire
      <3> DEFINE a == y.down.wire
                 d == y.e.up_stash
      <3>1. /\ a \in Bytes /\ d \in Bytes /\ i \in Bytes /\ n \in Nat /\ n <= Len(d)
            /\ Len(d) \in Nat
        BY <1>0, <1>1
      <3> HIDE DEF a, d, i, n
      <3>2. /\ a \o Front(d, n) \in Bytes /\ Len(a \o Front(d, n)) = Len(a) + n
            /\ (a \o Front(d, n)) \o After(d, n) = a \o d
        BY <3>1, Move
      <3>3. After(d, n) \in Bytes /\ Len(After(d, n)) = Len(d) - n
        BY <3>1, Cut
      <3>4. (a \o Front(d, n)) \o (After(d, n) \o i) = ((a \o Front(d, n)) \o After(d, n)) \o i
        BY <3>1, <3>2, <3>3, Assoc
      <3>5. (a \o d) \o i = a \o (d \o i)
        BY <3>1, Assoc
      <3>6. d = <<>> => After(d, n) = <<>> /\ a \o Front(d, n) = a
        <4> SUFFICES ASSUME d = <<>>
                     PROVE  After(d, n) = <<>> /\ a \o Front(d, n) = a
          OBVIOUS
        <4>1. Len(d) = 0
          BY Empty
        <4>2. n = 0
          BY <3>1, <4>1
        <4>3. Front(d, n) \in Bytes /\ Len(Front(d, n)) = 0
          BY <3>1, <4>2, Cut
        <4>4. Front(d, n) = <<>>
          BY <4>3, Empty
        <4>5. Len(After(d, n)) = 0
          BY <3>3, <4>1, <4>2
        <4>6. After(d, n) = <<>>
          BY <3>3, <4>5, Empty
        <4> QED
          BY <3>1, <4>4, <4>6, JoinEmpty
      <3> QED
        BY <3>2, <3>3, <3>4, <3>5, <3>6 DEF a, d
    <2>3. y.e.withheld <=> y.e.up_stash # <<>>
      BY DEF Relay, ServerOK, Registered
    <2>4. y.e.withheld \in BOOLEAN
      BY <1>0 DEF Egress
    <2>5. [y.sk EXCEPT !.in = i] = y.sk
      BY <1>0 DEF Socket
    <2>6. y.e.withheld = p => v = m
      <3> SUFFICES ASSUME y.e.withheld = p
                   PROVE  v = m
        OBVIOUS
      <3>1. [y.e EXCEPT !.up_stash = s, !.withheld = p] = [y.e EXCEPT !.up_stash = s]
        BY <1>0 DEF Egress
      <3>2. v = [y EXCEPT !.down.wire = r, !.e = [y.e EXCEPT !.up_stash = s], !.sk = y.sk]
        BY <1>0 DEF ServerRec
      <3>3. [y EXCEPT !.down.wire = r, !.e.up_stash = s, !.sk.in = i, !.e.withheld = p]
              = [y EXCEPT !.down.wire = r, !.e = [y.e EXCEPT !.up_stash = s, !.withheld = p],
                          !.sk = [y.sk EXCEPT !.in = i]]
        BY <1>0 DEF ServerRec
      <3> QED
        BY <2>5, <3>1, <3>2, <3>3 DEF MovedDown
    <2>7. ~p => [v EXCEPT !.e.withheld = FALSE] = m
      <3> SUFFICES ASSUME ~p
                   PROVE  [v EXCEPT !.e.withheld = FALSE] = m
        OBVIOUS
      <3>2. [v EXCEPT !.e.withheld = FALSE]
              = [y EXCEPT !.down.wire = r, !.e = [y.e EXCEPT !.up_stash = s, !.withheld = FALSE],
                          !.sk = y.sk]
        BY <1>0 DEF ServerRec
      <3>3. [y EXCEPT !.down.wire = r, !.e.up_stash = s, !.sk.in = i, !.e.withheld = FALSE]
              = [y EXCEPT !.down.wire = r, !.e = [y.e EXCEPT !.up_stash = s, !.withheld = FALSE],
                          !.sk = [y.sk EXCEPT !.in = i]]
        BY <1>0 DEF ServerRec
      <3>4. m = [y EXCEPT !.down.wire = r, !.e.up_stash = s, !.sk.in = i, !.e.withheld = FALSE]
        BY DEF MovedDown
      <3> QED
        BY <2>5, <3>2, <3>3, <3>4
    <2>8. p \in BOOLEAN /\ Len(s) <= Chunk
      <3> DEFINE k == Len(y.e.up_stash)
      <3>1. k \in Nat /\ Len(s) = k - n /\ k <= Chunk /\ n \in Nat
        BY SMTT(90), <1>0, <1>1, <2>2
      <3> HIDE DEF k, n
      <3>2. k - n <= Chunk
        BY SMTT(90), <3>1, Bounds
      <3> QED
        BY <3>1, <3>2
    <2>9. /\ y.e.eof => i = <<>>
          /\ y.e.fin_sent => s = <<>> /\ r = y.down.wire
      BY <2>2 DEF Relay, ServerOK, EofOK
    <2>10. /\ n \in Nat /\ n <= Room(y.down) /\ Len(r) = Len(y.down.wire) + n
           /\ r \o (s \o i) = y.down.wire \o (y.e.up_stash \o y.sk.in) /\ (p <=> s # <<>>)
           /\ r \in Bytes /\ s \in Bytes /\ i \in Bytes /\ Len(i) <= SockCap
      BY SMTT(90), <1>0, <1>1, <2>2
    <2>11. p => y.e.withheld
      BY <2>2, <2>3
    <2>12. y.e.withheld = p \/ (y.e.withheld /\ ~p)
      BY <2>4, <2>11
    <2> HIDE DEF n, r, s, i, p
    <2>13. ServerKeeps(y, m)
      BY <2>8, <2>9, <2>10, MovedDownKeeps
    <2>14. /\ m.e.up_stash = s /\ m.e.withheld = p /\ m.e.eof = y.e.eof /\ m.e.paused = y.e.paused
           /\ m.e.want_read = y.e.want_read /\ m.e.want_write = y.e.want_write
      <3>1. y \in ServerRec /\ r \in Bytes /\ s \in Bytes /\ i \in Bytes /\ p \in BOOLEAN
        BY <1>0, <2>8, <2>10
      <3>2. m.e.up_stash = s
        BY <3>1, MovedDownFields
      <3>5. m.e.withheld = p
        BY <3>1, MovedDownFields
      <3>3. m.e.eof = y.e.eof /\ m.e.paused = y.e.paused
        BY <3>1, MovedDownFields
      <3>4. m.e.want_read = y.e.want_read /\ m.e.want_write = y.e.want_write
        BY <3>1, MovedDownFields
      <3> QED
        BY <3>2, <3>3, <3>4, <3>5
    <2>15. Interest(y.e) /\ y.e.withheld = p => Interest(m.e)
      BY <2>14 DEF Interest
    <2> HIDE DEF m
    <2>16. CASE p
      <3>1. y.e.withheld = p
        BY <2>12, <2>16
      <3>2. z = m
        BY <1>2, <1>4, <2>1, <2>6, <2>10, <2>16, <3>1
      <3> QED
        BY <2>13, <2>15, <3>1, <3>2
    <2>17. CASE ~p
      <3>1. ServerKeeps(y, w) /\ (Interest(y.e) => Interest(w.e)) /\ w.e.up_stash = <<>>
        <4>1. CASE y.e.withheld
          <5>1. w = UpdateFdInterest(m)
            BY SMTT(90), <2>7, <2>17, <4>1
          <5>2. ServerKeeps(m, w) /\ SameRelay(m, w) /\ Interest(w.e)
            BY ZenonT(90), <2>13, <5>1, InterestKeeps DEF ServerKeeps
          <5>3. ServerKeeps(y, w)
            BY <2>13, <5>2, ServerKeepsOn
          <5> QED
            BY SMTT(90), <2>10, <2>14, <2>17, <5>2, <5>3 DEF SameRelay
        <4>2. CASE ~y.e.withheld
          <5>1. y.e.withheld = p
            BY <2>12, <4>2
          <5>2. w = m
            BY <2>6, <4>2, <5>1
          <5> QED
            BY <2>10, <2>13, <2>14, <2>15, <2>17, <5>1, <5>2
        <4> QED
          BY SMTT(90), <4>1, <4>2
      <3>2. z = IF w.e.eof THEN TryUplinkFin(w, FALSE) ELSE w
        BY <1>2, <1>4, <2>1, <2>10, <2>17
      <3> HIDE DEF w, z
      <3>3. CASE w.e.eof
        <4>1. ServerKeeps(w, z) /\ (Interest(w.e) => Interest(z.e))
          BY <3>1, <3>2, <3>3, TryUplinkFinKeeps DEF ServerKeeps
        <4> QED
          BY <3>1, <4>1, ServerKeepsOn DEF z
      <3>4. CASE ~w.e.eof
        BY <3>1, <3>2, <3>4 DEF z
      <3> QED
        BY <3>3, <3>4
    <2> QED
      BY <2>16, <2>17
  <1> QED
    BY <1>3, <1>4

LEMMA HeaderFields ==
    ASSUME NEW y \in ServerRec, NEW hdr \in {"none", "200", "error"}
    PROVE  LET z == [y EXCEPT !.down.hdr = hdr] IN
           /\ SameRelay(y, z) /\ z.e = y.e
  <1> DEFINE z == [y EXCEPT !.down.hdr = hdr]
             d == [y.down EXCEPT !.hdr = hdr]
  <1>1. /\ d \in Stream /\ d.wire = y.down.wire /\ d.body = y.down.body /\ d.fin = y.down.fin
        /\ d.fin_in = y.down.fin_in
    BY DEF ServerRec, Stream
  <1>2. z = [y EXCEPT !.down = d]
    BY DEF ServerRec
  <1> HIDE DEF z, d
  <1>3. z \in ServerRec /\ z.e = y.e /\ z.up = y.up /\ z.down = d /\ z.sk = y.sk
    BY <1>1, <1>2 DEF ServerRec
  <1>4. SameRelay(y, z)
    BY <1>1, <1>3 DEF SameRelay
  <1> QED
    BY <1>3, <1>4 DEF z

(* The socket is connected: the response, then what the client sent. *)
LEMMA OnConnectedKeeps ==
    ASSUME NEW y, ServerOK(y), y.e.state = "connecting", NEW err \in BOOLEAN
    PROVE  LET z == OnConnected(y, err) IN
           ServerKeeps(y, z) /\ Interest(z.e)
  <1> DEFINE a == [y EXCEPT !.e.state = "active"]
             u == UpdateFdInterest(a)
             h == [u EXCEPT !.down.hdr = "200"]
             z == OnConnected(y, err)
  <1>0. y \in ServerRec
    BY DEF ServerOK
  <1>1. ServerKeeps(y, a)
    <2>1. [y.e EXCEPT !.state = "active"] \in Egress
      BY <1>0 DEF ServerRec, Egress
    <2>2. /\ a \in ServerRec /\ a.up = y.up /\ a.sk = y.sk /\ a.down = y.down
          /\ a.e.state = "active" /\ a.e.stash = y.e.stash /\ a.e.paused = y.e.paused
          /\ a.e.fin_received = y.e.fin_received /\ a.e.shutdown_done = y.e.shutdown_done
          /\ a.e.up_stash = y.e.up_stash /\ a.e.withheld = y.e.withheld /\ a.e.eof = y.e.eof
          /\ a.e.fin_sent = y.e.fin_sent
      BY <1>0, <2>1 DEF ServerRec, Egress
    <2> HIDE DEF a
    <2>3. Registered(a.e)
      BY <2>2 DEF ServerOK, Connecting, Registered
    <2>4. ShutdownOK(a) /\ EofOK(a)
      BY SMTT(90), <2>2 DEF ServerOK, ShutdownOK, EofOK
    <2>5. Relay(a)
      BY SMTT(90), <2>2, <2>3, <2>4 DEF Relay, ServerOK
    <2> QED
      BY <2>2, <2>5 DEF ServerKeeps
  <1> HIDE DEF a
  <1>2. ServerKeeps(a, u) /\ Interest(u.e)
    BY <1>1, InterestKeeps DEF ServerKeeps
  <1>3. z = DrainBody(h, err)
    BY DEF OnConnected, a
  <1> HIDE DEF u
  <1>4. SameRelay(u, h) /\ h.e = u.e
    <2>1. u \in ServerRec /\ "200" \in {"none", "200", "error"}
      BY SMTT(90), <1>2 DEF ServerKeeps, Relay, ServerOK
    <2> QED
      BY ZenonT(90), <2>1, HeaderFields
  <1> HIDE DEF h, z
  <1>5. ServerKeeps(u, h) /\ Interest(h.e)
    BY ZenonT(90), <1>2, <1>4, SameRelayKeeps DEF ServerKeeps
  <1>6. ServerKeeps(h, z) /\ (Interest(h.e) => Interest(z.e))
    BY <1>3, <1>5, DrainBodyKeeps DEF ServerKeeps
  <1>7. ServerKeeps(y, z)
    BY <1>1, <1>2, <1>5, <1>6, ServerKeepsOn
  <1> QED
    BY <1>5, <1>6, <1>7 DEF z

(* The flow is freed with what it holds, its socket closed. *)
LEMMA FlowDestroyOK ==
    ASSUME NEW y, ServerOK(y)
    PROVE  LET z == FlowDestroy(y) IN
           /\ ServerOK(z) /\ z.e.state = "freed" /\ z.up = y.up /\ z.down = y.down
           /\ z.e.fin_sent = y.e.fin_sent /\ z.e.shutdown_done = y.e.shutdown_done
           /\ z.e.stash = <<>> /\ z.e.up_stash = <<>> /\ z.sk.out = y.sk.out /\ z.sk.in = <<>>
           /\ z.sk.in_fin = y.sk.in_fin
  <1> DEFINE f == [y.e EXCEPT !.state = "freed", !.stash = <<>>, !.up_stash = <<>>,
                              !.want_read = FALSE, !.want_write = FALSE]
             k == [y.sk EXCEPT !.out_fin = TRUE, !.in = <<>>]
             z == FlowDestroy(y)
  <1>0. y \in ServerRec
    BY DEF ServerOK
  <1>1. /\ f \in Egress /\ f.state = "freed" /\ f.stash = <<>> /\ f.up_stash = <<>>
        /\ f.fin_received = y.e.fin_received /\ f.shutdown_done = y.e.shutdown_done
        /\ f.eof = y.e.eof /\ f.fin_sent = y.e.fin_sent
    BY <1>0, Empty DEF ServerRec, Egress
  <1>2. k \in Socket /\ k.out = y.sk.out /\ k.in = <<>> /\ k.in_fin = y.sk.in_fin
    BY <1>0, Empty DEF ServerRec, Socket
  <1>3. z = [y EXCEPT !.e = f, !.sk = k]
    BY <1>0 DEF FlowDestroy, ServerRec
  <1> HIDE DEF f, k, z
  <1>4. z \in ServerRec /\ z.e = f /\ z.sk = k /\ z.up = y.up /\ z.down = y.down
    BY <1>0, <1>1, <1>2, <1>3 DEF ServerRec
  <1>5. ShutdownOK(z) /\ EofOK(z)
    BY <1>1, <1>2, <1>4 DEF ServerOK, ShutdownOK, EofOK
  <1>6. Len(z.e.stash) <= Chunk /\ Len(z.e.up_stash) <= Chunk /\ Len(z.sk.in) <= SockCap
    BY <1>1, <1>2, <1>4, Empty, Bounds
  <1>7. ServerOK(z)
    BY <1>1, <1>2, <1>4, <1>5, <1>6 DEF ServerOK
  <1> QED
    BY <1>1, <1>2, <1>4, <1>7 DEF z

-----------------------------------------------------------------------------
(* The two sides together *)

(* A part that moved inside the first three places of a direction. *)
LEMMA Regroup ==
    ASSUME NEW a \in Bytes, NEW b \in Bytes, NEW s \in Bytes, NEW t \in Bytes
    PROVE  a \o (b \o (s \o t)) = (a \o (b \o s)) \o t
  <1>1. b \o s \in Bytes
    BY Joined
  <1>2. (b \o s) \o t = b \o (s \o t)
    BY Assoc
  <1>3. (a \o (b \o s)) \o t = a \o ((b \o s) \o t)
    BY ZenonT(90), <1>1, Assoc
  <1> QED
    BY <1>2, <1>3

LEMMA FlowTypes ==
    ASSUME NEW x \in ClientRec
    PROVE  /\ x.c.q \in Bytes /\ x.c.snd \in Bytes /\ x.c.stash \in Bytes
           /\ x.up.wire \in Bytes /\ x.up.body \in Bytes
           /\ x.down.wire \in Bytes /\ x.down.body \in Bytes
           /\ x.up \in Stream /\ x.down \in Stream /\ x.c \in Flow
  BY DEF ClientRec, Flow, Stream

LEMMA EgressTypes ==
    ASSUME NEW y \in ServerRec
    PROVE  /\ y.e.stash \in Bytes /\ y.e.up_stash \in Bytes /\ y.sk.out \in Bytes
           /\ y.sk.in \in Bytes /\ y.up.wire \in Bytes /\ y.up.body \in Bytes
           /\ y.down.wire \in Bytes /\ y.down.body \in Bytes
           /\ y.up \in Stream /\ y.down \in Stream /\ y.e \in Egress /\ y.sk \in Socket
  BY DEF ServerRec, Egress, Socket, Stream

(* The records of the two sides. *)
LEMMA Records ==
    ASSUME NEW f, NEW u, NEW d, NEW g, NEW k
    PROVE  /\ OnClient(f, u, d).c = f /\ OnClient(f, u, d).up = u /\ OnClient(f, u, d).down = d
           /\ OnClient(f, u, d).st = "LIVE"
           /\ OnServer(g, u, d, k).e = g /\ OnServer(g, u, d, k).up = u
           /\ OnServer(g, u, d, k).down = d /\ OnServer(g, u, d, k).sk = k
  BY DEF OnClient, OnServer

(* The client's predicate does not depend on the status of the call. *)
LEMMA StatusFree ==
    ASSUME NEW z, ClientOK(z)
    PROVE  ClientOK(OnClient(z.c, z.up, z.down))
  <1> DEFINE w == OnClient(z.c, z.up, z.down)
  <1>1. w \in ClientRec
    BY DEF ClientOK, ClientRec, OnClient, Status
  <1>2. w.c = z.c /\ w.up = z.up /\ w.down = z.down
    BY Records
  <1> HIDE DEF w
  <1>3. FinsSent(w) /\ FinsSeen(w)
    BY <1>2 DEF ClientOK, FinsSent, FinsSeen
  <1> QED
    BY <1>1, <1>2, <1>3 DEF ClientOK, w

(* The server's side after a step of the client. *)
LEMMA ServerStays ==
    ASSUME NEW g, NEW u, NEW d, NEW k, ServerOK(OnServer(g, u, d, k)),
           NEW v \in Stream, NEW w \in Stream, StreamOK(v), StreamOK(w),
           v.fin_in = u.fin_in, v.body = u.body, w.fin = d.fin
    PROVE  ServerOK(OnServer(g, v, w, k))
  <1> DEFINE y == OnServer(g, u, d, k)
             z == OnServer(g, v, w, k)
  <1>1. y \in ServerRec
    BY DEF ServerOK
  <1>2. y.e = g /\ y.up = u /\ y.down = d /\ y.sk = k
    BY Records
  <1>3. z.e = g /\ z.up = v /\ z.down = w /\ z.sk = k
    BY Records
  <1>4. z \in ServerRec
    BY <1>1 DEF ServerRec, OnServer
  <1> HIDE DEF y, z
  <1>5. ShutdownOK(z) /\ EofOK(z)
    BY <1>2, <1>3 DEF ServerOK, ShutdownOK, EofOK, y
  <1> QED
    BY <1>2, <1>3, <1>4, <1>5 DEF ServerOK, y, z

(* The client's side after a step of the server. *)
LEMMA ClientStays ==
    ASSUME NEW f, NEW u, NEW d, ClientOK(OnClient(f, u, d)),
           NEW v \in Stream, NEW w \in Stream, StreamOK(v), StreamOK(w),
           v.fin = u.fin, w.fin_in = d.fin_in, w.body = d.body
    PROVE  ClientOK(OnClient(f, v, w))
  <1> DEFINE x == OnClient(f, u, d)
             z == OnClient(f, v, w)
  <1>1. x \in ClientRec
    BY DEF ClientOK
  <1>2. x.c = f /\ x.up = u /\ x.down = d
    BY Records
  <1>3. z.c = f /\ z.up = v /\ z.down = w
    BY Records
  <1>4. z \in ClientRec
    BY <1>1 DEF ClientRec, OnClient
  <1> HIDE DEF x, z
  <1>5. FinsSent(z) /\ FinsSeen(z)
    BY <1>2, <1>3 DEF ClientOK, FinsSent, FinsSeen, x
  <1> QED
    BY <1>2, <1>3, <1>4, <1>5 DEF ClientOK, x, z

LEMMA ClientRegroup ==
    ASSUME NEW x \in ClientRec, NEW t \in Bytes
    PROVE  x.c.snd \o (x.c.stash \o (x.down.body \o t)) = (x.c.snd \o (x.c.stash \o x.down.body)) \o t
  <1> DEFINE a == x.c.snd
             b == x.c.stash
             s == x.down.body
  <1>1. a \in Bytes /\ b \in Bytes /\ s \in Bytes
    BY FlowTypes
  <1> HIDE DEF a, b, s
  <1>2. a \o (b \o (s \o t)) = (a \o (b \o s)) \o t
    BY SMTT(90), <1>1, Regroup
  <1> QED
    BY <1>2 DEF a, b, s

LEMMA ServerRegroup ==
    ASSUME NEW y \in ServerRec, NEW t \in Bytes
    PROVE  y.sk.out \o (y.e.stash \o (y.up.body \o t)) = (y.sk.out \o (y.e.stash \o y.up.body)) \o t
  <1> DEFINE a == y.sk.out
             b == y.e.stash
             s == y.up.body
  <1>1. a \in Bytes /\ b \in Bytes /\ s \in Bytes
    BY EgressTypes
  <1> HIDE DEF a, b, s
  <1>2. a \o (b \o (s \o t)) = (a \o (b \o s)) \o t
    BY SMTT(90), <1>1, Regroup
  <1> QED
    BY <1>2 DEF a, b, s

(* A step of the client: its call works on x and leaves z. *)
LEMMA ClientSide ==
    ASSUME NEW f, NEW u, NEW d, NEW g, NEW k, NEW in, NEW or, Sides(f, u, d, g, k, in, or),
           NEW x \in ClientRec, x.c.state # "freed", NEW z, ClientKeeps(x, z), Waits(z.c),
           x.up.body = u.body, x.up.fin_in = u.fin_in, x.up.fin = u.fin, x.down.fin = d.fin,
           NEW jn \in Peer, x.c.tcp_fin_seen => jn.fin, in.fin => jn.fin,
           UpWhole(x.c, x.up, g, k, jn, or), DownWhole(x.c, x.down, g, k, jn, or)
    PROVE  Sides(z.c, z.up, z.down, g, k, jn, or)
  <1>1. ClientOK(z) /\ z \in ClientRec
    BY DEF ClientKeeps, ClientOK
  <1>2. ClientOK(OnClient(z.c, z.up, z.down))
    BY <1>1, StatusFree
  <1>3. ServerOK(OnServer(g, z.up, z.down, k))
    <2>1. /\ z.up \in Stream /\ z.down \in Stream /\ StreamOK(z.up) /\ StreamOK(z.down)
      BY <1>1, FlowTypes DEF ClientOK
    <2>2. z.up.fin_in = u.fin_in /\ z.up.body = u.body /\ z.down.fin = d.fin
      BY DEF ClientKeeps
    <2>3. ServerOK(OnServer(g, u, d, k))
      BY DEF Sides
    <2> QED
      BY <2>1, <2>2, <2>3, ServerStays
  <1>4. g.state = "active" => Interest(g)
    BY DEF Sides
  <1>5. FinsMeant(z.c, z.up, k, jn, or)
    BY DEF Sides, FinsMeant, ClientKeeps
  <1>6. g \in Egress /\ k \in Socket /\ or \in Peer
    <2>1. OnServer(g, u, d, k) \in ServerRec /\ or \in Peer
      BY DEF Sides, ServerOK, FinsMeant
    <2> QED
      BY <2>1, EgressTypes, Records
  <1>7. UpWhole(z.c, z.up, g, k, jn, or)
    <2> SUFFICES ASSUME z.c.state # "freed" \/ z.up.fin, g.state # "freed" \/ g.shutdown_done
                 PROVE  or.got \o (k.out \o (g.stash \o (z.up.body \o (z.up.wire \o z.c.q))))
                          = Count(jn.sent)
      BY DEF UpWhole
    <2>1. z.up.body = x.up.body /\ z.up.wire \o z.c.q = x.up.wire \o x.c.q
      BY DEF ClientKeeps
    <2>2. or.got \o (k.out \o (g.stash \o (x.up.body \o (x.up.wire \o x.c.q)))) = Count(jn.sent)
      BY DEF UpWhole
    <2> QED
      BY <2>1, <2>2
  <1>8. DownWhole(z.c, z.down, g, k, jn, or)
    <2> SUFFICES ASSUME z.c.state # "freed", g.state # "freed" \/ g.fin_sent
                 PROVE  jn.got \o (z.c.snd \o (z.c.stash \o (z.down.body
                            \o (z.down.wire \o (g.up_stash \o k.in))))) = Count(or.sent)
      BY DEF DownWhole
    <2> DEFINE t == x.down.wire \o (g.up_stash \o k.in)
    <2>1. /\ z.down.wire = x.down.wire
          /\ z.c.snd \o (z.c.stash \o z.down.body) = x.c.snd \o (x.c.stash \o x.down.body)
      BY DEF ClientKeeps
    <2>2. jn.got \o (x.c.snd \o (x.c.stash \o (x.down.body \o t))) = Count(or.sent)
      BY DEF DownWhole
    <2>3. t \in Bytes
      <3>1. g.up_stash \in Bytes /\ k.in \in Bytes /\ x.down.wire \in Bytes
        BY <1>6, FlowTypes DEF Egress, Socket
      <3> QED
        BY <3>1, Joined
    <2> HIDE DEF t
    <2>4. x.c.snd \o (x.c.stash \o (x.down.body \o t)) = (x.c.snd \o (x.c.stash \o x.down.body)) \o t
      BY <2>3, ClientRegroup
    <2>5. z.c.snd \o (z.c.stash \o (z.down.body \o t)) = (z.c.snd \o (z.c.stash \o z.down.body)) \o t
      BY <1>1, <2>3, ClientRegroup
    <2> QED
      BY <2>1, <2>2, <2>4, <2>5 DEF t
  <1> QED
    BY <1>2, <1>3, <1>4, <1>5, <1>7, <1>8 DEF Sides

(* A step of the server: its call works on y and leaves z. *)
LEMMA ServerSide ==
    ASSUME NEW f, NEW u, NEW d, NEW g, NEW k, NEW in, NEW or, Sides(f, u, d, g, k, in, or),
           NEW y \in ServerRec, y.e.state # "freed", NEW z, ServerKeeps(y, z), Interest(z.e),
           y.up.fin = u.fin, y.down.fin_in = d.fin_in, y.down.body = d.body,
           y.sk.in_fin = k.in_fin,
           UpWhole(f, y.up, y.e, y.sk, in, or), DownWhole(f, y.down, y.e, y.sk, in, or)
    PROVE  Sides(f, z.up, z.down, z.e, z.sk, in, or)
  <1>1. ServerOK(z) /\ z \in ServerRec
    BY DEF ServerKeeps, ServerOK, Relay
  <1>2. ServerOK(OnServer(z.e, z.up, z.down, z.sk))
    <2>1. z = OnServer(z.e, z.up, z.down, z.sk)
      BY <1>1 DEF ServerRec, OnServer
    <2> QED
      BY <1>1, <2>1
  <1>3. ClientOK(OnClient(f, z.up, z.down))
    <2>1. /\ z.up \in Stream /\ z.down \in Stream /\ StreamOK(z.up) /\ StreamOK(z.down)
      BY SMTT(90), <1>1, EgressTypes DEF ServerOK
    <2>2. z.up.fin = u.fin /\ z.down.fin_in = d.fin_in /\ z.down.body = d.body
      BY DEF ServerKeeps
    <2>3. ClientOK(OnClient(f, u, d))
      BY DEF Sides
    <2> QED
      BY SMTT(90), <2>1, <2>2, <2>3, ClientStays
  <1>4. Waits(f)
    BY SMTT(90) DEF Sides
  <1>5. FinsMeant(f, z.up, z.sk, in, or)
    BY DEF Sides, FinsMeant, ServerKeeps
  <1>6. f \in Flow
    <2>1. OnClient(f, u, d) \in ClientRec
      BY SMTT(90) DEF Sides, ClientOK
    <2> QED
      BY <2>1, FlowTypes, Records
  <1>7. UpWhole(f, z.up, z.e, z.sk, in, or)
    <2> SUFFICES ASSUME f.state # "freed" \/ z.up.fin
                 PROVE  or.got \o (z.sk.out \o (z.e.stash \o (z.up.body \o (z.up.wire \o f.q))))
                          = Count(in.sent)
      BY DEF UpWhole
    <2> DEFINE t == y.up.wire \o f.q
    <2>1. /\ z.up.wire = y.up.wire /\ z.up.fin = y.up.fin
          /\ z.sk.out \o (z.e.stash \o z.up.body) = y.sk.out \o (y.e.stash \o y.up.body)
      BY DEF ServerKeeps
    <2>2. or.got \o (y.sk.out \o (y.e.stash \o (y.up.body \o t))) = Count(in.sent)
      BY <2>1 DEF UpWhole
    <2>3. t \in Bytes
      <3>1. f.q \in Bytes /\ y.up.wire \in Bytes
        BY SMTT(90), <1>6, EgressTypes DEF Flow
      <3> QED
        BY <3>1, Joined
    <2> HIDE DEF t
    <2>4. y.sk.out \o (y.e.stash \o (y.up.body \o t)) = (y.sk.out \o (y.e.stash \o y.up.body)) \o t
      BY <2>3, ServerRegroup
    <2>5. z.sk.out \o (z.e.stash \o (z.up.body \o t)) = (z.sk.out \o (z.e.stash \o z.up.body)) \o t
      BY <1>1, <2>3, ServerRegroup
    <2> QED
      BY <2>1, <2>2, <2>4, <2>5 DEF t
  <1>8. DownWhole(f, z.down, z.e, z.sk, in, or)
    <2> SUFFICES ASSUME f.state # "freed"
                 PROVE  in.got \o (f.snd \o (f.stash \o (z.down.body
                            \o (z.down.wire \o (z.e.up_stash \o z.sk.in))))) = Count(or.sent)
      BY DEF DownWhole
    <2>1. /\ z.down.body = y.down.body
          /\ z.down.wire \o (z.e.up_stash \o z.sk.in) = y.down.wire \o (y.e.up_stash \o y.sk.in)
      BY DEF ServerKeeps
    <2>2. in.got \o (f.snd \o (f.stash \o (y.down.body
              \o (y.down.wire \o (y.e.up_stash \o y.sk.in))))) = Count(or.sent)
      BY DEF DownWhole
    <2> QED
      BY <2>1, <2>2
  <1> QED
    BY SMTT(90), <1>2, <1>3, <1>4, <1>5, <1>7, <1>8 DEF Sides

-----------------------------------------------------------------------------
(* The steps *)

(* The invariant of the next state, from the values a step gives the       *)
(* variables.                                                              *)
LEMMA InvNext ==
    ASSUME Sides(c', up', down', e', sk', inner', origin'), AbortReported',
           lwip' \in {"none", "ERR_OK", "ERR_ABRT"}
    PROVE  RelayInv'
  BY DEF RelayInv, Sides, ClientOK, ServerOK, FinsMeant, UpWhole, DownWhole, OnClient, OnServer,
         ClientRec, ServerRec, StreamOK, PcbOwned, WindowKept, Stashed, FinsSent, FinsSeen,
         Waits, Connecting, Registered, Interest, ShutdownOK, EofOK, Room, Flow, Stream, Egress,
         Socket, Peer, Status, NewFlow, Bytes, Count

LEMMA Facts ==
    ASSUME RelayInv
    PROVE  /\ Client \in ClientRec /\ ClientOK(Client) /\ Waits(c)
           /\ Client.c = c /\ Client.up = up /\ Client.down = down /\ Client.st = "LIVE"
           /\ Server \in ServerRec /\ ServerOK(Server) /\ (e.state = "active" => Interest(e))
           /\ Server.e = e /\ Server.up = up /\ Server.down = down /\ Server.sk = sk
           /\ FinsMeant(c, up, sk, inner, origin)
           /\ UpWhole(c, up, e, sk, inner, origin) /\ DownWhole(c, down, e, sk, inner, origin)
           /\ inner \in Peer /\ origin \in Peer
  <1>1. Client = OnClient(c, up, down) /\ Server = OnServer(e, up, down, sk)
    BY DEF Client, Server, OnClient, OnServer
  <1>2. /\ ClientOK(Client) /\ Waits(c) /\ ServerOK(Server) /\ (e.state = "active" => Interest(e))
        /\ FinsMeant(c, up, sk, inner, origin)
        /\ UpWhole(c, up, e, sk, inner, origin) /\ DownWhole(c, down, e, sk, inner, origin)
    BY <1>1 DEF RelayInv, Sides
  <1>3. Client \in ClientRec /\ Server \in ServerRec /\ inner \in Peer /\ origin \in Peer
    BY <1>2 DEF ClientOK, ServerOK, FinsMeant
  <1> QED
    BY <1>1, <1>2, <1>3, Records

(* The types of the variables and of the bytes in them. *)
LEMMA Types ==
    ASSUME RelayInv
    PROVE  /\ c \in Flow /\ up \in Stream /\ down \in Stream /\ e \in Egress /\ sk \in Socket
           /\ c.q \in Bytes /\ c.snd \in Bytes /\ c.stash \in Bytes
           /\ up.wire \in Bytes /\ up.body \in Bytes /\ down.wire \in Bytes /\ down.body \in Bytes
           /\ e.stash \in Bytes /\ e.up_stash \in Bytes /\ sk.out \in Bytes /\ sk.in \in Bytes
           /\ inner.got \in Bytes /\ origin.got \in Bytes
           /\ inner.sent \in Nat /\ origin.sent \in Nat
  <1>1. Client \in ClientRec /\ Server \in ServerRec /\ inner \in Peer /\ origin \in Peer
    BY Facts
  <1>2. Client.c = c /\ Client.up = up /\ Client.down = down /\ Server.e = e /\ Server.sk = sk
    BY Facts
  <1>3. c \in Flow /\ up \in Stream /\ down \in Stream /\ e \in Egress /\ sk \in Socket
    BY <1>1, <1>2, FlowTypes, EgressTypes
  <1> QED
    BY <1>1, <1>3 DEF Flow, Stream, Egress, Socket, Peer

(* A step of the client, in an lwIP callback or outside of one. *)
LEMMA ClientTurn ==
    ASSUME RelayInv, NEW x \in ClientRec, x.c.state # "freed", NEW z, ClientKeeps(x, z),
           Waits(z.c), x.up.body = up.body, x.up.fin_in = up.fin_in, x.up.fin = up.fin,
           x.down.fin = down.fin, inner' \in Peer, x.c.tcp_fin_seen => inner'.fin,
           inner.fin => inner'.fin,
           UpWhole(x.c, x.up, e, sk, inner', origin), DownWhole(x.c, x.down, e, sk, inner', origin),
           ClientStep(z), UNCHANGED <<e, sk, origin>>, Frame(z) \/ lwip' = "none"
    PROVE  RelayInv'
  <1>1. Sides(z.c, z.up, z.down, e, sk, inner', origin)
    <2>1. Sides(c, up, down, e, sk, inner, origin)
      BY DEF RelayInv
    <2> QED
      BY <2>1, ClientSide
  <1>2. Sides(c', up', down', e', sk', inner', origin')
    BY <1>1 DEF ClientStep
  <1>3. AbortReported' /\ lwip' \in {"none", "ERR_OK", "ERR_ABRT"}
    BY DEF AbortReported, Frame, ClientStep, ClientKeeps
  <1> QED
    BY <1>2, <1>3, InvNext

LEMMA ServerTurn ==
    ASSUME RelayInv, NEW y \in ServerRec, y.e.state # "freed", NEW z, ServerKeeps(y, z),
           Interest(z.e), y.up.fin = up.fin, y.down.fin_in = down.fin_in, y.down.body = down.body,
           y.sk.in_fin = sk.in_fin,
           UpWhole(c, y.up, y.e, y.sk, inner, origin), DownWhole(c, y.down, y.e, y.sk, inner, origin),
           ServerStep(z)
    PROVE  RelayInv'
  <1>1. Sides(c, z.up, z.down, z.e, z.sk, inner, origin)
    <2>1. Sides(c, up, down, e, sk, inner, origin)
      BY DEF RelayInv
    <2> QED
      BY <2>1, ServerSide
  <1>2. Sides(c', up', down', e', sk', inner', origin')
    BY <1>1 DEF ServerStep
  <1>3. AbortReported' /\ lwip' \in {"none", "ERR_OK", "ERR_ABRT"}
    BY DEF AbortReported, ServerStep
  <1> QED
    BY <1>2, <1>3, InvNext

LEMMA AnyError ==
    ASSUME NEW err \in Errors
    PROVE  err \in BOOLEAN
  BY DEF Errors

LEMMA AnyRoom ==
    ASSUME NEW x, Stashed(x.c), x.c.snd \in Bytes, NEW room \in Rooms(x)
    PROVE  room \in Nat /\ Len(x.c.snd) + room <= SndBuf
  <1> DEFINE n == Len(x.c.snd)
  <1>1. n \in Nat /\ n <= SndBuf
    BY LenType DEF Stashed
  <1>2. room \in 0..(SndBuf - n) \/ room = SndBuf - n
    BY DEF Rooms, Free
  <1> HIDE DEF n
  <1>3. room \in Nat /\ n + room <= SndBuf
    BY <1>1, <1>2, Bounds
  <1> QED
    BY <1>3 DEF n

(* The flow is bound to its pcb and its stream. *)
LEMMA Open ==
    ASSUME RelayInv, c.pcb = "open" \/ Bound
    PROVE  /\ Running(Client) /\ c.pcb = "open" /\ Bound /\ c.state # "freed"
           /\ Stashed(c) /\ (c.tcp_fin_seen => inner.fin) /\ (up.fin => inner.fin)
  <1>1. ClientOK(Client) /\ Client.c = c /\ Client.st = "LIVE" /\ FinsMeant(c, up, sk, inner, origin)
    BY Facts
  <1>2. PcbOwned(c) /\ Stashed(c)
    BY <1>1 DEF ClientOK
  <1> QED
    BY <1>1, <1>2 DEF PcbOwned, Running, Bound, FinsMeant

(* A step of the client that takes the connection as it is. *)
LEMMA ClientGoes ==
    ASSUME RelayInv, Bound, NEW z, ClientKeeps(Client, z), Waits(z.c), XquicStep(z)
    PROVE  RelayInv'
  <1>1. /\ Client \in ClientRec /\ Client.c = c /\ Client.up = up /\ Client.down = down
        /\ UpWhole(c, up, e, sk, inner, origin) /\ DownWhole(c, down, e, sk, inner, origin)
        /\ inner \in Peer
    BY Facts
  <1>2. c.state # "freed" /\ (c.tcp_fin_seen => inner.fin)
    BY Open
  <1>3. ClientStep(z) /\ lwip' = "none" /\ UNCHANGED <<e, sk, origin>> /\ inner' = inner
    BY DEF XquicStep
  <1> QED
    BY <1>1, <1>2, <1>3, ClientTurn

LEMMA TornDown ==
    ASSUME NEW x \in ClientRec, NEW close_h3 \in BOOLEAN
    PROVE  Waits(TeardownFlow(x, close_h3).c)
  BY TeardownFields, FreedFields DEF Waits

LEMMA WritableStep == RelayInv /\ OnClientWritable => RelayInv'
  <1> SUFFICES ASSUME RelayInv, OnClientWritable
               PROVE  RelayInv'
    OBVIOUS
  <1>1. Bound
    BY DEF OnClientWritable
  <1>2. PICK err \in Errors : XquicStep(UplinkFlush(Client, err))
    BY DEF OnClientWritable
  <1>3. Running(Client) /\ Waits(Client.c) /\ err \in BOOLEAN
    BY <1>1, Open, Facts, AnyError
  <1>4. ClientKeeps(Client, UplinkFlush(Client, err)) /\ Waits(UplinkFlush(Client, err).c)
    BY <1>3, UplinkFlushKeeps
  <1> QED
    BY <1>1, <1>2, <1>4, ClientGoes

LEMMA TickStep == RelayInv /\ LaneTick => RelayInv'
  <1> SUFFICES ASSUME RelayInv, LaneTick
               PROVE  RelayInv'
    OBVIOUS
  <1>1. Bound
    BY DEF LaneTick
  <1>2. PICK err \in Errors, room \in Rooms(Client) : XquicStep(DownlinkPump(Client, room, err))
    BY DEF LaneTick
  <1>3. Running(Client) /\ Waits(Client.c) /\ err \in BOOLEAN
    BY <1>1, Open, Facts, AnyError
  <1>4. room \in Nat /\ Len(Client.c.snd) + room <= SndBuf
    BY <1>1, Open, Facts, Types, AnyRoom
  <1>5. /\ ClientKeeps(Client, DownlinkPump(Client, room, err))
        /\ Waits(DownlinkPump(Client, room, err).c)
    BY <1>3, <1>4, DownlinkPumpKeeps
  <1> QED
    BY <1>1, <1>2, <1>5, ClientGoes

LEMMA ClosingStep == RelayInv /\ OnH3Closing => RelayInv'
  <1> SUFFICES ASSUME RelayInv, OnH3Closing
               PROVE  RelayInv'
    OBVIOUS
  <1>1. Bound /\ XquicStep(TeardownFlow(Client, FALSE))
    BY DEF OnH3Closing
  <1>2. ClientKeeps(Client, TeardownFlow(Client, FALSE)) /\ Waits(TeardownFlow(Client, FALSE).c)
    BY <1>1, Open, Facts, TeardownKeeps, TornDown
  <1> QED
    BY <1>1, <1>2, ClientGoes

LEMMA LaneIdleStep == RelayInv /\ LaneIdle => RelayInv'
  <1> SUFFICES ASSUME RelayInv, LaneIdle
               PROVE  RelayInv'
    OBVIOUS
  <1>1. Bound /\ XquicStep(TeardownFlow(Client, TRUE))
    BY DEF LaneIdle
  <1>2. ClientKeeps(Client, TeardownFlow(Client, TRUE)) /\ Waits(TeardownFlow(Client, TRUE).c)
    BY <1>1, Open, Facts, TeardownKeeps, TornDown
  <1> QED
    BY <1>1, <1>2, ClientGoes

(* A flow that is still bound, with other fields than the relay's changed. *)
LEMMA RunsOn ==
    ASSUME RelayInv, Bound, NEW f \in Flow, NEW d \in Stream, StreamOK(d),
           d.fin_in = down.fin_in, d.body = down.body,
           f.state \in {"pending_stream", "active"}, f.pcb = "open", f.q = c.q,
           f.withheld = c.withheld, f.held = c.held, f.credit = c.credit,
           f.snd = c.snd \/ Len(f.snd) <= SndBuf, f.stash = c.stash, f.paused = c.paused, f.fin_sent = c.fin_sent,
           f.fin_received = c.fin_received, f.shut = c.shut
    PROVE  Running(OnClient(f, up, d)) /\ Waits(f)
  <1> DEFINE x == OnClient(f, up, d)
  <1>1. x.c = f /\ x.up = up /\ x.down = d /\ x.st = "LIVE"
    BY Records
  <1>2. ClientOK(Client) /\ Client.c = c /\ Client.up = up /\ Client.down = down /\ Waits(c)
    BY Facts
  <1>3. x \in ClientRec
    BY Types DEF ClientRec, OnClient, Status
  <1>4. c.pcb = "open" /\ c.state # "freed"
    BY Open
  <1> HIDE DEF x
  <1>5. PcbOwned(x.c) /\ Stashed(x.c)
    BY <1>1, <1>2 DEF ClientOK, PcbOwned, Stashed
  <1>6. WindowKept(x.c)
    BY <1>1, <1>2 DEF ClientOK, WindowKept
  <1>7. FinsSent(x) /\ FinsSeen(x)
    BY <1>1, <1>2, <1>4 DEF ClientOK, FinsSent, FinsSeen
  <1>8. ClientOK(x)
    BY <1>1, <1>2, <1>3, <1>5, <1>6, <1>7 DEF ClientOK
  <1>9. Waits(f)
    BY <1>2, <1>4 DEF Waits
  <1> QED
    BY <1>1, <1>8, <1>9 DEF Running, x

LEMMA EstablishedStep == RelayInv /\ OnStreamEstablished => RelayInv'
  <1> SUFFICES ASSUME RelayInv, OnStreamEstablished
               PROVE  RelayInv'
    OBVIOUS
  <1> DEFINE f == [c EXCEPT !.state = "active"]
             d == [down EXCEPT !.hdr = "none"]
             x == OnClient(f, up, d)
  <1>1. Bound
    BY DEF OnStreamEstablished
  <1>2. PICK err \in Errors :
            XquicStep(UplinkFlush([Client EXCEPT !.c.state = "active", !.down.hdr = "none"], err))
    BY DEF OnStreamEstablished
  <1>3. [Client EXCEPT !.c.state = "active", !.down.hdr = "none"] = x
    <2>1. Client \in ClientRec /\ Client.c = c /\ Client.down = down
      BY Facts
    <2>2. [Client EXCEPT !.c.state = "active", !.down.hdr = "none"] = [Client EXCEPT !.c = f, !.down = d]
      BY <2>1 DEF ClientRec
    <2> HIDE DEF f, d
    <2>3. [Client EXCEPT !.c = f] = OnClient(f, up, down)
      BY DEF Client, OnClient
    <2>4. [OnClient(f, up, down) EXCEPT !.down = d] = x
      BY DEF OnClient
    <2> QED
      BY <2>2, <2>3, <2>4
  <1>4. /\ c \in Flow /\ down \in Stream /\ StreamOK(down) /\ c.pcb = "open" /\ c.state # "freed"
        /\ (c.tcp_fin_seen => inner.fin)
    BY <1>1, Types, Facts, Open DEF ClientOK
  <1>5. /\ f \in Flow /\ f.state = "active" /\ f.pcb = "open" /\ f.q = c.q
        /\ f.withheld = c.withheld /\ f.held = c.held /\ f.credit = c.credit /\ f.snd = c.snd
        /\ f.stash = c.stash /\ f.paused = c.paused /\ f.fin_sent = c.fin_sent
        /\ f.fin_received = c.fin_received /\ f.shut = c.shut /\ f.tcp_fin_seen = c.tcp_fin_seen
    BY <1>4 DEF Flow
  <1>6. /\ d \in Stream /\ d.wire = down.wire /\ d.body = down.body /\ d.fin = down.fin
        /\ d.fin_in = down.fin_in
    BY <1>4 DEF Stream
  <1>7. x.c = f /\ x.up = up /\ x.down = d
    BY Records
  <1> HIDE DEF f, d
  <1>8. StreamOK(d)
    BY <1>4, <1>6 DEF StreamOK, Room
  <1>9. Running(x) /\ Waits(f) /\ err \in BOOLEAN
    BY <1>1, <1>5, <1>6, <1>8, RunsOn, AnyError
  <1>10. ClientKeeps(x, UplinkFlush(x, err)) /\ Waits(UplinkFlush(x, err).c)
    BY <1>7, <1>9, UplinkFlushKeeps
  <1>11. UpWhole(x.c, x.up, e, sk, inner, origin) /\ DownWhole(x.c, x.down, e, sk, inner, origin)
    BY ZenonT(90), <1>4, <1>5, <1>6, <1>7, Facts DEF UpWhole, DownWhole
  <1>12. x \in ClientRec /\ x.c.state # "freed" /\ (x.c.tcp_fin_seen => inner.fin) /\ inner \in Peer
    BY <1>4, <1>5, <1>7, <1>9, Facts DEF Running, ClientOK
  <1>13. /\ ClientStep(UplinkFlush(x, err)) /\ lwip' = "none" /\ UNCHANGED <<e, sk, origin>>
         /\ inner' = inner
    BY <1>2, <1>3 DEF XquicStep
  <1> HIDE DEF x
  <1> QED
    BY <1>6, <1>7, <1>10, <1>11, <1>12, <1>13, ClientTurn

LEMMA RejectedStep == RelayInv /\ OnStreamRejected => RelayInv'
  <1> SUFFICES ASSUME RelayInv, OnStreamRejected
               PROVE  RelayInv'
    OBVIOUS
  <1> DEFINE d == [down EXCEPT !.hdr = "none"]
             x == OnClient(c, up, d)
  <1>1. Bound
    BY DEF OnStreamRejected
  <1>2. XquicStep(TeardownFlow([Client EXCEPT !.down.hdr = "none"], TRUE))
    BY DEF OnStreamRejected
  <1>3. [Client EXCEPT !.down.hdr = "none"] = x
    BY DEF Client, OnClient
  <1>4. /\ c \in Flow /\ down \in Stream /\ StreamOK(down) /\ c.pcb = "open" /\ c.state # "freed"
        /\ c.state \in {"pending_stream", "active"} /\ (c.tcp_fin_seen => inner.fin)
    BY <1>1, Types, Facts, Open DEF ClientOK, Bound
  <1>6. /\ d \in Stream /\ d.wire = down.wire /\ d.body = down.body /\ d.fin = down.fin
        /\ d.fin_in = down.fin_in
    BY <1>4 DEF Stream
  <1>7. x.c = c /\ x.up = up /\ x.down = d
    BY Records
  <1> HIDE DEF d
  <1>8. StreamOK(d)
    BY <1>4, <1>6 DEF StreamOK, Room
  <1>9. Running(x)
    BY <1>1, <1>4, <1>6, <1>8, RunsOn
  <1>11. UpWhole(x.c, x.up, e, sk, inner, origin) /\ DownWhole(x.c, x.down, e, sk, inner, origin)
    BY <1>4, <1>6, <1>7, Facts DEF UpWhole, DownWhole
  <1>12. x \in ClientRec /\ x.c.state # "freed" /\ (x.c.tcp_fin_seen => inner.fin) /\ inner \in Peer
    BY <1>4, <1>7, <1>9, Facts DEF Running, ClientOK
  <1>10. ClientKeeps(x, TeardownFlow(x, TRUE)) /\ Waits(TeardownFlow(x, TRUE).c)
    BY <1>9, <1>12, TeardownKeeps, TornDown
  <1>13. /\ ClientStep(TeardownFlow(x, TRUE)) /\ lwip' = "none" /\ UNCHANGED <<e, sk, origin>>
         /\ inner' = inner
    BY <1>2, <1>3 DEF XquicStep
  <1> HIDE DEF x
  <1> QED
    BY <1>6, <1>7, <1>10, <1>11, <1>12, <1>13, ClientTurn

(* The pcb is gone before the teardown: the flow ends as if it had aborted *)
(* the pcb itself, outside of a callback that would report it.             *)
LEMMA LwipErrStep == RelayInv /\ OnLwipErr => RelayInv'
  <1> SUFFICES ASSUME RelayInv, OnLwipErr
               PROVE  RelayInv'
    OBVIOUS
  <1> DEFINE v == TeardownFlow([Client EXCEPT !.c.pcb = "aborted"], TRUE)
             z == TeardownFlow(Client, TRUE)
  <1>1. c.pcb = "open" /\ XquicStep(v)
    BY DEF OnLwipErr
  <1>2. v.c = z.c /\ v.up = z.up /\ v.down = z.down
    BY DEF TeardownFlow, Client
  <1>3. Bound /\ Running(Client) /\ Client \in ClientRec
    BY <1>1, Open, Facts
  <1>4. ClientKeeps(Client, z) /\ Waits(z.c)
    BY <1>3, TeardownKeeps, TornDown
  <1> HIDE DEF v, z
  <1>5. XquicStep(z)
    BY <1>1, <1>2 DEF XquicStep, ClientStep
  <1> QED
    BY <1>3, <1>4, <1>5, ClientGoes

LEMMA LwipFinStep == RelayInv /\ OnLwipFin => RelayInv'
  <1> SUFFICES ASSUME RelayInv, OnLwipFin
               PROVE  RelayInv'
    OBVIOUS
  <1> DEFINE f == [c EXCEPT !.tcp_fin_seen = TRUE]
             x == OnClient(f, up, down)
  <1>1. Bound /\ inner' = [inner EXCEPT !.fin = TRUE] /\ UNCHANGED <<e, sk, origin>>
    BY Open DEF OnLwipFin
  <1>2. PICK err \in Errors :
            LET w == UplinkFlush([Client EXCEPT !.c.tcp_fin_seen = TRUE], err)
            IN  ClientStep(w) /\ Frame(w)
    BY DEF OnLwipFin
  <1>3. [Client EXCEPT !.c.tcp_fin_seen = TRUE] = x
    <2>1. Client \in ClientRec /\ Client.c = c
      BY Facts
    <2>2. [Client EXCEPT !.c.tcp_fin_seen = TRUE] = [Client EXCEPT !.c = f]
      BY <2>1 DEF ClientRec
    <2> HIDE DEF f
    <2>3. [Client EXCEPT !.c = f] = x
      BY DEF Client, OnClient
    <2> QED
      BY <2>2, <2>3
  <1>4. /\ c \in Flow /\ down \in Stream /\ StreamOK(down) /\ c.pcb = "open" /\ c.state # "freed"
        /\ c.state \in {"pending_stream", "active"}
    BY <1>1, Types, Facts, Open DEF ClientOK, Bound
  <1>5. /\ f \in Flow /\ f.state = c.state /\ f.pcb = "open" /\ f.q = c.q
        /\ f.withheld = c.withheld /\ f.held = c.held /\ f.credit = c.credit /\ f.snd = c.snd
        /\ f.stash = c.stash /\ f.paused = c.paused /\ f.fin_sent = c.fin_sent
        /\ f.fin_received = c.fin_received /\ f.shut = c.shut
    BY <1>4 DEF Flow
  <1>6. inner' \in Peer /\ inner'.fin /\ inner'.sent = inner.sent /\ inner'.got = inner.got
    BY <1>1, Facts DEF Peer
  <1>7. x.c = f /\ x.up = up /\ x.down = down
    BY Records
  <1> HIDE DEF f
  <1>9. Running(x) /\ Waits(f) /\ err \in BOOLEAN
    BY <1>1, <1>4, <1>5, RunsOn, AnyError
  <1>10. ClientKeeps(x, UplinkFlush(x, err)) /\ Waits(UplinkFlush(x, err).c)
    BY <1>7, <1>9, UplinkFlushKeeps
  <1>11. UpWhole(x.c, x.up, e, sk, inner', origin) /\ DownWhole(x.c, x.down, e, sk, inner', origin)
    BY <1>4, <1>5, <1>6, <1>7, Facts DEF UpWhole, DownWhole
  <1>12. x \in ClientRec /\ x.c.state # "freed"
    BY <1>4, <1>5, <1>7, <1>9 DEF Running, ClientOK
  <1>13. ClientStep(UplinkFlush(x, err)) /\ Frame(UplinkFlush(x, err))
    BY <1>2, <1>3
  <1> HIDE DEF x
  <1> QED
    BY <1>1, <1>6, <1>7, <1>10, <1>11, <1>12, <1>13, ClientTurn

(* What moved from b to the end of a, before t. *)
LEMMA MoveIn ==
    ASSUME NEW a \in Bytes, NEW b \in Bytes, NEW t \in Bytes, NEW n \in Nat, n <= Len(b)
    PROVE  (a \o Front(b, n)) \o (After(b, n) \o t) = a \o (b \o t)
  <1>1. a \o Front(b, n) \in Bytes /\ (a \o Front(b, n)) \o After(b, n) = a \o b
    BY Move
  <1>2. After(b, n) \in Bytes
    BY Cut
  <1>3. (a \o Front(b, n)) \o (After(b, n) \o t) = ((a \o Front(b, n)) \o After(b, n)) \o t
    BY <1>1, <1>2, Assoc
  <1>4. (a \o b) \o t = a \o (b \o t)
    BY Assoc
  <1> QED
    BY <1>1, <1>3, <1>4

(* Bytes of the stream arrive. *)
LEMMA ArriveFields ==
    ASSUME NEW h \in Stream, StreamOK(h), NEW n \in Nat, NEW fin \in BOOLEAN, Arriving(h, n, fin)
    PROVE  LET a == Arrive(h, n, fin) IN
           /\ a \in Stream /\ StreamOK(a) /\ a.fin = h.fin /\ h.fin_in = FALSE
           /\ \A t \in Bytes : a.body \o (a.wire \o t) = h.body \o (h.wire \o t)
  <1> DEFINE a == Arrive(h, n, fin)
             b == h.body
             w == h.wire
             m == Len(w)
             l == Len(b)
  <1>1. b \in Bytes /\ w \in Bytes /\ m \in Nat /\ l \in Nat /\ n <= m
    BY LenType DEF Stream, Arriving
  <1>2. h.fin_in = FALSE
    <2>1. ASSUME h.fin_in
          PROVE  FALSE
      <3>1. m = 0
        BY <2>1, Empty DEF StreamOK
      <3>2. n > 0
        BY <2>1 DEF Arriving
      <3> QED
        BY <1>1, <3>1, <3>2
    <2>2. h.fin_in \in BOOLEAN
      BY DEF Stream
    <2> QED
      BY <2>1, <2>2
  <1>3. /\ b \o Front(w, n) \in Bytes /\ Len(b \o Front(w, n)) = l + n
        /\ After(w, n) \in Bytes /\ Len(After(w, n)) = m - n
    BY <1>1, Move, Cut
  <1>4. /\ a \in Stream /\ a.fin = h.fin /\ a.fin_in = fin
        /\ a.body = b \o Front(w, n) /\ a.wire = After(w, n)
    BY <1>2, <1>3 DEF Arrive, Stream
  <1>5. fin => h.fin /\ n = m
    BY DEF Arriving
  <1>6. \A t \in Bytes : a.body \o (a.wire \o t) = h.body \o (h.wire \o t)
    <2> HIDE DEF a, b, w
    <2>1. \A t \in Bytes : (b \o Front(w, n)) \o (After(w, n) \o t) = b \o (w \o t)
      BY ZenonT(90), <1>1, MoveIn
    <2> QED
      BY <1>4, <2>1 DEF b, w
  <1>7. H3Cap - (m - n) - (l + n) = H3Cap - m - l
    <2> HIDE DEF m, l
    <2> QED
      BY <1>1, Bounds
  <1>8. Room(a) = Room(h)
    BY <1>3, <1>4, <1>7 DEF Room
  <1>9. fin => a.wire = <<>>
    <2> SUFFICES ASSUME fin
                 PROVE  a.wire = <<>>
      OBVIOUS
    <2>1. Len(After(w, n)) = 0
      BY <1>1, <1>3, <1>5
    <2> QED
      BY <1>3, <1>4, <2>1, Empty
  <1> HIDE DEF a, b, w, m, l
  <1>10. StreamOK(a)
    BY <1>4, <1>5, <1>8, <1>9 DEF StreamOK
  <1> QED
    BY <1>2, <1>4, <1>6, <1>10 DEF a

LEMMA ClientBodyStep ==
    ASSUME RelayInv, NEW n \in Nat, NEW fin \in BOOLEAN, OnClientBody(n, fin)
    PROVE  RelayInv'
  <1> DEFINE d == Arrive(down, n, fin)
             x == OnClient(c, up, d)
  <1>1. Bound
    BY DEF OnClientBody, Bound
  <1>2. PICK err \in Errors, room \in Rooms(Client) :
            XquicStep(DownlinkPump([Client EXCEPT !.down = Arrive(@, n, fin)], room, err))
    BY DEF OnClientBody
  <1>3. [Client EXCEPT !.down = Arrive(@, n, fin)] = x
    <2>1. Client.down = down
      BY Facts
    <2> HIDE DEF d
    <2>2. [Client EXCEPT !.down = d] = x
      BY DEF Client, OnClient
    <2> QED
      BY <2>1, <2>2 DEF d
  <1>4. /\ c \in Flow /\ up \in Stream /\ down \in Stream /\ StreamOK(down) /\ c.pcb = "open"
        /\ c.state # "freed" /\ (c.tcp_fin_seen => inner.fin)
    BY <1>1, Types, Facts, Open DEF ClientOK
  <1>5. /\ d \in Stream /\ StreamOK(d) /\ d.fin = down.fin /\ down.fin_in = FALSE
        /\ \A t \in Bytes : d.body \o (d.wire \o t) = down.body \o (down.wire \o t)
    BY <1>4, ArriveFields DEF OnClientBody
  <1>6. x.c = c /\ x.up = up /\ x.down = d /\ x.st = "LIVE"
    BY Records
  <1>7. x \in ClientRec
    BY <1>4, <1>5 DEF ClientRec, OnClient, Status
  <1> HIDE DEF d, x
  <1>8. Running(x)
    <2>1. ClientOK(Client) /\ Client.c = c /\ Client.up = up /\ Client.down = down
      BY Facts
    <2>2. FinsSeen(x)
      BY <1>5, <1>6, <2>1 DEF ClientOK, FinsSeen
    <2>3. FinsSent(x)
      BY <1>6, <2>1 DEF ClientOK, FinsSent
    <2>4. ClientOK(x)
      BY <1>5, <1>6, <1>7, <2>1, <2>2, <2>3 DEF ClientOK
    <2> QED
      BY <1>4, <1>6, <2>4 DEF Running
  <1>9. room \in Nat /\ Len(c.snd) + room <= SndBuf /\ err \in BOOLEAN /\ Waits(c)
    <2>1. Client.c = c /\ Stashed(c) /\ c.snd \in Bytes /\ Waits(c)
      BY <1>1, Facts, Open, Types
    <2> QED
      BY <2>1, AnyRoom, AnyError
  <1>10. ClientKeeps(x, DownlinkPump(x, room, err)) /\ Waits(DownlinkPump(x, room, err).c)
    BY <1>6, <1>8, <1>9, DownlinkPumpKeeps
  <1>11. UpWhole(x.c, x.up, e, sk, inner, origin)
    BY <1>6, Facts
  <1>12. DownWhole(x.c, x.down, e, sk, inner, origin)
    <2>1. e.up_stash \o sk.in \in Bytes
      BY Types, Joined
    <2>2. d.body \o (d.wire \o (e.up_stash \o sk.in))
            = down.body \o (down.wire \o (e.up_stash \o sk.in))
      BY <1>5, <2>1
    <2> QED
      BY <1>6, <2>2, Facts DEF DownWhole
  <1>13. /\ ClientStep(DownlinkPump(x, room, err)) /\ lwip' = "none"
         /\ UNCHANGED <<e, sk, origin>> /\ inner' = inner /\ inner \in Peer
    BY <1>2, <1>3, Facts DEF XquicStep
  <1> QED
    BY <1>4, <1>5, <1>6, <1>7, <1>10, <1>11, <1>12, <1>13, ClientTurn

(* The application's host acknowledged bytes of lwIP's buffer. *)
LEMMA LwipSentStep ==
    ASSUME RelayInv, NEW n \in Nat, OnLwipSent(n)
    PROVE  RelayInv'
  <1> DEFINE f == [c EXCEPT !.snd = After(c.snd, n)]
             x == OnClient(f, up, down)
  <1>1. /\ c.pcb = "open" /\ n <= Len(c.snd) /\ UNCHANGED <<e, sk, origin>>
        /\ inner' = [inner EXCEPT !.got = @ \o Front(c.snd, n)]
    BY DEF OnLwipSent
  <1>2. [Client EXCEPT !.c.snd = After(@, n)] = x
    <2>1. Client \in ClientRec /\ Client.c = c
      BY Facts
    <2>2. [Client EXCEPT !.c.snd = After(@, n)] = [Client EXCEPT !.c = f]
      BY <2>1 DEF ClientRec
    <2> HIDE DEF f
    <2>3. [Client EXCEPT !.c = f] = x
      BY DEF Client, OnClient
    <2> QED
      BY <2>2, <2>3
  <1>3. PICK err \in Errors, room \in Rooms(x) :
            LET w == IF c.paused THEN DownlinkPump(x, room, err) ELSE x
            IN  ClientStep(w) /\ Frame(w)
    BY <1>2 DEF OnLwipSent
  <1>4. /\ c \in Flow /\ up \in Stream /\ down \in Stream /\ StreamOK(down) /\ c.state # "freed"
        /\ (c.tcp_fin_seen => inner.fin) /\ Bound /\ c.state \in {"pending_stream", "active"}
        /\ Stashed(c)
    BY <1>1, Types, Facts, Open DEF ClientOK, Bound
  <1>5. After(c.snd, n) \in Bytes /\ Len(After(c.snd, n)) <= SndBuf /\ Front(c.snd, n) \in Bytes
    <2> DEFINE s == c.snd
               m == Len(s)
    <2>1. s \in Bytes /\ m \in Nat /\ m <= SndBuf /\ n <= m
      BY <1>1, <1>4, Types, LenType DEF Stashed
    <2> HIDE DEF s
    <2>2. After(s, n) \in Bytes /\ Len(After(s, n)) = m - n /\ Front(s, n) \in Bytes
      BY <2>1, Cut
    <2> HIDE DEF m
    <2>3. m - n <= SndBuf
      BY <2>1, Bounds
    <2> QED
      BY <2>2, <2>3 DEF s
  <1>6. /\ f \in Flow /\ f.state = c.state /\ f.pcb = "open" /\ f.q = c.q
        /\ f.withheld = c.withheld /\ f.held = c.held /\ f.credit = c.credit
        /\ f.snd = After(c.snd, n)
        /\ f.stash = c.stash /\ f.paused = c.paused /\ f.fin_sent = c.fin_sent
        /\ f.fin_received = c.fin_received /\ f.shut = c.shut /\ f.tcp_fin_seen = c.tcp_fin_seen
    BY <1>1, <1>4, <1>5 DEF Flow
  <1>7. /\ inner' \in Peer /\ inner'.fin = inner.fin /\ inner'.sent = inner.sent
        /\ inner'.got = inner.got \o Front(c.snd, n)
    <2>1. inner.got \o Front(c.snd, n) \in Bytes /\ inner \in Peer
      BY <1>5, Types, Facts, Joined
    <2> QED
      BY <1>1, <2>1 DEF Peer
  <1>8. x.c = f /\ x.up = up /\ x.down = down
    BY Records
  <1> HIDE DEF f
  <1>9. Running(x) /\ Waits(f)
    BY <1>4, <1>5, <1>6, RunsOn
  <1>10. x \in ClientRec /\ Stashed(x.c) /\ x.c.snd \in Bytes
    BY <1>5, <1>6, <1>8, <1>9 DEF Running, ClientOK
  <1> HIDE DEF x
  <1>11. room \in Nat /\ Len(x.c.snd) + room <= SndBuf /\ err \in BOOLEAN
    BY <1>10, AnyRoom, AnyError
  <1> DEFINE z == IF c.paused THEN DownlinkPump(x, room, err) ELSE x
  <1>12. ClientKeeps(x, z) /\ Waits(z.c)
    <2>1. ClientKeeps(x, DownlinkPump(x, room, err)) /\ Waits(DownlinkPump(x, room, err).c)
      BY <1>8, <1>9, <1>11, DownlinkPumpKeeps
    <2>2. ClientKeeps(x, x) /\ Waits(x.c)
      BY <1>8, <1>9, KeepsItself
    <2> QED
      BY <2>1, <2>2
  <1>13. ClientStep(z) /\ Frame(z)
    BY <1>3
  <1> HIDE DEF z
  <1>14. UpWhole(x.c, x.up, e, sk, inner', origin)
    BY <1>4, <1>6, <1>7, <1>8, Facts DEF UpWhole
  <1>15. DownWhole(x.c, x.down, e, sk, inner', origin)
    <2> DEFINE t == c.stash \o (down.body \o (down.wire \o (e.up_stash \o sk.in)))
               a == inner.got
               b == c.snd
    <2>1. t \in Bytes /\ a \in Bytes /\ b \in Bytes
      BY Types, Joined
    <2>2. (inner.got \o Front(c.snd, n)) \o (After(c.snd, n) \o t) = inner.got \o (c.snd \o t)
      <3>1. n <= Len(b)
        BY <1>1
      <3> HIDE DEF a, b, t
      <3>2. (a \o Front(b, n)) \o (After(b, n) \o t) = a \o (b \o t)
        BY <2>1, <3>1, MoveIn
      <3> QED
        BY <3>2 DEF a, b
    <2>3. DownWhole(c, down, e, sk, inner, origin)
      BY Facts
    <2> QED
      BY <1>4, <1>6, <1>7, <1>8, <2>2, <2>3 DEF DownWhole
  <1> QED
    BY <1>1, <1>4, <1>6, <1>7, <1>8, <1>10, <1>12, <1>13, <1>14, <1>15, ClientTurn

(* lwIP sends what it holds of a pcb that the flow has closed. *)
LEMMA LwipFlushStep == RelayInv /\ LwipFlush => RelayInv'
  <1> SUFFICES ASSUME RelayInv, LwipFlush
               PROVE  RelayInv'
    OBVIOUS
  <1> DEFINE f == [c EXCEPT !.snd = <<>>]
             x == [OnClient(f, up, down) EXCEPT !.st = "GONE"]
  <1>1. /\ c.pcb = "closed" /\ c' = f /\ inner' = [inner EXCEPT !.got = @ \o c.snd]
        /\ lwip' = "none" /\ up' = up /\ down' = down /\ UNCHANGED <<e, sk, origin>>
    BY DEF LwipFlush
  <1>2. /\ c \in Flow /\ up \in Stream /\ down \in Stream /\ (c.tcp_fin_seen => inner.fin)
        /\ ClientOK(Client) /\ Client.c = c /\ Client.up = up /\ Client.down = down
    BY Types, Facts DEF FinsMeant
  <1>3. c.state = "closing"
    BY <1>1, <1>2 DEF ClientOK, PcbOwned
  <1>4. /\ f \in Flow /\ f.state = c.state /\ f.pcb = "closed" /\ f.q = c.q
        /\ f.withheld = c.withheld /\ f.held = c.held /\ f.credit = c.credit
        /\ f.snd = <<>>
        /\ f.stash = c.stash /\ f.paused = c.paused /\ f.fin_sent = c.fin_sent
        /\ f.fin_received = c.fin_received /\ f.shut = c.shut /\ f.tcp_fin_seen = c.tcp_fin_seen
    BY <1>1, <1>2, Empty DEF Flow
  <1>5. /\ inner' \in Peer /\ inner'.fin = inner.fin /\ inner'.sent = inner.sent
        /\ inner'.got = inner.got \o c.snd
    <2>1. inner.got \o c.snd \in Bytes /\ inner \in Peer
      BY Types, Facts, Joined
    <2> QED
      BY <1>1, <2>1 DEF Peer
  <1> HIDE DEF f
  <1>6. x.c = f /\ x.up = up /\ x.down = down /\ x.st = "GONE" /\ x \in ClientRec
    BY <1>2, <1>4 DEF OnClient, ClientRec, Status
  <1> HIDE DEF x
  <1>7. ClientOK(x)
    <2>1. PcbOwned(x.c) /\ WindowKept(x.c)
      BY <1>2, <1>3, <1>4, <1>6 DEF ClientOK, PcbOwned, WindowKept
    <2>2. Stashed(x.c)
      BY <1>2, <1>4, <1>6, Empty, Bounds DEF ClientOK, Stashed
    <2>3. FinsSent(x) /\ FinsSeen(x)
      BY <1>2, <1>4, <1>6 DEF ClientOK, FinsSent, FinsSeen
    <2> QED
      BY <1>2, <1>3, <1>4, <1>6, <2>1, <2>2, <2>3 DEF ClientOK
  <1>8. ClientKeeps(x, x) /\ Waits(x.c)
    BY <1>3, <1>4, <1>6, <1>7 DEF ClientKeeps, Waits
  <1>9. UpWhole(x.c, x.up, e, sk, inner', origin)
    BY <1>3, <1>4, <1>5, <1>6, Facts DEF UpWhole
  <1>10. DownWhole(x.c, x.down, e, sk, inner', origin)
    <2> DEFINE t == c.stash \o (down.body \o (down.wire \o (e.up_stash \o sk.in)))
    <2>1. t \in Bytes /\ inner.got \in Bytes /\ c.snd \in Bytes
      BY Types, Joined
    <2>2. (inner.got \o c.snd) \o (<<>> \o t) = inner.got \o (c.snd \o t)
      <3> HIDE DEF t
      <3>1. <<>> \o t = t
        BY <2>1, JoinEmpty
      <3>2. (inner.got \o c.snd) \o t = inner.got \o (c.snd \o t)
        BY <2>1, Assoc
      <3> QED
        BY <3>1, <3>2
    <2>3. DownWhole(c, down, e, sk, inner, origin)
      BY Facts
    <2> QED
      BY <1>3, <1>4, <1>5, <1>6, <2>2, <2>3 DEF DownWhole
  <1>11. ClientStep(x)
    BY <1>1, <1>6 DEF ClientStep
  <1>12. x.c.state # "freed" /\ (x.c.tcp_fin_seen => inner'.fin)
    BY <1>2, <1>3, <1>4, <1>5, <1>6
  <1> QED
    BY <1>1, <1>2, <1>5, <1>6, <1>8, <1>9, <1>10, <1>11, <1>12, ClientTurn

(* lwIP delivers bytes of the application. *)
LEMMA LwipRecvStep ==
    ASSUME RelayInv, NEW n \in Nat, n > 0, OnLwipRecv(n)
    PROVE  RelayInv'
  <1> DEFINE bytes == After(Count(inner.sent + n), inner.sent)
             x == Offered(Client, bytes)
  <1>1. /\ c.pcb = "open" /\ ~inner.fin /\ c.credit + n <= Wnd /\ UNCHANGED <<e, sk, origin>>
        /\ inner' = [inner EXCEPT !.sent = @ + n]
    BY DEF OnLwipRecv
  <1>2. PICK err \in Errors : LET w == UplinkDeliver(Client, bytes, err)
                              IN  ClientStep(w) /\ Frame(w)
    BY DEF OnLwipRecv
  <1>3. /\ Client \in ClientRec /\ Client.c = c /\ Client.up = up /\ Client.down = down
        /\ Waits(c) /\ inner \in Peer /\ inner.sent \in Nat /\ c.q \in Bytes
    BY Facts, Types
  <1>4. /\ Running(Client) /\ c.state # "freed" /\ (c.tcp_fin_seen => inner.fin) /\ ~up.fin
    BY <1>1, Open
  <1>5. /\ bytes \in Bytes /\ Len(bytes) = n
        /\ Count(inner.sent) \o bytes = Count(inner.sent + n)
    BY <1>3, Counted
  <1>6. /\ inner' \in Peer /\ inner'.fin = inner.fin /\ inner'.sent = inner.sent + n
        /\ inner'.got = inner.got
    BY <1>1, <1>3 DEF Peer
  <1> HIDE DEF bytes
  <1>7. ClientKeeps(x, UplinkDeliver(Client, bytes, err)) /\ Waits(UplinkDeliver(Client, bytes, err).c)
    <2>1. Len(bytes) > 0 /\ Client.c.credit + Len(bytes) <= Wnd /\ err \in BOOLEAN
      BY <1>1, <1>3, <1>5, AnyError
    <2> QED
      BY <1>3, <1>4, <1>5, <2>1, UplinkDeliverKeeps
  <1>8. c.q \o bytes \in Bytes
    BY <1>3, <1>5, Joined
  <1>9. /\ x \in ClientRec /\ x.down = down /\ x.up.body = up.body /\ x.up.wire = up.wire
        /\ x.up.fin = up.fin /\ x.up.fin_in = up.fin_in /\ x.c.state = c.state
        /\ x.c.stash = c.stash /\ x.c.q = c.q \o bytes /\ x.c.snd = c.snd
        /\ x.c.tcp_fin_seen = c.tcp_fin_seen
    BY <1>3, <1>8, OfferedFields
  <1> HIDE DEF x
  <1>10. UpWhole(x.c, x.up, e, sk, inner', origin)
    <2> SUFFICES ASSUME e.state # "freed" \/ e.shutdown_done
                 PROVE  origin.got \o (sk.out \o (e.stash \o (up.body \o (up.wire \o (c.q \o bytes)))))
                          = Count(inner.sent + n)
      BY <1>6, <1>9 DEF UpWhole
    <2>1. origin.got \o (sk.out \o (e.stash \o (up.body \o (up.wire \o c.q)))) = Count(inner.sent)
      BY <1>4, Facts DEF UpWhole
    <2>2. origin.got \o (sk.out \o (e.stash \o (up.body \o (up.wire \o (c.q \o bytes)))))
            = (origin.got \o (sk.out \o (e.stash \o (up.body \o (up.wire \o c.q))))) \o bytes
      <3> DEFINE a == origin.got
                 b == sk.out
                 s == e.stash
                 t == up.body
                 w == up.wire
                 q == c.q
                 u == t \o (w \o q)
                 v == s \o u
      <3>0. bytes \in Bytes
        BY <1>5
      <3>1. a \in Bytes /\ b \in Bytes
        BY Types
      <3>2. s \in Bytes
        BY Types
      <3>3. t \in Bytes /\ w \in Bytes /\ q \in Bytes
        BY Types
      <3> HIDE DEF a, b, s, t, w, q
      <3>4. u \in Bytes
        BY <3>3, Joined
      <3>5. t \o (w \o (q \o bytes)) = u \o bytes
        BY SMTT(90), <3>0, <3>3, Regroup
      <3> HIDE DEF u
      <3>6. v \in Bytes
        BY <3>2, <3>4, Joined
      <3>7. s \o (u \o bytes) = v \o bytes
        BY <3>0, <3>2, <3>4, Assoc
      <3> HIDE DEF v
      <3>8. a \o (b \o (v \o bytes)) = (a \o (b \o v)) \o bytes
        BY SMTT(60), ZenonT(90), <3>0, <3>1, <3>6, Regroup
      <3> QED
        BY <3>5, <3>7, <3>8 DEF a, b, s, t, w, q, u, v
    <2> QED
      BY <1>5, <2>1, <2>2
  <1>11. DownWhole(x.c, x.down, e, sk, inner', origin)
    BY <1>6, <1>9, Facts DEF DownWhole
  <1>12. ClientStep(UplinkDeliver(Client, bytes, err)) /\ Frame(UplinkDeliver(Client, bytes, err))
    BY <1>2
  <1> QED
    BY <1>1, <1>4, <1>6, <1>7, <1>9, <1>10, <1>11, <1>12, ClientTurn

(* A step of the server that takes the connection as it is. *)
LEMMA ServerGoes ==
    ASSUME RelayInv, e.state # "freed", NEW z, ServerKeeps(Server, z), Interest(z.e), ServerStep(z)
    PROVE  RelayInv'
  <1>1. /\ Server \in ServerRec /\ Server.e = e /\ Server.up = up /\ Server.down = down
        /\ Server.sk = sk
        /\ UpWhole(c, up, e, sk, inner, origin) /\ DownWhole(c, down, e, sk, inner, origin)
    BY Facts
  <1> QED
    BY <1>1, ServerTurn

LEMMA InRelay ==
    ASSUME RelayInv, e.state = "active"
    PROVE  Relay(Server) /\ Interest(Server.e) /\ e.state # "freed"
  <1>1. ServerOK(Server) /\ Server.e = e /\ (e.state = "active" => Interest(e))
    BY Facts
  <1> QED
    BY <1>1 DEF Relay

LEMMA ConnectDoneStep == RelayInv /\ ConnectDone => RelayInv'
  <1> SUFFICES ASSUME RelayInv, ConnectDone
               PROVE  RelayInv'
    OBVIOUS
  <1>1. e.state = "connecting"
    BY DEF ConnectDone
  <1>2. PICK err \in Errors : ServerStep(OnConnected(Server, err))
    BY DEF ConnectDone
  <1>3. ServerOK(Server) /\ Server.e = e /\ err \in BOOLEAN
    BY Facts, AnyError
  <1>4. ServerKeeps(Server, OnConnected(Server, err)) /\ Interest(OnConnected(Server, err).e)
    BY <1>1, <1>3, OnConnectedKeeps
  <1> QED
    BY <1>1, <1>2, <1>4, ServerGoes

LEMMA FdReadyStep == RelayInv /\ OnFdReady => RelayInv'
  <1> SUFFICES ASSUME RelayInv, OnFdReady
               PROVE  RelayInv'
    OBVIOUS
  <1>1. e.state = "active"
    BY DEF OnFdReady, Relaying
  <1>2. PICK err \in Errors : ServerStep(OnRelayReady(Server, Readable, Writable, err))
    BY DEF OnFdReady
  <1>3. Relay(Server) /\ Interest(Server.e) /\ e.state # "freed" /\ err \in BOOLEAN
    BY <1>1, InRelay, AnyError
  <1>4. Readable \in BOOLEAN /\ Writable \in BOOLEAN
    BY Zenon DEF Readable, Writable
  <1> DEFINE readable == Readable
             writable == Writable
             z == OnRelayReady(Server, readable, writable, err)
  <1>5. readable \in BOOLEAN /\ writable \in BOOLEAN
    BY <1>4
  <1>6. ServerStep(z)
    BY <1>2
  <1> HIDE DEF readable, writable
  <1>7. ServerKeeps(Server, z) /\ Interest(z.e)
    BY <1>3, <1>5, RelayReadyKeeps
  <1> HIDE DEF z
  <1> QED
    BY <1>3, <1>6, <1>7, ServerGoes

LEMMA ServerWritableStep == RelayInv /\ OnServerWritable => RelayInv'
  <1> SUFFICES ASSUME RelayInv, OnServerWritable
               PROVE  RelayInv'
    OBVIOUS
  <1>1. e.state = "active"
    BY DEF OnServerWritable, Relaying
  <1>2. PICK err \in Errors : ServerStep(OnH3Writable(Server, err))
    BY DEF OnServerWritable
  <1>3. Relay(Server) /\ Interest(Server.e) /\ e.state # "freed" /\ err \in BOOLEAN
    BY <1>1, InRelay, AnyError
  <1>4. ServerKeeps(Server, OnH3Writable(Server, err)) /\ Interest(OnH3Writable(Server, err).e)
    BY <1>3, H3WritableKeeps
  <1> QED
    BY <1>2, <1>3, <1>4, ServerGoes

LEMMA EgressIdleStep == RelayInv /\ EgressIdle => RelayInv'
  <1> SUFFICES ASSUME RelayInv, EgressIdle
               PROVE  RelayInv'
    OBVIOUS
  <1>1. e.state = "active" /\ ServerStep(CloseRequest(Server))
    BY DEF EgressIdle, Relaying
  <1>2. Relay(Server) /\ Interest(Server.e) /\ e.state # "freed"
    BY <1>1, InRelay
  <1>3. ServerKeeps(Server, CloseRequest(Server)) /\ Interest(CloseRequest(Server).e)
    BY <1>2, CloseRequestKeeps
  <1> QED
    BY <1>1, <1>2, <1>3, ServerGoes

(* The server's side changes, the client's does not. *)
LEMMA ServerPlaces ==
    ASSUME RelayInv, NEW z, ServerOK(z), z.e.state = "active" => Interest(z.e),
           z.up.fin = up.fin, z.down.fin_in = down.fin_in, z.down.body = down.body,
           z.sk.in_fin = sk.in_fin,
           UpWhole(c, z.up, z.e, z.sk, inner, origin), DownWhole(c, z.down, z.e, z.sk, inner, origin),
           ServerStep(z)
    PROVE  RelayInv'
  <1>1. Sides(c, up, down, e, sk, inner, origin)
    BY DEF RelayInv
  <1>2. ServerOK(OnServer(z.e, z.up, z.down, z.sk))
    <2>1. z = OnServer(z.e, z.up, z.down, z.sk)
      BY DEF ServerOK, ServerRec, OnServer
    <2> QED
      BY <2>1
  <1>3. ClientOK(OnClient(c, z.up, z.down))
    <2>1. z.up \in Stream /\ z.down \in Stream /\ StreamOK(z.up) /\ StreamOK(z.down)
      BY EgressTypes DEF ServerOK
    <2>2. ClientOK(OnClient(c, up, down))
      BY <1>1 DEF Sides
    <2> QED
      BY <2>1, <2>2, ClientStays
  <1>4. FinsMeant(c, z.up, z.sk, inner, origin) /\ Waits(c)
    BY <1>1 DEF Sides, FinsMeant
  <1>5. Sides(c, z.up, z.down, z.e, z.sk, inner, origin)
    BY <1>2, <1>3, <1>4 DEF Sides
  <1>6. Sides(c', up', down', e', sk', inner', origin')
    BY <1>5 DEF ServerStep
  <1>7. AbortReported' /\ lwip' \in {"none", "ERR_OK", "ERR_ABRT"}
    BY DEF AbortReported, ServerStep
  <1> QED
    BY <1>6, <1>7, InvNext

(* The flow is freed: what it still held is lost, and a direction that had *)
(* come to its end had left nothing in it.                                 *)
LEMMA Freeing ==
    ASSUME RelayInv, e.state # "freed", NEW y, ServerOK(y), y.e = e, y.up = up, y.sk = sk,
           y.down.wire = down.wire, y.down.body = down.body, y.down.fin_in = down.fin_in,
           ServerStep(FlowDestroy(y))
    PROVE  RelayInv'
  <1> DEFINE z == FlowDestroy(y)
  <1>1. /\ ServerOK(z) /\ z.e.state = "freed" /\ z.up = up /\ z.down = y.down
        /\ z.e.fin_sent = e.fin_sent /\ z.e.shutdown_done = e.shutdown_done
        /\ z.e.stash = <<>> /\ z.e.up_stash = <<>> /\ z.sk.out = sk.out /\ z.sk.in = <<>>
        /\ z.sk.in_fin = sk.in_fin
    BY FlowDestroyOK
  <1>2. ServerStep(z)
    OBVIOUS
  <1> HIDE DEF z
  <1>3. /\ e.shutdown_done => e.stash = <<>>
        /\ e.fin_sent => e.up_stash = <<>> /\ sk.in = <<>>
    BY DEF ServerOK, ShutdownOK, EofOK
  <1>4. UpWhole(c, z.up, z.e, z.sk, inner, origin)
    BY <1>1, <1>3, Facts DEF UpWhole
  <1>5. DownWhole(c, z.down, z.e, z.sk, inner, origin)
    BY ZenonT(90), <1>1, <1>3, Facts DEF DownWhole
  <1> QED
    BY <1>1, <1>2, <1>4, <1>5, ServerPlaces

LEMMA CloseNotifyStep == RelayInv /\ CloseNotify => RelayInv'
  <1> SUFFICES ASSUME RelayInv, CloseNotify
               PROVE  RelayInv'
    OBVIOUS
  <1>1. e.state # "freed" /\ ServerStep(FlowDestroy(Server))
    BY DEF CloseNotify
  <1>2. ServerOK(Server) /\ Server.e = e /\ Server.up = up /\ Server.sk = sk /\ Server.down = down
    BY Facts
  <1> QED
    BY <1>1, <1>2, Freeing

LEMMA ConnectFailsStep == RelayInv /\ ConnectFails => RelayInv'
  <1> SUFFICES ASSUME RelayInv, ConnectFails
               PROVE  RelayInv'
    OBVIOUS
  <1> DEFINE y == [Server EXCEPT !.down.hdr = "error"]
  <1>1. e.state = "connecting" /\ ServerStep(FlowDestroy(y))
    BY DEF ConnectFails, FailConnect
  <1>2. /\ ServerOK(Server) /\ Server \in ServerRec /\ Server.e = e /\ Server.up = up
        /\ Server.sk = sk /\ Server.down = down
    BY Facts
  <1>3. SameRelay(Server, y) /\ y.e = e
    <2>1. "error" \in {"none", "200", "error"}
      OBVIOUS
    <2> QED
      BY <1>2, <2>1, HeaderFields
  <1> HIDE DEF y
  <1>4. y \in ServerRec /\ y.e = e /\ y.up = up /\ y.sk = sk /\ y.down.wire = down.wire
        /\ y.down.body = down.body /\ y.down.fin_in = down.fin_in /\ y.down.fin = down.fin
    BY <1>2, <1>3 DEF SameRelay
  <1>5. StreamOK(y.down)
    BY <1>2, <1>4 DEF ServerOK, StreamOK, Room
  <1>6. ShutdownOK(y) /\ EofOK(y)
    BY <1>2, <1>4 DEF ServerOK, ShutdownOK, EofOK
  <1>7. ServerOK(y)
    BY <1>2, <1>4, <1>5, <1>6 DEF ServerOK
  <1> QED
    BY <1>1, <1>4, <1>7, Freeing

LEMMA ServerBodyStep ==
    ASSUME RelayInv, NEW n \in Nat, NEW fin \in BOOLEAN, OnBody(n, fin)
    PROVE  RelayInv'
  <1> DEFINE a == Arrive(up, n, fin)
             y == OnServer(e, a, down, sk)
  <1>1. e.state # "freed" /\ Arriving(up, n, fin)
    BY DEF OnBody
  <1>2. [Server EXCEPT !.up = Arrive(@, n, fin)] = y
    <2>1. Server.up = up
      BY Facts
    <2> HIDE DEF a
    <2>2. [Server EXCEPT !.up = a] = y
      BY DEF Server, OnServer
    <2> QED
      BY <2>1, <2>2 DEF a
  <1>3. PICK err \in Errors : ServerStep(IF e.state = "active" THEN DrainBody(y, err) ELSE y)
    BY <1>2 DEF OnBody
  <1>4. /\ ServerOK(Server) /\ Server.e = e /\ Server.up = up /\ Server.down = down
        /\ Server.sk = sk /\ (e.state = "active" => Interest(e)) /\ err \in BOOLEAN
        /\ UpWhole(c, up, e, sk, inner, origin) /\ DownWhole(c, down, e, sk, inner, origin)
    BY Facts, AnyError
  <1>5. up \in Stream /\ down \in Stream /\ e \in Egress /\ sk \in Socket /\ StreamOK(up) /\ c.q \in Bytes
    BY <1>4, Types DEF ServerOK
  <1>6. /\ a \in Stream /\ StreamOK(a) /\ a.fin = up.fin /\ up.fin_in = FALSE
        /\ \A t \in Bytes : a.body \o (a.wire \o t) = up.body \o (up.wire \o t)
    BY <1>1, <1>5, ArriveFields
  <1>7. y.e = e /\ y.up = a /\ y.down = down /\ y.sk = sk
    BY Records
  <1>8. y \in ServerRec
    BY <1>5, <1>6 DEF ServerRec, OnServer
  <1> HIDE DEF a, y
  <1>9. ShutdownOK(y) /\ EofOK(y)
    BY <1>4, <1>6, <1>7 DEF ServerOK, ShutdownOK, EofOK
  <1>10. ServerOK(y)
    BY <1>4, <1>6, <1>7, <1>8, <1>9 DEF ServerOK
  <1>11. UpWhole(c, y.up, y.e, y.sk, inner, origin)
    BY <1>4, <1>5, <1>6, <1>7 DEF UpWhole
  <1>12. DownWhole(c, y.down, y.e, y.sk, inner, origin)
    BY <1>4, <1>7
  <1>13. CASE e.state = "active"
    <2>1. Relay(y) /\ Interest(y.e)
      BY <1>4, <1>7, <1>10, <1>13 DEF Relay
    <2>2. ServerKeeps(y, DrainBody(y, err)) /\ Interest(DrainBody(y, err).e)
      BY <1>4, <2>1, DrainBodyKeeps
    <2>3. ServerStep(DrainBody(y, err))
      BY <1>3, <1>13
    <2> QED
      BY <1>1, <1>6, <1>7, <1>8, <1>11, <1>12, <2>2, <2>3, ServerTurn
  <1>14. CASE e.state # "active"
    <2>1. ServerStep(y)
      BY <1>3, <1>14
    <2> QED
      BY <1>4, <1>6, <1>7, <1>10, <1>11, <1>12, <2>1, ServerPlaces
  <1> QED
    BY <1>13, <1>14

(* A step of the origin on the other end of the socket. *)
LEMMA OriginPlaces ==
    ASSUME RelayInv, NEW k \in Socket, Len(k.out) <= SockCap, Len(k.in) <= SockCap,
           e.eof => k.in_fin /\ k.in = <<>>, NEW or \in Peer, k.in_fin => or.fin,
           UpWhole(c, up, e, k, inner, or), DownWhole(c, down, e, k, inner, or),
           sk' = k, origin' = or, OriginStep
    PROVE  RelayInv'
  <1> DEFINE y == OnServer(e, up, down, k)
  <1>1. /\ ServerOK(Server) /\ Server.e = e /\ Server.up = up /\ Server.down = down
        /\ (e.state = "active" => Interest(e))
    BY Facts
  <1>2. y.e = e /\ y.up = up /\ y.down = down /\ y.sk = k
    BY Records
  <1>3. y \in ServerRec
    BY Types DEF ServerRec, OnServer
  <1> HIDE DEF y
  <1>4. ShutdownOK(y) /\ EofOK(y)
    BY <1>1, <1>2 DEF ServerOK, ShutdownOK, EofOK
  <1>5. ServerOK(y)
    BY <1>1, <1>2, <1>3, <1>4 DEF ServerOK
  <1>6. Sides(c, up, down, e, sk, inner, origin)
    BY DEF RelayInv
  <1>7. FinsMeant(c, up, k, inner, or)
    BY <1>6 DEF Sides, FinsMeant
  <1>8. Sides(c, up, down, e, k, inner, or)
    BY <1>5, <1>6, <1>7 DEF Sides, y
  <1>9. Sides(c', up', down', e', sk', inner', origin')
    BY <1>8 DEF OriginStep
  <1>10. AbortReported' /\ lwip' \in {"none", "ERR_OK", "ERR_ABRT"}
    BY DEF AbortReported, OriginStep
  <1> QED
    BY <1>9, <1>10, InvNext

LEMMA SocketFacts ==
    ASSUME RelayInv
    PROVE  /\ Len(sk.out) <= SockCap /\ Len(sk.in) <= SockCap
           /\ e.eof => sk.in_fin /\ sk.in = <<>>
           /\ sk.in_fin => origin.fin
           /\ Len(sk.out) \in Nat /\ Len(sk.in) \in Nat
  <1>1. ServerOK(Server) /\ Server.e = e /\ Server.sk = sk /\ FinsMeant(c, up, sk, inner, origin)
    BY Facts
  <1>2. Len(sk.out) \in Nat /\ Len(sk.in) \in Nat
    BY Types, LenType
  <1> QED
    BY <1>1, <1>2 DEF ServerOK, EofOK, FinsMeant

LEMMA OriginReadStep ==
    ASSUME RelayInv, NEW n \in Nat, OriginRead(n)
    PROVE  RelayInv'
  <1> DEFINE k == [sk EXCEPT !.out = After(sk.out, n)]
             or == [origin EXCEPT !.got = origin.got \o Front(sk.out, n)]
             o == sk.out
             g == origin.got
             m == Len(o)
  <1>1. n <= m /\ origin' = or /\ sk' = k /\ OriginStep
    BY DEF OriginRead
  <1>2. o \in Bytes /\ g \in Bytes /\ m \in Nat /\ m <= SockCap
    BY Types, SocketFacts
  <1>3. /\ After(o, n) \in Bytes /\ Len(After(o, n)) = m - n
        /\ g \o Front(o, n) \in Bytes
    <2> HIDE DEF o, g
    <2> QED
      BY <1>1, <1>2, Cut, Move
  <1>4. m - n <= SockCap
    <2> HIDE DEF m
    <2> QED
      BY <1>1, <1>2, Bounds
  <1>5. k \in Socket /\ k.out = After(o, n) /\ k.in = sk.in /\ k.in_fin = sk.in_fin
    BY <1>3, Types DEF Socket
  <1>6. or \in Peer /\ or.got = g \o Front(o, n) /\ or.sent = origin.sent /\ or.fin = origin.fin
    BY <1>3, Facts DEF Peer
  <1>7. \A t \in Bytes : (g \o Front(o, n)) \o (After(o, n) \o t) = g \o (o \o t)
    <2> HIDE DEF o, g
    <2> QED
      BY <1>1, <1>2, MoveIn
  <1>8. e.stash \o (up.body \o (up.wire \o c.q)) \in Bytes
    BY Types, Joined
  <1> HIDE DEF k, or
  <1>9. UpWhole(c, up, e, k, inner, or)
    <2>1. or.got \o (k.out \o (e.stash \o (up.body \o (up.wire \o c.q))))
            = g \o (o \o (e.stash \o (up.body \o (up.wire \o c.q))))
      BY <1>5, <1>6, <1>7, <1>8
    <2> QED
      BY <2>1, Facts DEF UpWhole
  <1>10. DownWhole(c, down, e, k, inner, or)
    BY <1>5, <1>6, Facts DEF DownWhole
  <1>11. /\ Len(k.out) <= SockCap /\ Len(k.in) <= SockCap /\ (e.eof => k.in_fin /\ k.in = <<>>)
         /\ (k.in_fin => or.fin)
    BY <1>3, <1>4, <1>5, <1>6, SocketFacts
  <1> QED
    BY <1>1, <1>5, <1>6, <1>9, <1>10, <1>11, OriginPlaces

LEMMA OriginSendStep ==
    ASSUME RelayInv, NEW n \in Nat, OriginSend(n)
    PROVE  RelayInv'
  <1> DEFINE bytes == After(Count(origin.sent + n), origin.sent)
             k == [sk EXCEPT !.in = sk.in \o bytes]
             or == [origin EXCEPT !.sent = origin.sent + n]
  <1>1. /\ e.state = "active" /\ ~origin.fin /\ Len(sk.in) + n <= SockCap
        /\ origin' = or /\ sk' = k /\ OriginStep
    BY DEF OriginSend
  <1>2. ~e.eof /\ ~sk.in_fin
    BY <1>1, SocketFacts
  <1>3. /\ bytes \in Bytes /\ Len(bytes) = n
        /\ Count(origin.sent) \o bytes = Count(origin.sent + n)
    BY Types, Counted
  <1>4. sk.in \o bytes \in Bytes /\ Len(sk.in \o bytes) = Len(sk.in) + n
    <2>1. sk.in \in Bytes
      BY Types
    <2> HIDE DEF bytes
    <2>2. sk.in \o bytes \in Bytes /\ Len(sk.in \o bytes) = Len(sk.in) + Len(bytes)
      BY <1>3, <2>1, Joined
    <2> QED
      BY <1>3, <2>2
  <1>5. k \in Socket /\ k.out = sk.out /\ k.in = sk.in \o bytes /\ k.in_fin = sk.in_fin
    BY <1>4, Types DEF Socket
  <1>6. or \in Peer /\ or.got = origin.got /\ or.sent = origin.sent + n /\ or.fin = origin.fin
    BY Facts DEF Peer
  <1>7. bytes \in Bytes
    BY <1>3
  <1> HIDE DEF bytes, k, or
  <1>8. UpWhole(c, up, e, k, inner, or)
    BY <1>5, <1>6, Facts DEF UpWhole
  <1>9. DownWhole(c, down, e, k, inner, or)
    <2> DEFINE a == inner.got
               b == c.snd
               s == c.stash
               t == down.body
               w == down.wire
               q == e.up_stash
               i == sk.in
               u == w \o (q \o i)
               v == s \o (t \o u)
    <2>1. c.state # "freed" => a \o (b \o (s \o (t \o (w \o (q \o i))))) = Count(origin.sent)
      BY <1>1, Facts DEF DownWhole
    <2>2. a \in Bytes /\ b \in Bytes
      BY Types
    <2>3. s \in Bytes /\ t \in Bytes
      BY Types
    <2>4. w \in Bytes /\ q \in Bytes /\ i \in Bytes
      BY Types
    <2> HIDE DEF a, b, s, t, w, q, i
    <2>5. u \in Bytes
      BY <2>4, Joined
    <2>6. w \o (q \o (i \o bytes)) = u \o bytes
      BY SMTT(60), ZenonT(90), <1>7, <2>4, Regroup
    <2> HIDE DEF u
    <2>7. v \in Bytes
      BY <2>3, <2>5, Joined
    <2>8. s \o (t \o (u \o bytes)) = v \o bytes
      BY SMTT(60), ZenonT(90), <1>7, <2>3, <2>5, Regroup
    <2> HIDE DEF v
    <2>9. a \o (b \o (v \o bytes)) = (a \o (b \o v)) \o bytes
      BY SMTT(60), ZenonT(90), <1>7, <2>2, <2>7, Regroup
    <2>10. c.state # "freed" => a \o (b \o v) = Count(origin.sent)
      BY <2>1 DEF u, v
    <2>11. c.state # "freed" => a \o (b \o (s \o (t \o (w \o (q \o (i \o bytes))))))
                                 = Count(origin.sent + n)
      BY <1>3, <2>6, <2>8, <2>9, <2>10
    <2>12. c.state # "freed" => inner.got \o (c.snd \o (c.stash \o (down.body
               \o (down.wire \o (e.up_stash \o (sk.in \o bytes)))))) = Count(origin.sent + n)
      BY <2>11 DEF a, b, s, t, w, q, i
    <2> QED
      BY <1>5, <1>6, <2>12 DEF DownWhole
  <1>10. /\ Len(k.out) <= SockCap /\ Len(k.in) <= SockCap /\ (e.eof => k.in_fin /\ k.in = <<>>)
         /\ (k.in_fin => or.fin)
    BY <1>1, <1>2, <1>4, <1>5, <1>6, SocketFacts
  <1> QED
    BY <1>1, <1>5, <1>6, <1>8, <1>9, <1>10, OriginPlaces

LEMMA OriginFinStep == RelayInv /\ OriginFin => RelayInv'
  <1> SUFFICES ASSUME RelayInv, OriginFin
               PROVE  RelayInv'
    OBVIOUS
  <1> DEFINE k == [sk EXCEPT !.in_fin = TRUE]
             or == [origin EXCEPT !.fin = TRUE]
  <1>1. origin' = or /\ sk' = k /\ OriginStep
    BY DEF OriginFin
  <1>2. k \in Socket /\ k.out = sk.out /\ k.in = sk.in /\ k.in_fin
    BY Types DEF Socket
  <1>3. or \in Peer /\ or.got = origin.got /\ or.sent = origin.sent /\ or.fin
    BY Facts DEF Peer
  <1> HIDE DEF k, or
  <1>4. UpWhole(c, up, e, k, inner, or) /\ DownWhole(c, down, e, k, inner, or)
    BY <1>2, <1>3, Facts DEF UpWhole, DownWhole
  <1>5. Len(k.out) <= SockCap /\ Len(k.in) <= SockCap /\ (e.eof => k.in_fin /\ k.in = <<>>)
    BY <1>2, SocketFacts
  <1> QED
    BY <1>1, <1>2, <1>3, <1>4, <1>5, OriginPlaces

-----------------------------------------------------------------------------
(* The invariant holds *)

LEMMA RelayInit == Init => RelayInv
  <1> SUFFICES ASSUME Init
               PROVE  RelayInv
    OBVIOUS
  <1>1. /\ c = NewFlow /\ up = NewStream /\ down = NewStream /\ e = NewEgress
        /\ sk = [out |-> <<>>, out_fin |-> FALSE, in |-> <<>>, in_fin |-> FALSE]
        /\ inner = [sent |-> 0, fin |-> FALSE, got |-> <<>>]
        /\ origin = [sent |-> 0, fin |-> FALSE, got |-> <<>>] /\ lwip = "none"
    BY DEF Init
  <1>2. /\ c \in Flow /\ c.state = "pending_stream" /\ c.pcb = "open" /\ c.q = <<>>
        /\ c.withheld = FALSE /\ c.held = 0 /\ c.credit = 0 /\ c.stash = <<>> /\ c.snd = <<>>
        /\ c.paused = FALSE /\ c.tcp_fin_seen = FALSE /\ c.fin_sent = FALSE
        /\ c.fin_received = FALSE /\ c.shut = FALSE
    BY <1>1, Empty DEF NewFlow, Flow
  <1>3. /\ NewStream \in Stream /\ NewStream.wire = <<>> /\ NewStream.body = <<>>
        /\ NewStream.fin = FALSE /\ NewStream.fin_in = FALSE
    BY Empty DEF NewStream, Stream
  <1>4. /\ e \in Egress /\ e.state = "connecting" /\ e.stash = <<>> /\ e.up_stash = <<>>
        /\ e.paused = FALSE /\ e.withheld = FALSE /\ e.eof = FALSE /\ e.fin_sent = FALSE
        /\ e.fin_received = FALSE /\ e.shutdown_done = FALSE
    BY <1>1, Empty DEF NewEgress, Egress
  <1>5. sk \in Socket /\ sk.out = <<>> /\ sk.in = <<>> /\ sk.in_fin = FALSE
    BY <1>1, Empty DEF Socket
  <1>6. /\ inner \in Peer /\ inner.sent = 0 /\ inner.got = <<>>
        /\ origin \in Peer /\ origin.sent = 0 /\ origin.got = <<>>
    BY <1>1, Empty DEF Peer
  <1>7. Count(0) = <<>>
    <2>1. Count(0) \in Bytes /\ Len(Count(0)) = 0
      BY Counted
    <2> QED
      BY <2>1, Empty
  <1>8. StreamOK(NewStream)
    <2>1. H3Cap - 0 - 0 >= 0
      BY Bounds
    <2> QED
      BY <1>3, <2>1, Empty DEF StreamOK, Room
  <1>9. ClientOK(OnClient(c, up, down))
    <2> DEFINE x == OnClient(c, up, down)
    <2>1. x.c = c /\ x.up = NewStream /\ x.down = NewStream
      BY <1>1, Records
    <2>2. x \in ClientRec
      BY <1>1, <1>2, <1>3 DEF OnClient, ClientRec, Status
    <2> HIDE DEF x
    <2>3. PcbOwned(x.c) /\ WindowKept(x.c) /\ Stashed(x.c)
      BY <1>2, <2>1, Empty, Bounds DEF PcbOwned, WindowKept, Stashed
    <2>4. FinsSent(x) /\ FinsSeen(x)
      BY <1>2, <1>3, <2>1 DEF FinsSent, FinsSeen
    <2> QED
      BY <1>2, <1>8, <2>1, <2>2, <2>3, <2>4 DEF ClientOK, x
  <1>10. ServerOK(OnServer(e, up, down, sk))
    <2> DEFINE y == OnServer(e, up, down, sk)
    <2>1. y.e = e /\ y.up = NewStream /\ y.down = NewStream /\ y.sk = sk
      BY <1>1, Records
    <2>2. y \in ServerRec
      BY <1>1, <1>3, <1>4, <1>5 DEF OnServer, ServerRec
    <2> HIDE DEF y
    <2>3. Connecting(y.e)
      BY <1>4, <2>1 DEF Connecting
    <2>4. ShutdownOK(y) /\ EofOK(y)
      BY <1>3, <1>4, <2>1 DEF ShutdownOK, EofOK
    <2>5. /\ Len(y.e.stash) <= Chunk /\ Len(y.e.up_stash) <= Chunk
          /\ Len(y.sk.out) <= SockCap /\ Len(y.sk.in) <= SockCap
      BY <1>4, <1>5, <2>1, Empty, Bounds
    <2> QED
      BY <1>4, <1>8, <2>1, <2>2, <2>3, <2>4, <2>5 DEF ServerOK, y
  <1>11. <<>> \o <<>> = <<>>
    BY Empty, JoinEmpty
  <1>12. UpWhole(c, up, e, sk, inner, origin) /\ DownWhole(c, down, e, sk, inner, origin)
    BY <1>1, <1>2, <1>3, <1>4, <1>5, <1>6, <1>7, <1>11 DEF UpWhole, DownWhole
  <1>13. FinsMeant(c, up, sk, inner, origin) /\ Waits(c)
    BY <1>1, <1>2, <1>3, <1>5, <1>6 DEF FinsMeant, Waits
  <1>14. Sides(c, up, down, e, sk, inner, origin)
    BY <1>4, <1>9, <1>10, <1>12, <1>13 DEF Sides
  <1> QED
    BY <1>1, <1>14 DEF RelayInv, AbortReported

LEMMA RelayNext == RelayInv /\ [Next]_vars => RelayInv'
  <1> SUFFICES ASSUME RelayInv, [Next]_vars
               PROVE  RelayInv'
    OBVIOUS
  <1>1. ASSUME NEW n \in 1..Wnd, OnLwipRecv(n)
        PROVE  RelayInv'
    BY <1>1, LwipRecvStep
  <1>2. CASE OnLwipFin
    BY <1>2, LwipFinStep
  <1>3. ASSUME NEW n \in 1..SndBuf, OnLwipSent(n)
        PROVE  RelayInv'
    BY <1>3, LwipSentStep
  <1>4. CASE LwipFlush
    BY <1>4, LwipFlushStep
  <1>5. CASE OnStreamEstablished
    BY <1>5, EstablishedStep
  <1>6. CASE OnStreamRejected
    BY <1>6, RejectedStep
  <1>7. CASE OnClientWritable
    BY <1>7, WritableStep
  <1>8. ASSUME NEW n \in 0..H3Cap, NEW fin \in BOOLEAN, OnClientBody(n, fin)
        PROVE  RelayInv'
    BY <1>8, ClientBodyStep
  <1>9. CASE LaneTick
    BY <1>9, TickStep
  <1>10. CASE OnH3Closing
    BY <1>10, ClosingStep
  <1>11. CASE OnLwipErr
    BY <1>11, LwipErrStep
  <1>12. CASE LaneIdle
    BY <1>12, LaneIdleStep
  <1>13. CASE ConnectDone
    BY <1>13, ConnectDoneStep
  <1>14. CASE ConnectFails
    BY <1>14, ConnectFailsStep
  <1>15. ASSUME NEW n \in 0..H3Cap, NEW fin \in BOOLEAN, OnBody(n, fin)
         PROVE  RelayInv'
    BY <1>15, ServerBodyStep
  <1>16. CASE OnFdReady
    BY <1>16, FdReadyStep
  <1>17. CASE OnServerWritable
    BY <1>17, ServerWritableStep
  <1>18. CASE EgressIdle
    BY <1>18, EgressIdleStep
  <1>19. CASE CloseNotify
    BY <1>19, CloseNotifyStep
  <1>20. ASSUME NEW n \in 1..SockCap, OriginRead(n)
         PROVE  RelayInv'
    BY <1>20, OriginReadStep
  <1>21. ASSUME NEW n \in 1..SockCap, OriginSend(n)
         PROVE  RelayInv'
    BY <1>21, OriginSendStep
  <1>22. CASE OriginFin
    BY <1>22, OriginFinStep
  <1>23. CASE UNCHANGED vars
    <2>1. Sides(c', up', down', e', sk', inner', origin')
      BY SMTT(90), <1>23 DEF RelayInv, vars
    <2>2. AbortReported' /\ lwip' \in {"none", "ERR_OK", "ERR_ABRT"}
      BY SMTT(90), <1>23 DEF RelayInv, AbortReported, vars
    <2> QED
      BY <2>1, <2>2, InvNext
  <1> QED
    BY <1>1, <1>2, <1>3, <1>4, <1>5, <1>6, <1>7, <1>8, <1>9, <1>10, <1>11, <1>12, <1>13, <1>14,
       <1>15, <1>16, <1>17, <1>18, <1>19, <1>20, <1>21, <1>22, <1>23, Zenon DEF Next

-----------------------------------------------------------------------------
(* What the invariant says of the properties *)

LEMMA UpFromLeft ==
    ASSUME RelayInv
    PROVE  origin.got \o sk.out \o e.stash \o up.body \o up.wire \o c.q
             = origin.got \o (sk.out \o (e.stash \o (up.body \o (up.wire \o c.q))))
  <1> DEFINE a == origin.got
             b == sk.out
             s == e.stash
             t == up.body
             w == up.wire
             q == c.q
             l2 == a \o b
             l3 == l2 \o s
             l4 == l3 \o t
             l5 == l4 \o w
             r5 == w \o q
             r4 == t \o r5
             r3 == s \o r4
             r2 == b \o r3
  <1>1. a \in Bytes
    BY Types
  <1>2. b \in Bytes
    BY Types
  <1>3. s \in Bytes
    BY Types
  <1>4. t \in Bytes
    BY Types
  <1>5. w \in Bytes
    BY Types
  <1>6. q \in Bytes
    BY Types
  <1> HIDE DEF a, b, s, t, w, q
  <1>7. l2 \in Bytes
    BY <1>1, <1>2, Joined
  <1> HIDE DEF l2
  <1>8. l3 \in Bytes
    BY <1>7, <1>3, Joined
  <1> HIDE DEF l3
  <1>9. l4 \in Bytes
    BY <1>8, <1>4, Joined
  <1> HIDE DEF l4
  <1>10. l5 \in Bytes
    BY <1>9, <1>5, Joined
  <1> HIDE DEF l5
  <1>11. r5 \in Bytes
    BY <1>5, <1>6, Joined
  <1> HIDE DEF r5
  <1>12. r4 \in Bytes
    BY <1>4, <1>11, Joined
  <1> HIDE DEF r4
  <1>13. r3 \in Bytes
    BY <1>3, <1>12, Joined
  <1> HIDE DEF r3
  <1>14. r2 \in Bytes
    BY <1>2, <1>13, Joined
  <1> HIDE DEF r2
  <1>15. l5 \o q = l4 \o r5
    BY <1>9, <1>5, <1>6, Assoc DEF l5, r5
  <1>16. l4 \o r5 = l3 \o r4
    BY <1>8, <1>4, <1>11, Assoc DEF l4, r4
  <1>17. l3 \o r4 = l2 \o r3
    BY <1>7, <1>3, <1>12, Assoc DEF l3, r3
  <1>18. l2 \o r3 = a \o r2
    BY SMTT(90), <1>1, <1>2, <1>13, Assoc DEF l2, r2
  <1> QED
    BY <1>15, <1>16, <1>17, <1>18 DEF a, b, s, t, w, q, l2, l3, l4, l5, r2, r3, r4, r5

LEMMA DownFromLeft ==
    ASSUME RelayInv
    PROVE  inner.got \o c.snd \o c.stash \o down.body \o down.wire \o e.up_stash \o sk.in
             = inner.got \o (c.snd \o (c.stash \o (down.body \o (down.wire \o (e.up_stash \o sk.in)))))
  <1> DEFINE a == inner.got
             b == c.snd
             s == c.stash
             t == down.body
             w == down.wire
             q == e.up_stash
             i == sk.in
             l2 == a \o b
             l3 == l2 \o s
             l4 == l3 \o t
             l5 == l4 \o w
             l6 == l5 \o q
             r6 == q \o i
             r5 == w \o r6
             r4 == t \o r5
             r3 == s \o r4
             r2 == b \o r3
  <1>1. a \in Bytes
    BY Types
  <1>2. b \in Bytes
    BY Types
  <1>3. s \in Bytes
    BY Types
  <1>4. t \in Bytes
    BY Types
  <1>5. w \in Bytes
    BY Types
  <1>6. q \in Bytes
    BY Types
  <1>7. i \in Bytes
    BY Types
  <1> HIDE DEF a, b, s, t, w, q, i
  <1>8. l2 \in Bytes
    BY <1>1, <1>2, Joined
  <1> HIDE DEF l2
  <1>9. l3 \in Bytes
    BY <1>8, <1>3, Joined
  <1> HIDE DEF l3
  <1>10. l4 \in Bytes
    BY <1>9, <1>4, Joined
  <1> HIDE DEF l4
  <1>11. l5 \in Bytes
    BY <1>10, <1>5, Joined
  <1> HIDE DEF l5
  <1>12. l6 \in Bytes
    BY <1>11, <1>6, Joined
  <1> HIDE DEF l6
  <1>13. r6 \in Bytes
    BY <1>6, <1>7, Joined
  <1> HIDE DEF r6
  <1>14. r5 \in Bytes
    BY <1>5, <1>13, Joined
  <1> HIDE DEF r5
  <1>15. r4 \in Bytes
    BY <1>4, <1>14, Joined
  <1> HIDE DEF r4
  <1>16. r3 \in Bytes
    BY <1>3, <1>15, Joined
  <1> HIDE DEF r3
  <1>17. r2 \in Bytes
    BY <1>2, <1>16, Joined
  <1> HIDE DEF r2
  <1>18. l6 \o i = l5 \o r6
    BY <1>11, <1>6, <1>7, Assoc DEF l6, r6
  <1>19. l5 \o r6 = l4 \o r5
    BY <1>10, <1>5, <1>13, Assoc DEF l5, r5
  <1>20. l4 \o r5 = l3 \o r4
    BY <1>9, <1>4, <1>14, Assoc DEF l4, r4
  <1>21. l3 \o r4 = l2 \o r3
    BY <1>8, <1>3, <1>15, Assoc DEF l3, r3
  <1>22. l2 \o r3 = a \o r2
    BY <1>1, <1>2, <1>16, Assoc DEF l2, r2
  <1> QED
    BY <1>18, <1>19, <1>20, <1>21, <1>22 DEF a, b, s, t, w, q, i, l2, l3, l4, l5, l6, r2, r3, r4, r5, r6

LEMMA TypeHolds == RelayInv => TypeOK
  <1> SUFFICES ASSUME RelayInv
               PROVE  TypeOK
    OBVIOUS
  <1>1. /\ ClientOK(Client) /\ Client.c = c /\ Client.up = up /\ Client.down = down
        /\ ServerOK(Server) /\ Server.e = e /\ Server.sk = sk
    BY Facts
  <1>2. c \in Flow /\ e \in Egress /\ c.q \in Bytes
    BY Types
  <1>3. c.credit \in 0..Wnd /\ c.held \in 0..Wnd /\ Len(c.q) <= Wnd + HighWater
    <2>1. c.credit \in Nat /\ c.held \in Nat /\ Len(c.q) \in Nat
      BY <1>2, LenType DEF Flow
    <2>2. c.credit = c.held /\ c.credit <= Wnd /\ Len(c.q) <= HighWater + c.credit
      BY <1>1 DEF ClientOK, WindowKept
    <2> QED
      BY <2>1, <2>2, Bounds
  <1>4. Len(c.snd) <= SndBuf /\ Len(c.stash) <= Mss /\ Room(up) >= 0 /\ Room(down) >= 0
    BY <1>1 DEF ClientOK, Stashed, StreamOK
  <1>5. /\ Len(e.stash) <= Chunk /\ Len(e.up_stash) <= Chunk
        /\ Len(sk.out) <= SockCap /\ Len(sk.in) <= SockCap
    BY <1>1 DEF ServerOK
  <1>6. lwip \in {"none", "ERR_OK", "ERR_ABRT"}
    BY DEF RelayInv
  <1>7. /\ c.state \in {"pending_stream", "active", "closing", "freed"}
        /\ c.pcb \in {"open", "closed", "aborted"}
        /\ {c.withheld, c.paused, c.tcp_fin_seen, c.fin_sent, c.fin_received, c.shut} \subseteq BOOLEAN
        /\ e.state \in {"connecting", "active", "freed"}
    BY <1>2 DEF Flow, Egress
  <1> QED
    BY <1>3, <1>4, <1>5, <1>6, <1>7 DEF TypeOK

LEMMA ExactHolds == RelayInv => UplinkExact /\ DownlinkExact
  <1> SUFFICES ASSUME RelayInv, Kept
               PROVE  /\ origin.got \o sk.out \o e.stash \o up.body \o up.wire \o c.q
                           = Count(inner.sent)
                      /\ inner.got \o c.snd \o c.stash \o down.body \o down.wire \o e.up_stash
                           \o sk.in = Count(origin.sent)
    BY DEF UplinkExact, DownlinkExact
  <1>1. c.state # "freed" /\ (e.state = "freed" => e.shutdown_done /\ e.fin_sent)
    <2>1. ServerOK(Server) /\ Server.e = e
      BY Facts
    <2> QED
      BY <2>1 DEF Kept, ServerOK, ShutdownOK
  <1>2. origin.got \o (sk.out \o (e.stash \o (up.body \o (up.wire \o c.q)))) = Count(inner.sent)
    BY <1>1, Facts DEF UpWhole
  <1>3. inner.got \o (c.snd \o (c.stash \o (down.body \o (down.wire \o (e.up_stash \o sk.in)))))
          = Count(origin.sent)
    BY <1>1, Facts DEF DownWhole
  <1> QED
    BY <1>2, <1>3, UpFromLeft, DownFromLeft

LEMMA TwoParts ==
    ASSUME NEW a \in Bytes, NEW b \in Bytes, NEW n \in Nat, a \o b = Count(n)
    PROVE  Len(a) + Len(b) = n
  <1>1. Len(a \o b) = Len(a) + Len(b)
    BY Joined
  <1>2. Len(Count(n)) = n
    BY Counted
  <1> QED
    BY <1>1, <1>2

LEMMA FinsHold == RelayInv => FinIsLast
  <1> SUFFICES ASSUME RelayInv
               PROVE  FinIsLast
    OBVIOUS
  <1>1. /\ ClientOK(Client) /\ Client.c = c /\ Client.up = up /\ Client.down = down
        /\ ServerOK(Server) /\ Server.e = e /\ Server.sk = sk /\ Server.up = up
        /\ Server.down = down /\ FinsMeant(c, up, sk, inner, origin)
    BY Facts
  <1>2. <<>> \o <<>> = <<>>
    BY Empty, JoinEmpty
  <1>3. ASSUME e.shutdown_done
        PROVE  inner.fin /\ Len(origin.got) + Len(sk.out) = inner.sent
    <2>1. up.fin_in /\ e.stash = <<>> /\ up.body = <<>>
      BY <1>1, <1>3 DEF ServerOK, ShutdownOK
    <2>2. up.fin /\ up.wire = <<>>
      BY <1>1, <2>1 DEF ServerOK, StreamOK
    <2>3. c.q = <<>>
      <3>1. c.state # "freed" => c.q = <<>>
        BY <1>1, <2>2 DEF ClientOK, FinsSent
      <3>2. c.state = "freed" => c.q = <<>>
        BY <1>1, FreedFields DEF ClientOK
      <3> QED
        BY <3>1, <3>2
    <2>4. origin.got \o (sk.out \o (e.stash \o (up.body \o (up.wire \o c.q)))) = Count(inner.sent)
      BY <1>3, <2>2, Facts DEF UpWhole
    <2>5. origin.got \o (sk.out \o <<>>) = Count(inner.sent)
      BY <1>2, <2>1, <2>2, <2>3, <2>4
    <2>6. sk.out \o <<>> = sk.out
      BY Types, JoinEmpty
    <2>7. Len(origin.got) + Len(sk.out) = inner.sent
      <3>1. origin.got \in Bytes /\ sk.out \in Bytes /\ inner.sent \in Nat
        BY Types
      <3> QED
        BY <2>5, <2>6, <3>1, TwoParts
    <2>8. inner.fin
      BY <1>1, <2>2 DEF FinsMeant
    <2> QED
      BY <2>7, <2>8
  <1>4. ASSUME c.shut
        PROVE  origin.fin /\ Len(inner.got) + Len(c.snd) = origin.sent
    <2>1. c.state # "freed"
      BY <1>1, <1>4, FreedFields DEF ClientOK
    <2>2. down.fin_in /\ c.stash = <<>> /\ down.body = <<>>
      BY <1>1, <1>4 DEF ClientOK, FinsSeen
    <2>3. down.fin /\ down.wire = <<>>
      BY <1>1, <2>2 DEF ClientOK, StreamOK
    <2>4. e.fin_sent /\ e.up_stash = <<>> /\ sk.in = <<>> /\ sk.in_fin
      BY <1>1, <2>3 DEF ServerOK, EofOK
    <2>5. inner.got \o (c.snd \o (c.stash \o (down.body \o (down.wire \o (e.up_stash \o sk.in)))))
            = Count(origin.sent)
      BY <2>1, <2>4, Facts DEF DownWhole
    <2>6. inner.got \o (c.snd \o <<>>) = Count(origin.sent)
      BY <1>2, <2>2, <2>3, <2>4, <2>5
    <2>7. c.snd \o <<>> = c.snd
      BY Types, JoinEmpty
    <2>8. Len(inner.got) + Len(c.snd) = origin.sent
      <3>1. inner.got \in Bytes /\ c.snd \in Bytes /\ origin.sent \in Nat
        BY Types
      <3> QED
        BY <2>6, <2>7, <3>1, TwoParts
    <2>9. origin.fin
      BY <1>1, <2>4 DEF FinsMeant
    <2> QED
      BY <2>8, <2>9
  <1>5. c.fin_sent => c.q = <<>>
    BY <1>1 DEF ClientOK, FinsSent
  <1> QED
    BY <1>3, <1>4, <1>5 DEF FinIsLast

LEMMA ContractsHold == RelayInv => HopContracts
  <1> SUFFICES ASSUME RelayInv
               PROVE  HopContracts
    OBVIOUS
  <1>1. /\ ClientOK(Client) /\ Client.c = c /\ ServerOK(Server) /\ Server.e = e /\ Waits(c)
        /\ (e.state = "active" => Interest(e))
    BY Facts
  <1>2. WindowOwed
    BY <1>1 DEF WindowOwed, ClientOK, WindowKept, Waits
  <1>3. InterestExact
    <2> SUFFICES ASSUME Relaying
                 PROVE  /\ e.want_write = (e.stash # <<>>)
                        /\ e.want_read = (e.up_stash = <<>> /\ ~e.eof)
      BY DEF InterestExact
    <2>1. e \in Egress /\ e.state = "active"
      BY Types DEF Relaying
    <2>2. Interest(e) /\ Registered(e)
      BY <1>1, <2>1 DEF ServerOK
    <2>3. /\ e.want_write \in BOOLEAN /\ e.want_read \in BOOLEAN /\ e.paused \in BOOLEAN
          /\ e.withheld \in BOOLEAN /\ e.eof \in BOOLEAN
      BY <2>1 DEF Egress
    <2> QED
      BY <2>2, <2>3 DEF Interest, Registered
  <1> QED
    BY <1>2, <1>3 DEF HopContracts, RelayInv

(* For every number of bytes, window, buffer, chunk and water mark and     *)
(* however the steps of lwIP, xquic, the kernel and the two peers          *)
(* interleave, each byte is in exactly one place on its way and in order,  *)
(* and a FIN is passed on behind the last byte only (tcp_lane.c,           *)
(* tcp_lane_uplink.c, tcp_egress.c).                                       *)
THEOREM RelayExact == Spec => []BytesExact
  <1>1. RelayInv => BytesExact
    BY TypeHolds, ExactHolds, FinsHold DEF BytesExact
  <1> QED
    BY <1>1, RelayInit, RelayNext, PTL DEF Spec

(* The same for what each hop owes the library it runs in: the window      *)
(* withheld from lwIP, the fd's registration, and ERR_ABRT for a pcb that  *)
(* was aborted inside the callback.                                        *)
THEOREM RelayContracts == Spec => []HopContracts
  BY ContractsHold, RelayInit, RelayNext, PTL DEF Spec
=============================================================================
