-------------------------- MODULE MessageBusProofs --------------------------
(***************************************************************************)
(* Theorems about MessageBus for every number of handlers and nodes and    *)
(* every capacity of the channels.                                         *)
(***************************************************************************)
EXTENDS MessageBus, FiniteSetTheorems, TLAPS

-----------------------------------------------------------------------------
(* Queues.                                                                   *)

LEMMA Enqueue ==
  ASSUME NEW S, NEW q \in Seq(S), NEW x \in S
  PROVE  /\ Append(q, x) \in Seq(S) /\ Len(Append(q, x)) = Len(q) + 1 /\ Len(q) \in Nat
         /\ DOMAIN q = 1 .. Len(q) /\ DOMAIN Append(q, x) = 1 .. Len(q) + 1
         /\ Append(q, x)[Len(q) + 1] = x
         /\ \A i \in 1 .. Len(q) : Append(q, x)[i] = q[i]
OBVIOUS

LEMMA Dequeue ==
  ASSUME NEW S, NEW q \in Seq(S), q # <<>>
  PROVE  /\ Tail(q) \in Seq(S) /\ Len(Tail(q)) = Len(q) - 1 /\ Len(q) \in Nat \ {0}
         /\ DOMAIN q = 1 .. Len(q) /\ DOMAIN Tail(q) = 1 .. Len(q) - 1
         /\ Head(q) = q[1] /\ Head(q) \in S
         /\ \A i \in 1 .. Len(q) - 1 : Tail(q)[i] = q[i + 1]
OBVIOUS

LEMMA LastOne ==
  ASSUME NEW S, NEW q \in Seq(S), q # <<>>
  PROVE  Tail(q) = <<>> <=> Len(q) = 1
<1> DEFINE l == Tail(q)
<1>1. l \in Seq(S) /\ Len(l) = Len(q) - 1 /\ Len(q) \in Nat
  BY Dequeue
<1> HIDE DEF l
<1>2. l = <<>> <=> Len(l) = 0
  BY <1>1
<1>3. l = <<>> <=> Len(q) = 1
  BY <1>1, <1>2
<1> QED
  BY <1>3 DEF l

\* The messages in a queue from a set, and the same of messages to be sent.
Has(q, M) == \E i \in DOMAIN q : q[i] \in M
Once(q, M) == \A i, j \in DOMAIN q : q[i] \in M /\ q[j] \in M => i = j
Hands(h, M) == \E i \in DOMAIN h : h[i].msg \in M
HandsOnce(h, M) == \A i, j \in DOMAIN h : h[i].msg \in M /\ h[j].msg \in M => i = j
Works(w, M) == w.msg \in M \/ Has(w.tell, M)

LEMMA HasAppend ==
  ASSUME NEW S, NEW q \in Seq(S), NEW x \in S, NEW M, Once(q, M)
  PROVE  /\ Has(Append(q, x), M) <=> (Has(q, M) \/ x \in M)
         /\ ~(Has(q, M) /\ x \in M) => Once(Append(q, x), M)
<1> DEFINE l == Append(q, x)
<1>1. /\ Len(q) \in Nat /\ DOMAIN q = 1 .. Len(q) /\ DOMAIN l = 1 .. Len(q) + 1
      /\ l[Len(q) + 1] = x /\ \A i \in 1 .. Len(q) : l[i] = q[i]
  BY Enqueue
<1> HIDE DEF l
<1>2. DOMAIN l = DOMAIN q \cup {Len(q) + 1} /\ Len(q) + 1 \notin DOMAIN q
  BY <1>1
<1>3. Has(l, M) <=> (Has(q, M) \/ x \in M)
  BY <1>1, <1>2 DEF Has
<1>4. ~(Has(q, M) /\ x \in M) => Once(l, M)
  BY <1>1, <1>2 DEF Has, Once
<1> QED
  BY <1>3, <1>4 DEF l

LEMMA HasTail ==
  ASSUME NEW S, NEW q \in Seq(S), q # <<>>, NEW M, Once(q, M)
  PROVE  /\ Has(q, M) <=> (Has(Tail(q), M) \/ Head(q) \in M)
         /\ Head(q) \in M => ~Has(Tail(q), M)
         /\ Once(Tail(q), M)
<1> DEFINE l == Tail(q)
<1>1. /\ Len(q) \in Nat \ {0} /\ DOMAIN q = 1 .. Len(q) /\ DOMAIN l = 1 .. Len(q) - 1
      /\ Head(q) = q[1] /\ \A i \in 1 .. Len(q) - 1 : l[i] = q[i + 1]
  BY Dequeue
<1> HIDE DEF l
<1>2. \A i \in DOMAIN l : i + 1 \in DOMAIN q /\ i + 1 # 1 /\ l[i] = q[i + 1]
  BY <1>1
<1>3. \A j \in DOMAIN q : j # 1 => j - 1 \in DOMAIN l /\ l[j - 1] = q[j]
  BY <1>1
<1>4. 1 \in DOMAIN q
  BY <1>1
<1>5. Has(q, M) <=> (Has(l, M) \/ Head(q) \in M)
  BY <1>1, <1>2, <1>3, <1>4 DEF Has
<1>6. Head(q) \in M => ~Has(l, M)
  BY <1>1, <1>2, <1>4 DEF Has, Once
<1>7. Once(l, M)
  <2> SUFFICES ASSUME NEW i \in DOMAIN l, NEW j \in DOMAIN l, l[i] \in M, l[j] \in M PROVE i = j
    BY DEF Once
  <2>1. i + 1 = j + 1
    BY <1>2 DEF Once
  <2> QED
    BY <1>1, <2>1
<1> QED
  BY <1>5, <1>6, <1>7 DEF l

LEMMA HandsTail ==
  ASSUME NEW S, NEW h \in Seq(S), h # <<>>, NEW M, HandsOnce(h, M)
  PROVE  /\ Hands(h, M) <=> (Hands(Tail(h), M) \/ Head(h).msg \in M)
         /\ Head(h).msg \in M => ~Hands(Tail(h), M)
         /\ HandsOnce(Tail(h), M)
<1> DEFINE l == Tail(h)
<1>1. /\ Len(h) \in Nat \ {0} /\ DOMAIN h = 1 .. Len(h) /\ DOMAIN l = 1 .. Len(h) - 1
      /\ Head(h) = h[1] /\ \A i \in 1 .. Len(h) - 1 : l[i] = h[i + 1]
  BY Dequeue
<1> HIDE DEF l
<1>2. \A i \in DOMAIN l : i + 1 \in DOMAIN h /\ i + 1 # 1 /\ l[i] = h[i + 1]
  BY <1>1
<1>3. \A j \in DOMAIN h : j # 1 => j - 1 \in DOMAIN l /\ l[j - 1] = h[j]
  BY <1>1
<1>4. 1 \in DOMAIN h
  BY <1>1
<1>5. Hands(h, M) <=> (Hands(l, M) \/ Head(h).msg \in M)
  BY <1>1, <1>2, <1>3, <1>4 DEF Hands
<1>6. Head(h).msg \in M => ~Hands(l, M)
  BY <1>1, <1>2, <1>4 DEF Hands, HandsOnce
<1>7. HandsOnce(l, M)
  <2> SUFFICES ASSUME NEW i \in DOMAIN l, NEW j \in DOMAIN l, l[i].msg \in M, l[j].msg \in M PROVE i = j
    BY DEF HandsOnce
  <2>1. i + 1 = j + 1
    BY <1>2 DEF HandsOnce
  <2> QED
    BY <1>1, <2>1
<1> QED
  BY <1>5, <1>6, <1>7 DEF l

-----------------------------------------------------------------------------
(* The channels, the hands and the workers.                                  *)

ChanOK(ch) ==
  /\ ch \in [Channels -> Seq(Messages)]
  /\ \A c \in Channels : ch[c] \in Seq(Carried(c)) /\ Len(ch[c]) <= Capacity

\* What t may send.
Sendable(o, t) ==
  o.to \in Outlets(t) /\ (t \in Nodes /\ o.msg \in Events => o.msg.node = t)
HandOK(h) ==
  /\ h \in [Tasks -> Seq(Outgoing)]
  /\ \A t \in Tasks : /\ Len(h[t]) <= 2
                      /\ \A i, j \in DOMAIN h[t] : h[t][i].to = h[t][j].to => i = j
                      /\ \A i \in DOMAIN h[t] : Sendable(h[t][i], t)

ChanHolders(ch, M) == {<<"chan", c>> : c \in {d \in Channels : Has(ch[d], M)}}
HandHolders(h, M) == {<<"hand", t>> : t \in {u \in Tasks : Hands(h[u], M)}}
WorkHolders(ws, M) == {<<"work", w>> : w \in {v \in ws : Works(v, M)}}
ChanOnce(ch, M) == \A c \in Channels : Once(ch[c], M)
HandOnce(h, M) == \A t \in Tasks : HandsOnce(h[t], M)

\* What a step at one queue does to the holders of M.
PutAt(old, new, c, m, M) ==
  /\ ChanHolders(new, M) = ChanHolders(old, M) \cup (IF m \in M THEN {<<"chan", c>>} ELSE {})
  /\ ~(m \in M /\ <<"chan", c>> \in ChanHolders(old, M)) => ChanOnce(new, M)
TookAt(old, new, c, m, M) ==
  /\ ChanHolders(new, M) = ChanHolders(old, M) \ (IF m \in M THEN {<<"chan", c>>} ELSE {})
  /\ m \in M => <<"chan", c>> \in ChanHolders(old, M)
  /\ ChanOnce(new, M)
HeldAt(old, new, t, m, M) ==
  /\ HandHolders(new, M) = HandHolders(old, M) \cup (IF m \in M THEN {<<"hand", t>>} ELSE {})
  /\ HandOnce(new, M)
SentAt(old, new, t, m, M) ==
  /\ HandHolders(new, M) = HandHolders(old, M) \ (IF m \in M THEN {<<"hand", t>>} ELSE {})
  /\ m \in M => <<"hand", t>> \in HandHolders(old, M)
  /\ HandOnce(new, M)

LEMMA Tags ==
  ASSUME NEW M, NEW ch, NEW h, NEW ws, NEW x
  PROVE  /\ <<"hand", x>> \notin ChanHolders(ch, M) /\ <<"hand", x>> \notin WorkHolders(ws, M)
         /\ <<"chan", x>> \notin HandHolders(h, M) /\ <<"chan", x>> \notin WorkHolders(ws, M)
         /\ <<"work", x>> \notin ChanHolders(ch, M) /\ <<"work", x>> \notin HandHolders(h, M)
BY DEF ChanHolders, HandHolders, WorkHolders

LEMMA OnlyOne ==
  ASSUME NEW A, NEW B, NEW C, NEW x, \A y, z \in A \cup B \cup C : y = z
  PROVE  /\ x \in A /\ x \notin B /\ x \notin C => A = {x} /\ B = {} /\ C = {}
         /\ x \in B /\ x \notin A /\ x \notin C => A = {} /\ B = {x} /\ C = {}
         /\ x \in C /\ x \notin A /\ x \notin B => A = {} /\ B = {} /\ C = {x}
OBVIOUS

AllHolders(ch, h, ws, M) == ChanHolders(ch, M) \cup HandHolders(h, M) \cup WorkHolders(ws, M)
OneHeld(ch, h, ws, M) ==
  /\ \A x, y \in AllHolders(ch, h, ws, M) : x = y
  /\ ChanOnce(ch, M) /\ HandOnce(h, M)

LEMMA OnlyChan ==
  ASSUME NEW M, NEW ch, NEW h, NEW ws, OneHeld(ch, h, ws, M), NEW x,
         <<"chan", x>> \in ChanHolders(ch, M)
  PROVE  ChanHolders(ch, M) = {<<"chan", x>>} /\ HandHolders(h, M) = {} /\ WorkHolders(ws, M) = {}
<1> DEFINE y == <<"chan", x>>
<1>1. y \notin HandHolders(h, M) /\ y \notin WorkHolders(ws, M) /\ y \in ChanHolders(ch, M)
  BY Tags
<1>2. \A v, z \in ChanHolders(ch, M) \cup HandHolders(h, M) \cup WorkHolders(ws, M) : v = z
  BY DEF OneHeld, AllHolders
<1> HIDE DEF y
<1>3. ChanHolders(ch, M) = {y} /\ HandHolders(h, M) = {} /\ WorkHolders(ws, M) = {}
  BY <1>1, <1>2, OnlyOne
<1> QED
  BY <1>3 DEF y

LEMMA OnlyHand ==
  ASSUME NEW M, NEW ch, NEW h, NEW ws, OneHeld(ch, h, ws, M), NEW x,
         <<"hand", x>> \in HandHolders(h, M)
  PROVE  HandHolders(h, M) = {<<"hand", x>>} /\ ChanHolders(ch, M) = {} /\ WorkHolders(ws, M) = {}
<1> DEFINE y == <<"hand", x>>
<1>1. y \notin ChanHolders(ch, M) /\ y \notin WorkHolders(ws, M) /\ y \in HandHolders(h, M)
  BY Tags
<1>2. \A v, z \in ChanHolders(ch, M) \cup HandHolders(h, M) \cup WorkHolders(ws, M) : v = z
  BY DEF OneHeld, AllHolders
<1> HIDE DEF y
<1>3. HandHolders(h, M) = {y} /\ ChanHolders(ch, M) = {} /\ WorkHolders(ws, M) = {}
  BY <1>1, <1>2, OnlyOne
<1> QED
  BY <1>3 DEF y

LEMMA OnlyWork ==
  ASSUME NEW M, NEW ch, NEW h, NEW ws, OneHeld(ch, h, ws, M), NEW x,
         <<"work", x>> \in WorkHolders(ws, M)
  PROVE  WorkHolders(ws, M) = {<<"work", x>>} /\ ChanHolders(ch, M) = {} /\ HandHolders(h, M) = {}
<1> DEFINE y == <<"work", x>>
<1>1. y \notin ChanHolders(ch, M) /\ y \notin HandHolders(h, M) /\ y \in WorkHolders(ws, M)
  BY Tags
<1>2. \A v, z \in ChanHolders(ch, M) \cup HandHolders(h, M) \cup WorkHolders(ws, M) : v = z
  BY DEF OneHeld, AllHolders
<1> HIDE DEF y
<1>3. WorkHolders(ws, M) = {y} /\ ChanHolders(ch, M) = {} /\ HandHolders(h, M) = {}
  BY <1>1, <1>2, OnlyOne
<1> QED
  BY <1>3 DEF y

LEMMA HoldersSplit ==
  ASSUME NEW M
  PROVE  /\ Holders(M) = AllHolders(chan, hand, workers, M)
         /\ AtMostOne(M) <=> OneHeld(chan, hand, workers, M)
<1>1. Holders(M) = AllHolders(chan, hand, workers, M)
  BY Zenon DEF Holders, AllHolders, ChanHolders, HandHolders, WorkHolders, Has, Hands, Works
<1>2. AtMostOne(M) <=> OneHeld(chan, hand, workers, M)
  BY <1>1, Zenon DEF AtMostOne, OneHeld, ChanOnce, HandOnce, Once, HandsOnce
<1> QED
  BY <1>1, <1>2

LEMMA HoldersNext ==
  ASSUME NEW M
  PROVE  /\ Holders(M)' = AllHolders(chan', hand', workers', M)
         /\ AtMostOne(M)' <=> OneHeld(chan', hand', workers', M)
<1>1. Holders(M)' = AllHolders(chan', hand', workers', M)
  BY Zenon DEF Holders, AllHolders, ChanHolders, HandHolders, WorkHolders, Has, Hands, Works
<1>2. AtMostOne(M)' <=> OneHeld(chan', hand', workers', M)
  BY <1>1, Zenon DEF AtMostOne, OneHeld, ChanOnce, HandOnce, Once, HandsOnce
<1> QED
  BY <1>1, <1>2

LEMMA Put ==
  ASSUME NEW ch, ChanOK(ch), NEW c \in Channels, NEW m \in Carried(c), m \in Messages,
         Len(ch[c]) < Capacity, Capacity \in Nat, NEW n, n = [ch EXCEPT ![c] = Append(@, m)]
  PROVE  /\ ChanOK(n) /\ n[c] = Append(ch[c], m) /\ \A d \in Channels \ {c} : n[d] = ch[d]
<1>1. /\ n \in [Channels -> Seq(Messages)]
      /\ n[c] = Append(ch[c], m) /\ \A d \in Channels \ {c} : n[d] = ch[d]
  BY DEF ChanOK
<1>2. n[c] \in Seq(Carried(c)) /\ Len(n[c]) <= Capacity
  BY <1>1, Enqueue DEF ChanOK
<1>3. ChanOK(n)
  BY <1>1, <1>2 DEF ChanOK
<1> QED
  BY <1>1, <1>3

LEMMA PutHolders ==
  ASSUME NEW ch, ChanOK(ch), NEW c \in Channels, NEW m \in Carried(c), m \in Messages,
         Len(ch[c]) < Capacity, Capacity \in Nat, NEW n, n = [ch EXCEPT ![c] = Append(@, m)],
         NEW M, ChanOnce(ch, M)
  PROVE  PutAt(ch, n, c, m, M)
<1>1. /\ n \in [Channels -> Seq(Messages)]
      /\ n[c] = Append(ch[c], m) /\ \A d \in Channels \ {c} : n[d] = ch[d]
  BY DEF ChanOK
<1>2. /\ Has(n[c], M) <=> (Has(ch[c], M) \/ m \in M)
      /\ ~(Has(ch[c], M) /\ m \in M) => Once(n[c], M)
  BY <1>1, HasAppend DEF ChanOK, ChanOnce
<1>3. \A d \in Channels \ {c} : Has(n[d], M) <=> Has(ch[d], M)
  BY <1>1
<1>4. ChanHolders(n, M) = ChanHolders(ch, M) \cup (IF m \in M THEN {<<"chan", c>>} ELSE {})
  BY <1>2, <1>3 DEF ChanHolders
<1>5. Has(ch[c], M) => <<"chan", c>> \in ChanHolders(ch, M)
  BY DEF ChanHolders
<1>6. ~(m \in M /\ <<"chan", c>> \in ChanHolders(ch, M)) => ChanOnce(n, M)
  BY <1>1, <1>2, <1>5 DEF ChanOnce
<1> QED
  BY <1>4, <1>6 DEF PutAt

LEMMA Took ==
  ASSUME NEW ch, ChanOK(ch), NEW c \in Channels, ch[c] # <<>>, Capacity \in Nat,
         NEW n, n = [ch EXCEPT ![c] = Tail(@)]
  PROVE  /\ ChanOK(n) /\ n[c] = Tail(ch[c]) /\ \A d \in Channels \ {c} : n[d] = ch[d]
         /\ Head(ch[c]) \in Carried(c) /\ Head(ch[c]) \in Messages
<1>1. /\ n[c] = Tail(ch[c]) /\ \A d \in Channels \ {c} : n[d] = ch[d]
      /\ ch[c] \in Seq(Carried(c)) /\ ch[c] \in Seq(Messages)
  BY DEF ChanOK
<1>2. /\ n[c] \in Seq(Carried(c)) /\ n[c] \in Seq(Messages) /\ Len(n[c]) <= Capacity
      /\ Head(ch[c]) \in Carried(c) /\ Head(ch[c]) \in Messages
  <2>1. /\ Tail(ch[c]) \in Seq(Carried(c)) /\ Len(Tail(ch[c])) = Len(ch[c]) - 1
        /\ Len(ch[c]) \in Nat /\ Head(ch[c]) \in Carried(c)
    BY <1>1, Dequeue
  <2>2. Tail(ch[c]) \in Seq(Messages) /\ Head(ch[c]) \in Messages
    BY <1>1, Dequeue
  <2> QED
    BY <1>1, <2>1, <2>2 DEF ChanOK
<1>3. ChanOK(n)
  BY <1>1, <1>2 DEF ChanOK
<1> QED
  BY <1>1, <1>2, <1>3

LEMMA TookHolders ==
  ASSUME NEW ch, ChanOK(ch), NEW c \in Channels, ch[c] # <<>>, Capacity \in Nat,
         NEW n, n = [ch EXCEPT ![c] = Tail(@)],
         NEW M, ChanOnce(ch, M)
  PROVE  TookAt(ch, n, c, Head(ch[c]), M)
<1>1. /\ n[c] = Tail(ch[c]) /\ \A d \in Channels \ {c} : n[d] = ch[d]
      /\ ch[c] \in Seq(Carried(c)) /\ ch[c] \in Seq(Messages)
  BY DEF ChanOK
<1>2. /\ Has(ch[c], M) <=> (Has(n[c], M) \/ Head(ch[c]) \in M)
      /\ Head(ch[c]) \in M => ~Has(n[c], M)
      /\ Once(n[c], M)
  BY <1>1, HasTail DEF ChanOnce
<1>3. \A d \in Channels \ {c} : Has(n[d], M) <=> Has(ch[d], M)
  BY <1>1
<1>4. ChanHolders(n, M) = ChanHolders(ch, M) \ (IF Head(ch[c]) \in M THEN {<<"chan", c>>} ELSE {})
  BY <1>2, <1>3 DEF ChanHolders
<1>5. Has(ch[c], M) => <<"chan", c>> \in ChanHolders(ch, M)
  BY DEF ChanHolders
<1> QED
  BY <1>1, <1>2, <1>4, <1>5 DEF ChanOnce, TookAt

LEMMA Holds1 ==
  ASSUME NEW h, HandOK(h), NEW t \in Tasks, NEW o \in Outgoing, Sendable(o, t),
         NEW n, n = [h EXCEPT ![t] = <<o>>]
  PROVE  /\ HandOK(n) /\ n[t] = <<o>> /\ \A u \in Tasks \ {t} : n[u] = h[u]
<1>1. n[t] = <<o>> /\ \A u \in Tasks \ {t} : n[u] = h[u]
  BY DEF HandOK
<1>2. /\ <<o>> \in Seq(Outgoing) /\ Len(<<o>>) = 1 /\ DOMAIN <<o>> = {1} /\ <<o>>[1] = o
      /\ \A i, j \in {1} : i = j
  OBVIOUS
<1>3. n \in [Tasks -> Seq(Outgoing)]
  BY <1>2 DEF HandOK
<1>4. /\ Len(n[t]) <= 2 /\ DOMAIN n[t] = {1} /\ n[t][1] = o
  <2> DEFINE s == <<o>>
  <2>1. Len(s) <= 2 /\ DOMAIN s = {1} /\ s[1] = o /\ n[t] = s
    BY <1>1
  <2> HIDE DEF s
  <2> QED
    BY <2>1
<1>5. HandOK(n)
  BY <1>1, <1>3, <1>4 DEF HandOK
<1> QED
  BY <1>1, <1>5

LEMMA Holds1Holders ==
  ASSUME NEW h, HandOK(h), NEW t \in Tasks, NEW o \in Outgoing, Sendable(o, t),
         NEW n, n = [h EXCEPT ![t] = <<o>>],
         NEW M, HandOnce(h, M), h[t] = <<>>
  PROVE  HeldAt(h, n, t, o.msg, M)
<1>1. n[t] = <<o>> /\ \A u \in Tasks \ {t} : n[u] = h[u]
  BY DEF HandOK
<1>2. /\ Len(n[t]) <= 2 /\ DOMAIN n[t] = {1} /\ n[t][1] = o
  <2> DEFINE s == <<o>>
  <2>1. Len(s) <= 2 /\ DOMAIN s = {1} /\ s[1] = o /\ n[t] = s
    BY <1>1
  <2> HIDE DEF s
  <2> QED
    BY <2>1
<1>3. ~Hands(h[t], M)
  BY DEF Hands
<1>4. Hands(n[t], M) <=> o.msg \in M
  BY <1>2 DEF Hands
<1>5. \A u \in Tasks \ {t} : Hands(n[u], M) <=> Hands(h[u], M)
  BY <1>1
<1>6. HandHolders(n, M) = HandHolders(h, M) \cup (IF o.msg \in M THEN {<<"hand", t>>} ELSE {})
  BY <1>3, <1>4, <1>5 DEF HandHolders
<1>7. HandsOnce(n[t], M)
  BY <1>2 DEF HandsOnce
<1> QED
  BY <1>1, <1>6, <1>7 DEF HandOnce, HeldAt

LEMMA Holds2 ==
  ASSUME NEW h, HandOK(h), NEW t \in Tasks, NEW o \in Outgoing, NEW p \in Outgoing,
         Sendable(o, t), Sendable(p, t), o.to # p.to, NEW n, n = [h EXCEPT ![t] = <<o, p>>]
  PROVE  /\ HandOK(n) /\ n[t] = <<o, p>> /\ \A u \in Tasks \ {t} : n[u] = h[u]
<1>1. n[t] = <<o, p>> /\ \A u \in Tasks \ {t} : n[u] = h[u]
  BY DEF HandOK
<1>2. /\ <<o, p>> \in Seq(Outgoing) /\ Len(<<o, p>>) = 2 /\ DOMAIN <<o, p>> = {1, 2}
      /\ <<o, p>>[1] = o /\ <<o, p>>[2] = p
  OBVIOUS
<1>3. n \in [Tasks -> Seq(Outgoing)]
  BY <1>2 DEF HandOK
<1>4. Len(n[t]) <= 2 /\ DOMAIN n[t] = {1, 2} /\ n[t][1] = o /\ n[t][2] = p
  <2> DEFINE s == <<o, p>>
  <2>1. Len(s) <= 2 /\ DOMAIN s = {1, 2} /\ s[1] = o /\ s[2] = p /\ n[t] = s
    BY <1>1
  <2> HIDE DEF s
  <2> QED
    BY <2>1
<1>5. HandOK(n)
  BY <1>1, <1>3, <1>4 DEF HandOK
<1> QED
  BY <1>1, <1>5

LEMMA Holds2Holders ==
  ASSUME NEW h, HandOK(h), NEW t \in Tasks, NEW o \in Outgoing, NEW p \in Outgoing,
         Sendable(o, t), Sendable(p, t), o.to # p.to, NEW n, n = [h EXCEPT ![t] = <<o, p>>],
         NEW M, HandOnce(h, M), h[t] = <<>>, o.msg \notin M, p.msg \notin M
  PROVE  HeldAt(h, n, t, o.msg, M)
<1>1. n[t] = <<o, p>> /\ \A u \in Tasks \ {t} : n[u] = h[u]
  BY DEF HandOK
<1>2. Len(n[t]) <= 2 /\ DOMAIN n[t] = {1, 2} /\ n[t][1] = o /\ n[t][2] = p
  <2> DEFINE s == <<o, p>>
  <2>1. Len(s) <= 2 /\ DOMAIN s = {1, 2} /\ s[1] = o /\ s[2] = p /\ n[t] = s
    BY <1>1
  <2> HIDE DEF s
  <2> QED
    BY <2>1
<1>3. ~Hands(h[t], M)
  BY DEF Hands
<1>4. ~Hands(n[t], M)
  BY <1>2 DEF Hands
<1>5. \A u \in Tasks \ {t} : Hands(n[u], M) <=> Hands(h[u], M)
  BY <1>1
<1>6. HandHolders(n, M) = HandHolders(h, M)
  BY <1>3, <1>4, <1>5 DEF HandHolders
<1>7. HandsOnce(n[t], M)
  BY <1>2 DEF HandsOnce
<1> QED
  BY <1>1, <1>6, <1>7 DEF HandOnce, HeldAt

LEMMA Sent ==
  ASSUME NEW h, HandOK(h), NEW t \in Tasks, h[t] # <<>>, NEW n, n = [h EXCEPT ![t] = Tail(@)]
  PROVE  /\ HandOK(n) /\ n[t] = Tail(h[t]) /\ \A u \in Tasks \ {t} : n[u] = h[u]
         /\ Head(h[t]) \in Outgoing /\ Sendable(Head(h[t]), t)
<1>1. /\ n[t] = Tail(h[t]) /\ \A u \in Tasks \ {t} : n[u] = h[u]
      /\ h[t] \in Seq(Outgoing)
  BY DEF HandOK
<1>2. /\ Tail(h[t]) \in Seq(Outgoing) /\ Len(Tail(h[t])) = Len(h[t]) - 1 /\ Len(h[t]) \in Nat \ {0}
      /\ DOMAIN h[t] = 1 .. Len(h[t]) /\ DOMAIN Tail(h[t]) = 1 .. Len(h[t]) - 1
      /\ Head(h[t]) = h[t][1] /\ Head(h[t]) \in Outgoing
      /\ \A i \in 1 .. Len(h[t]) - 1 : Tail(h[t])[i] = h[t][i + 1]
  BY <1>1, Dequeue
<1>3. n \in [Tasks -> Seq(Outgoing)]
  BY <1>2 DEF HandOK
<1>4. \A i \in DOMAIN n[t] : i + 1 \in DOMAIN h[t] /\ n[t][i] = h[t][i + 1] /\ i \in Nat
  <2> DEFINE l == Tail(h[t])
             k == Len(h[t])
  <2>1. /\ n[t] = l /\ DOMAIN l = 1 .. k - 1 /\ k \in Nat \ {0} /\ DOMAIN h[t] = 1 .. k
        /\ \A i \in 1 .. k - 1 : l[i] = h[t][i + 1]
    BY <1>1, <1>2
  <2> HIDE DEF l, k
  <2>2. \A i \in 1 .. k - 1 : i + 1 \in 1 .. k /\ i \in Nat
    BY <2>1
  <2> QED
    BY <2>1, <2>2
<1>5. \A i, j \in DOMAIN n[t] : n[t][i].to = n[t][j].to => i = j
  <2> SUFFICES ASSUME NEW i \in DOMAIN n[t], NEW j \in DOMAIN n[t], n[t][i].to = n[t][j].to
               PROVE  i = j
    OBVIOUS
  <2>1. i + 1 = j + 1
    BY <1>4 DEF HandOK
  <2> QED
    BY <1>4, <2>1
<1>6. Len(n[t]) <= 2
  BY <1>1, <1>2 DEF HandOK
<1>7. \A i \in DOMAIN n[t] : Sendable(n[t][i], t)
  BY <1>4 DEF HandOK
<1>8. HandOK(n)
  BY <1>1, <1>3, <1>5, <1>6, <1>7 DEF HandOK
<1>9. Sendable(Head(h[t]), t)
  <2>1. 1 \in DOMAIN h[t]
    BY <1>2
  <2> QED
    BY <1>2, <2>1 DEF HandOK
<1> QED
  BY <1>1, <1>2, <1>8, <1>9

LEMMA SentHolders ==
  ASSUME NEW h, HandOK(h), NEW t \in Tasks, h[t] # <<>>, NEW n, n = [h EXCEPT ![t] = Tail(@)],
         NEW M, HandOnce(h, M)
  PROVE  SentAt(h, n, t, Head(h[t]).msg, M)
<1>1. /\ n[t] = Tail(h[t]) /\ \A u \in Tasks \ {t} : n[u] = h[u]
      /\ h[t] \in Seq(Outgoing)
  BY DEF HandOK
<1>2. /\ Hands(h[t], M) <=> (Hands(n[t], M) \/ Head(h[t]).msg \in M)
      /\ Head(h[t]).msg \in M => ~Hands(n[t], M)
      /\ HandsOnce(n[t], M)
  BY <1>1, HandsTail DEF HandOnce
<1>3. \A u \in Tasks \ {t} : Hands(n[u], M) <=> Hands(h[u], M)
  BY <1>1
<1>4. HandHolders(n, M) = HandHolders(h, M)
                           \ (IF Head(h[t]).msg \in M THEN {<<"hand", t>>} ELSE {})
  BY <1>2, <1>3 DEF HandHolders
<1>5. Hands(h[t], M) => <<"hand", t>> \in HandHolders(h, M)
  BY DEF HandHolders
<1> QED
  BY <1>1, <1>2, <1>4, <1>5 DEF HandOnce, SentAt

LEMMA WorkersMore ==
  ASSUME NEW ws, NEW v, NEW M
  PROVE  WorkHolders(ws \cup {v}, M) = WorkHolders(ws, M)
                                         \cup (IF Works(v, M) THEN {<<"work", v>>} ELSE {})
BY DEF WorkHolders

LEMMA WorkersLess ==
  ASSUME NEW ws, NEW w, NEW M
  PROVE  WorkHolders(ws \ {w}, M) = WorkHolders(ws, M) \ {<<"work", w>>}
BY DEF WorkHolders

LEMMA WorkerHolds ==
  ASSUME NEW ws, NEW w \in ws, NEW M
  PROVE  <<"work", w>> \in WorkHolders(ws, M) <=> Works(w, M)
BY DEF WorkHolders

-----------------------------------------------------------------------------
(* Names, kinds and the parts of the invariant.                              *)

LEMMA Names ==
  /\ Askers \subseteq Tasks /\ Clients \subseteq Askers /\ Nodes \subseteq Askers
  /\ {"node_master", "data_master", "db_master"} \subseteq Tasks /\ "node_master" \in Askers
  /\ \A c \in Clients : c \notin Nodes /\ c \notin {"node_master", "data_master", "db_master", "none"}
  /\ \A n \in Nodes : n \notin Clients /\ n \notin {"node_master", "data_master", "db_master", "none"}
  /\ "none" \notin Tasks
  /\ Capacity \in Nat \ {0} /\ FeedCapacity \in Nat \ {0} /\ MaxTries \in Nat \ {0}
  /\ MaxEvents \in Nat /\ MaxChanges \in Nat
BY MessageBusAssumption DEF Askers, Tasks

LEMMA OutletsOf ==
  /\ \A c \in Clients : Outlets(c) = {"from_api"}
  /\ \A n \in Nodes : Outlets(n) = {"from_node"}
  /\ Outlets("node_master") = {"from_reader"}
  /\ Outlets("data_master") = {"to_reader", "to_db", "to_api"}
  /\ Outlets("db_master") = {"measure"}
  /\ \A t \in Tasks : Outlets(t) \subseteq Channels
BY Names DEF Outlets, Tasks, Askers, Channels

LEMMA CarriedIs ==
  /\ Carried("to_reader") = ConfigEvents /\ Carried("from_db") = ConfigEvents
  /\ Carried("from_node") = Events \cup Requests /\ Carried("from_reader") = Events \cup Requests
  /\ Carried("from_api") = Requests \cup Commands
  /\ Carried("to_db") = Events \cup Requests \cup Commands
  /\ Carried("to_api") = Events
  /\ Carried("measure") = {m \in Events \cup Requests : m.kind \in {"DeviceEvent", "GetMeasure"}}
  /\ \A c \in Channels : Carried(c) \subseteq Messages
BY DEF Carried, Channels, Messages

LEMMA Kinds ==
  /\ \A m \in ConfigEvents : m.kind = "ConfigEvent" /\ ~Asks(m)
  /\ \A m \in Events : m.kind \in {"DeviceEvent", "NodeEvent"} /\ ~Asks(m) /\ m.node \in Nodes
  /\ \A m \in Requests : m.kind \in {"Request", "GetMeasure"} /\ Asks(m) /\ m.by \in Askers
  /\ \A m \in Commands : m.kind = "Command" /\ Asks(m) /\ m.by \in Clients
BY Names DEF ConfigEvents, Events, Requests, Commands, Asks

\* The sets of messages that are counted.
Counted(M) == M \subseteq ConfigEvents \/ M \subseteq Requests \cup Commands
Creation(n) == {ConfigEvent("Create", n)}

LEMMA CountedSets ==
  /\ \A a \in Askers : Counted(RequestsBy(a)) /\ RequestsBy(a) \subseteq Requests \cup Commands
  /\ \A n \in Nodes : Counted(Creation(n)) /\ Creation(n) \subseteq ConfigEvents
BY DEF Counted, RequestsBy, Creation, ConfigEvent, ConfigEvents

LEMMA NoEventCounted ==
  ASSUME NEW M, Counted(M), NEW m \in Events
  PROVE  m \notin M
BY Kinds DEF Counted

RestOK ==
  /\ feed \in [Nodes -> Seq(ConfigEvents)] /\ \A n \in Nodes : Len(feed[n]) <= FeedCapacity
  /\ at \in [Tasks -> {"idle", "select", "answer", "devices", "values", "nodes", "lookup",
                       "absent", "gone", "panicked"}]
  /\ workers \subseteq [msg : Requests \cup Commands, tell : Announcements]
  /\ nodes \in [Nodes -> {"none", "present", "deleted"}]
  /\ answer \in [Askers -> {"none", "ok", "failed", "closed"}]
  /\ creating \in [node : Nodes \cup {"none"}, tries : 0 .. MaxTries - 1]
  /\ made \in [Nodes -> Seq(Events)] /\ stored \in [Nodes -> Seq(Events)]
  /\ shown \in [Nodes -> Seq(Events)]
  /\ \A n \in Nodes : Len(made[n]) <= MaxEvents
  /\ changes \in 0 .. MaxChanges
  /\ \A c \in Clients : at[c] = "idle" => hand[c] = <<>>
  /\ at["node_master"] = "nodes" => \A n \in Nodes : at[n] = "absent"

BusOK == ChanOK(chan) /\ HandOK(hand) /\ RestOK

LEMMA Parts == (TypeOK /\ PlacesInv) <=> BusOK
<1>1. (TypeOK /\ PlacesInv) => HandOK(hand)
  BY Zenon DEF TypeOK, PlacesInv, HandOK, Sendable
<1>2. HandOK(hand) => /\ \A t \in Tasks : \A i \in DOMAIN hand[t] : hand[t][i].to \in Outlets(t)
                      /\ \A n \in Nodes : \A i \in DOMAIN hand[n] :
                           hand[n][i].msg \in Events => hand[n][i].msg.node = n
  BY Names DEF HandOK, Sendable
<1> QED
  BY <1>1, <1>2 DEF TypeOK, PlacesInv, BusOK, ChanOK, HandOK, RestOK

\* The invariants of one asker and of one node.
Asker(ch, h, ws, p, an, a) ==
  LET waits == p[a] \in {"answer", "devices", "values", "nodes", "lookup"}
  IN  /\ OneHeld(ch, h, ws, RequestsBy(a))
      /\ AllHolders(ch, h, ws, RequestsBy(a)) # {} <=> (waits /\ an[a] = "none")
      /\ ~waits => an[a] = "none"
Announced(ch, h, ws, p, ns, cr, n) ==
  /\ OneHeld(ch, h, ws, Creation(n))
  /\ AllHolders(ch, h, ws, Creation(n)) # {} => cr # n
  /\ AllHolders(ch, h, ws, Creation(n)) # {} \/ cr = n
     => ns[n] # "none" /\ n \notin Initial /\ p[n] = "absent"
  /\ ns[n] = "none" => n \notin Initial /\ p[n] = "absent"

LEMMA InvariantsSplit ==
  /\ RequestsInv <=> \A a \in Askers : Asker(chan, hand, workers, at, answer, a)
  /\ CreatesInv <=>
       \A n \in Nodes : Announced(chan, hand, workers, at, nodes, creating.node, n)
<1>1. ASSUME NEW a \in Askers
      PROVE  Asker(chan, hand, workers, at, answer, a)
             <=> /\ AtMostOne(RequestsBy(a))
                 /\ Holders(RequestsBy(a)) # {} <=> Due(a)
                 /\ ~Waits(a) => answer[a] = "none"
  <2>1. /\ Holders(RequestsBy(a)) = AllHolders(chan, hand, workers, RequestsBy(a))
        /\ AtMostOne(RequestsBy(a)) <=> OneHeld(chan, hand, workers, RequestsBy(a))
    BY HoldersSplit
  <2> QED
    BY <2>1 DEF Asker, Due, Waits
<1>2. ASSUME NEW n \in Nodes
      PROVE  Announced(chan, hand, workers, at, nodes, creating.node, n)
             <=> /\ AtMostOne(Creation(n))
                 /\ Holders(Creation(n)) # {} => creating.node # n
                 /\ Holders(Creation(n)) # {} \/ creating.node = n
                    => nodes[n] # "none" /\ n \notin Initial /\ at[n] = "absent"
                 /\ nodes[n] = "none" => n \notin Initial /\ at[n] = "absent"
  <2>1. /\ Holders(Creation(n)) = AllHolders(chan, hand, workers, Creation(n))
        /\ AtMostOne(Creation(n)) <=> OneHeld(chan, hand, workers, Creation(n))
    BY HoldersSplit
  <2> QED
    BY <2>1 DEF Announced
<1>3. RequestsInv <=> \A a \in Askers : Asker(chan, hand, workers, at, answer, a)
  BY <1>1 DEF RequestsInv
<1>4. CreatesInv <=>
        \A n \in Nodes : Announced(chan, hand, workers, at, nodes, creating.node, n)
  BY <1>2 DEF CreatesInv, Creation
<1> QED
  BY <1>3, <1>4

LEMMA InvariantsNext ==
  /\ RequestsInv' <=> \A a \in Askers : Asker(chan', hand', workers', at', answer', a)
  /\ CreatesInv' <=>
       \A n \in Nodes : Announced(chan', hand', workers', at', nodes', creating'.node, n)
<1>1. ASSUME NEW a \in Askers
      PROVE  Asker(chan', hand', workers', at', answer', a)
             <=> /\ AtMostOne(RequestsBy(a))'
                 /\ Holders(RequestsBy(a))' # {} <=> Due(a)'
                 /\ ~Waits(a)' => answer'[a] = "none"
  <2>1. /\ Holders(RequestsBy(a))' = AllHolders(chan', hand', workers', RequestsBy(a))
        /\ AtMostOne(RequestsBy(a))' <=> OneHeld(chan', hand', workers', RequestsBy(a))
    BY HoldersNext
  <2> QED
    BY <2>1 DEF Asker, Due, Waits
<1>2. ASSUME NEW n \in Nodes
      PROVE  Announced(chan', hand', workers', at', nodes', creating'.node, n)
             <=> /\ AtMostOne(Creation(n))'
                 /\ Holders(Creation(n))' # {} => creating'.node # n
                 /\ Holders(Creation(n))' # {} \/ creating'.node = n
                    => nodes'[n] # "none" /\ n \notin Initial /\ at'[n] = "absent"
                 /\ nodes'[n] = "none" => n \notin Initial /\ at'[n] = "absent"
  <2>1. /\ Holders(Creation(n))' = AllHolders(chan', hand', workers', Creation(n))
        /\ AtMostOne(Creation(n))' <=> OneHeld(chan', hand', workers', Creation(n))
    BY HoldersNext
  <2> QED
    BY <2>1 DEF Announced
<1>3. RequestsInv' <=> \A a \in Askers : Asker(chan', hand', workers', at', answer', a)
  BY <1>1 DEF RequestsInv
<1>4. CreatesInv' <=>
        \A n \in Nodes : Announced(chan', hand', workers', at', nodes', creating'.node, n)
  BY <1>2 DEF CreatesInv, Creation
<1> QED
  BY <1>3, <1>4

\* M has the same number of messages after the step.
Steady(M) ==
  /\ OneHeld(chan', hand', workers', M)
  /\ AllHolders(chan', hand', workers', M) # {} <=> AllHolders(chan, hand, workers, M) # {}
AllSteady == \A M : Counted(M) /\ OneHeld(chan, hand, workers, M) => Steady(M)

\* The invariants of requests and announcements when nobody goes on.
LEMMA SteadyKeeps ==
  ASSUME RequestsInv, CreatesInv, AllSteady, UNCHANGED <<at, answer, creating, nodes>>
  PROVE  RequestsInv' /\ CreatesInv'
<1>1. ASSUME NEW a \in Askers
      PROVE  Asker(chan', hand', workers', at', answer', a)
  <2>1. Asker(chan, hand, workers, at, answer, a)
    BY InvariantsSplit
  <2>2. Steady(RequestsBy(a))
    BY <2>1, CountedSets DEF Asker, AllSteady
  <2> QED
    BY <2>1, <2>2 DEF Steady, Asker
<1>2. ASSUME NEW n \in Nodes
      PROVE  Announced(chan', hand', workers', at', nodes', creating'.node, n)
  <2>1. Announced(chan, hand, workers, at, nodes, creating.node, n)
    BY InvariantsSplit
  <2>2. Steady(Creation(n))
    BY <2>1, CountedSets DEF Announced, AllSteady
  <2> QED
    BY <2>1, <2>2 DEF Steady, Announced
<1> QED
  BY <1>1, <1>2, InvariantsNext

\* The invariants when one asker goes on; the announcements may become fewer.
LEMMA RequestsKept ==
  ASSUME RequestsInv, NEW b \in Askers, Asker(chan', hand', workers', at', answer', b),
         \A a \in Askers \ {b} :
           /\ at'[a] = at[a] /\ answer'[a] = answer[a]
           /\ OneHeld(chan, hand, workers, RequestsBy(a)) => Steady(RequestsBy(a))
  PROVE  RequestsInv'
<1>1. ASSUME NEW a \in Askers \ {b}
      PROVE  Asker(chan', hand', workers', at', answer', a)
  <2>1. Asker(chan, hand, workers, at, answer, a)
    BY InvariantsSplit
  <2>2. Steady(RequestsBy(a))
    BY <2>1 DEF Asker
  <2> QED
    BY <2>1, <2>2 DEF Steady, Asker
<1> QED
  BY <1>1, InvariantsNext

Fewer(M) ==
  /\ OneHeld(chan', hand', workers', M)
  /\ AllHolders(chan', hand', workers', M) # {} => AllHolders(chan, hand, workers, M) # {}

LEMMA CreatesKept ==
  ASSUME CreatesInv,
         \A n \in Nodes :
           /\ nodes'[n] = nodes[n] /\ (at[n] = "absent" => at'[n] = "absent")
           /\ creating'.node = n => creating.node = n
           /\ OneHeld(chan, hand, workers, Creation(n)) => Fewer(Creation(n))
  PROVE  CreatesInv'
<1>1. ASSUME NEW n \in Nodes
      PROVE  Announced(chan', hand', workers', at', nodes', creating'.node, n)
  <2>1. Announced(chan, hand, workers, at, nodes, creating.node, n)
    BY InvariantsSplit
  <2>2. Fewer(Creation(n))
    BY <2>1 DEF Announced
  <2> QED
    BY <2>1, <2>2 DEF Fewer, Announced
<1> QED
  BY <1>1, InvariantsNext

-----------------------------------------------------------------------------
(* Steps that move a message.                                                *)

LEMMA SendStep ==
  ASSUME BusOK, NEW t \in Tasks, Send(t)
  PROVE  BusOK' /\ AllSteady
<1> DEFINE o == Head(hand[t])
           c == o.to
<1>1. /\ ChanOK(chan) /\ HandOK(hand) /\ RestOK /\ Capacity \in Nat
  BY Names DEF BusOK
<1>2. /\ hand[t] # <<>> /\ Len(chan[c]) < Capacity
      /\ chan' = [chan EXCEPT ![c] = Append(@, o.msg)]
      /\ hand' = [hand EXCEPT ![t] = Tail(@)]
      /\ UNCHANGED <<feed, at, workers, answer, creating, history>>
  BY DEF Send, Room
<1>3. HandOK(hand') /\ o \in Outgoing /\ \A u \in Tasks \ {t} : hand'[u] = hand[u]
  <2>1. HandOK(hand')
    BY <1>1, <1>2, Sent
  <2>2. Head(hand[t]) \in Outgoing /\ \A u \in Tasks \ {t} : hand'[u] = hand[u]
    BY <1>1, <1>2, Sent
  <2> QED
    BY <2>1, <2>2
<1>4. c \in Channels /\ o.msg \in Carried(c) /\ o.msg \in Messages
  BY <1>3 DEF Outgoing
<1>5. ChanOK(chan')
  BY <1>1, <1>2, <1>4, Put
<1>6. RestOK'
  BY <1>1, <1>2, <1>3, Names DEF RestOK, history
<1>7. ASSUME NEW M, OneHeld(chan, hand, workers, M)
      PROVE  Steady(M)
  <2>1. ChanOnce(chan, M) /\ HandOnce(hand, M)
    BY <1>7 DEF OneHeld
  <2>2. SentAt(hand, hand', t, o.msg, M)
    BY <1>1, <1>2, <2>1, SentHolders
  <2>3. PutAt(chan, chan', c, o.msg, M)
    BY <1>1, <1>2, <1>4, <2>1, PutHolders
  <2>4. workers' = workers
    BY <1>2
  <2> HIDE DEF o, c
  <2>5. CASE o.msg \in M
    <3>1. /\ ChanHolders(chan, M) = {} /\ HandHolders(hand, M) = {<<"hand", t>>}
          /\ WorkHolders(workers, M) = {}
      BY <1>7, <2>2, <2>5, OnlyHand DEF SentAt
    <3>2. /\ ChanHolders(chan', M) = {<<"chan", c>>} /\ HandHolders(hand', M) = {}
          /\ ChanOnce(chan', M) /\ HandOnce(hand', M)
      BY <2>2, <2>3, <2>5, <3>1 DEF SentAt, PutAt
    <3> QED
      BY <2>4, <3>1, <3>2 DEF Steady, OneHeld, AllHolders
  <2>6. CASE o.msg \notin M
    <3>1. /\ AllHolders(chan', hand', workers', M) = AllHolders(chan, hand, workers, M)
          /\ ChanOnce(chan', M) /\ HandOnce(hand', M)
      BY <2>2, <2>3, <2>4, <2>6 DEF SentAt, PutAt, AllHolders
    <3> QED
      BY <1>7, <3>1 DEF Steady, OneHeld
  <2> QED
    BY <2>5, <2>6
<1> QED
  BY <1>3, <1>5, <1>6, <1>7 DEF BusOK, AllSteady

\* A message taken from a channel and held, worked on, or gone.
LEMMA TakeToHand ==
  ASSUME NEW M, OneHeld(chan, hand, workers, M), NEW c, NEW t, NEW m,
         TookAt(chan, chan', c, m, M), HeldAt(hand, hand', t, m, M), workers' = workers
  PROVE  Steady(M)
<1>1. CASE m \in M
  <2>1. /\ ChanHolders(chan, M) = {<<"chan", c>>} /\ HandHolders(hand, M) = {}
        /\ WorkHolders(workers, M) = {}
    BY <1>1, OnlyChan DEF TookAt
  <2>2. /\ ChanHolders(chan', M) = {} /\ HandHolders(hand', M) = {<<"hand", t>>}
        /\ ChanOnce(chan', M) /\ HandOnce(hand', M)
    BY <1>1, <2>1 DEF TookAt, HeldAt
  <2> QED
    BY <2>1, <2>2 DEF Steady, OneHeld, AllHolders
<1>2. CASE m \notin M
  <2>1. /\ AllHolders(chan', hand', workers', M) = AllHolders(chan, hand, workers, M)
        /\ ChanOnce(chan', M) /\ HandOnce(hand', M)
    BY <1>2 DEF TookAt, HeldAt, AllHolders
  <2> QED
    BY <2>1 DEF Steady, OneHeld
<1> QED
  BY <1>1, <1>2

LEMMA TakeToWork ==
  ASSUME NEW M, OneHeld(chan, hand, workers, M), NEW c, NEW v, NEW m,
         TookAt(chan, chan', c, m, M), hand' = hand, workers' = workers \cup {v},
         Works(v, M) <=> m \in M
  PROVE  Steady(M)
<1>1. HandOnce(hand', M) /\ HandHolders(hand', M) = HandHolders(hand, M)
  BY DEF OneHeld
<1>2. WorkHolders(workers', M)
        = WorkHolders(workers, M) \cup (IF m \in M THEN {<<"work", v>>} ELSE {})
  BY WorkersMore
<1>3. CASE m \in M
  <2>1. /\ ChanHolders(chan, M) = {<<"chan", c>>} /\ HandHolders(hand, M) = {}
        /\ WorkHolders(workers, M) = {}
    BY <1>3, OnlyChan DEF TookAt
  <2>2. ChanHolders(chan', M) = {} /\ ChanOnce(chan', M)
    BY <1>3, <2>1 DEF TookAt
  <2> QED
    BY <1>1, <1>2, <1>3, <2>1, <2>2 DEF Steady, OneHeld, AllHolders
<1>4. CASE m \notin M
  <2>1. /\ AllHolders(chan', hand', workers', M) = AllHolders(chan, hand, workers, M)
        /\ ChanOnce(chan', M)
    BY <1>1, <1>2, <1>4 DEF TookAt, AllHolders
  <2> QED
    BY <1>1, <2>1 DEF Steady, OneHeld
<1> QED
  BY <1>3, <1>4

LEMMA TakeAway ==
  ASSUME NEW M, OneHeld(chan, hand, workers, M), NEW c, NEW m,
         TookAt(chan, chan', c, m, M), HandHolders(hand', M) = HandHolders(hand, M),
         HandOnce(hand', M), workers' = workers
  PROVE  /\ OneHeld(chan', hand', workers', M)
         /\ AllHolders(chan', hand', workers', M)
              = IF m \in M THEN {} ELSE AllHolders(chan, hand, workers, M)
<1>1. ChanOnce(chan', M)
  BY DEF TookAt
<1>2. CASE m \in M
  <2>1. /\ ChanHolders(chan, M) = {<<"chan", c>>} /\ HandHolders(hand, M) = {}
        /\ WorkHolders(workers, M) = {}
    BY <1>2, OnlyChan DEF TookAt
  <2>2. ChanHolders(chan', M) = {}
    BY <1>2, <2>1 DEF TookAt
  <2> QED
    BY <1>1, <1>2, <2>1, <2>2 DEF OneHeld, AllHolders
<1>3. CASE m \notin M
  <2>1. AllHolders(chan', hand', workers', M) = AllHolders(chan, hand, workers, M)
    BY <1>3 DEF TookAt, AllHolders
  <2> QED
    BY <1>1, <1>3, <2>1 DEF OneHeld
<1> QED
  BY <1>2, <1>3

LEMMA Taken ==
  ASSUME BusOK, NEW c \in Channels, chan[c] # <<>>, Take(c)
  PROVE  /\ ChanOK(chan') /\ Head(chan[c]) \in Carried(c) /\ Head(chan[c]) \in Messages
         /\ \A M : OneHeld(chan, hand, workers, M) => TookAt(chan, chan', c, Head(chan[c]), M)
<1>1. ChanOK(chan) /\ Capacity \in Nat /\ chan' = [chan EXCEPT ![c] = Tail(@)]
  BY Names DEF BusOK, Take
<1>2. ChanOK(chan')
  BY <1>1, Took
<1>3. Head(chan[c]) \in Carried(c) /\ Head(chan[c]) \in Messages
  BY <1>1, Took
<1>4. ASSUME NEW M, OneHeld(chan, hand, workers, M)
      PROVE  TookAt(chan, chan', c, Head(chan[c]), M)
  BY <1>1, <1>4, TookHolders DEF OneHeld
<1> QED
  BY <1>2, <1>3, <1>4

LEMMA Holding ==
  ASSUME BusOK, NEW t \in Tasks, hand[t] = <<>>, NEW o \in Outgoing, Sendable(o, t),
         hand' = [hand EXCEPT ![t] = <<o>>]
  PROVE  /\ HandOK(hand') /\ \A u \in Tasks \ {t} : hand'[u] = hand[u]
         /\ \A M : OneHeld(chan, hand, workers, M) => HeldAt(hand, hand', t, o.msg, M)
<1>1. HandOK(hand)
  BY DEF BusOK
<1>2. HandOK(hand')
  BY <1>1, Holds1
<1>3. \A u \in Tasks \ {t} : hand'[u] = hand[u]
  BY <1>1 DEF HandOK
<1>4. ASSUME NEW M, OneHeld(chan, hand, workers, M)
      PROVE  HeldAt(hand, hand', t, o.msg, M)
  BY <1>1, <1>4, Holds1Holders DEF OneHeld
<1> QED
  BY <1>2, <1>3, <1>4

LEMMA HoldingTwo ==
  ASSUME BusOK, NEW t \in Tasks, hand[t] = <<>>, NEW o \in Outgoing, Sendable(o, t),
         NEW p \in Outgoing, Sendable(p, t), o.to # p.to, hand' = [hand EXCEPT ![t] = <<o, p>>]
  PROVE  /\ HandOK(hand') /\ \A u \in Tasks \ {t} : hand'[u] = hand[u]
         /\ \A M : OneHeld(chan, hand, workers, M) /\ o.msg \notin M /\ p.msg \notin M
                  => HeldAt(hand, hand', t, o.msg, M)
<1>1. HandOK(hand)
  BY DEF BusOK
<1>2. HandOK(hand')
  BY <1>1, Holds2
<1>3. \A u \in Tasks \ {t} : hand'[u] = hand[u]
  BY <1>1 DEF HandOK
<1>4. ASSUME NEW M, OneHeld(chan, hand, workers, M), o.msg \notin M, p.msg \notin M
      PROVE  HeldAt(hand, hand', t, o.msg, M)
  BY <1>1, <1>4, Holds2Holders DEF OneHeld
<1> QED
  BY <1>2, <1>3, <1>4

LEMMA ForwardStep ==
  ASSUME BusOK, NEW c \in {"from_api", "from_reader", "from_db"}, Forward(c)
  PROVE  BusOK' /\ AllSteady
<1> DEFINE m == Head(chan[c])
           d == "data_master"
           out(ch) == [to |-> ch, msg |-> m]
<1>1. /\ c \in Channels /\ d \in Tasks /\ hand[d] = <<>> /\ chan[c] # <<>> /\ Take(c)
      /\ hand' = [hand EXCEPT ![d] = Route(m)]
      /\ UNCHANGED <<feed, at, workers, answer, creating, history>>
  BY Names DEF Forward, Free, Channels
<1>2. /\ ChanOK(chan') /\ m \in Carried(c) /\ m \in Messages
      /\ \A M : OneHeld(chan, hand, workers, M) => TookAt(chan, chan', c, m, M)
  BY <1>1, Taken
<1>3. m \in ConfigEvents \/ m \in Events \/ m \in Requests \cup Commands
  BY <1>2 DEF Messages
<1> HIDE DEF m
<1>4. HandOK(hand) /\ RestOK
  BY DEF BusOK
<1>5. CASE m \in ConfigEvents \/ m \in Requests \cup Commands
  <2> DEFINE ch == IF m \in ConfigEvents THEN "to_reader" ELSE "to_db"
  <2>1. Route(m) = <<out(ch)>>
    BY <1>5, Kinds DEF Route, Asks
  <2>2. out(ch) \in Outgoing /\ Sendable(out(ch), d)
    <3>1. ch \in Channels /\ ch \in Outlets(d) /\ m \in Carried(ch) /\ d \notin Nodes
      BY <1>5, CarriedIs, OutletsOf, Names DEF Channels
    <3> QED
      BY <1>2, <3>1 DEF Outgoing, Sendable
  <2> DEFINE o == out(ch)
  <2>3. o \in Outgoing /\ Sendable(o, d) /\ o.msg = m /\ hand' = [hand EXCEPT ![d] = <<o>>]
    BY <1>1, <2>1, <2>2
  <2> HIDE DEF o
  <2>4. /\ HandOK(hand') /\ \A u \in Tasks \ {d} : hand'[u] = hand[u]
        /\ \A M : OneHeld(chan, hand, workers, M) => HeldAt(hand, hand', d, m, M)
    BY <1>1, <2>3, Holding
  <2>5. RestOK'
    BY <1>1, <1>4, <2>4, Names DEF RestOK, history
  <2>6. AllSteady
    BY <1>1, <1>2, <2>4, TakeToHand DEF AllSteady
  <2> QED
    BY <1>2, <2>4, <2>5, <2>6 DEF BusOK
<1>6. CASE m \in Events
  <2> DEFINE o == out("to_db")
             p == out("to_api")
  <2>1. Route(m) = <<o, p>>
    BY <1>6, Kinds DEF Route, Asks
  <2>2. /\ o \in Outgoing /\ Sendable(o, d) /\ p \in Outgoing /\ Sendable(p, d)
        /\ o.to # p.to /\ o.msg = m /\ p.msg = m
    <3>1. /\ {"to_db", "to_api"} \subseteq Channels \cap Outlets(d)
          /\ m \in Carried("to_db") /\ m \in Carried("to_api") /\ d \notin Nodes
      BY <1>6, CarriedIs, OutletsOf, Names DEF Channels
    <3> QED
      BY <1>2, <3>1 DEF Outgoing, Sendable
  <2> HIDE DEF o, p
  <2>3. hand' = [hand EXCEPT ![d] = <<o, p>>]
    BY <1>1, <2>1
  <2>4. /\ HandOK(hand') /\ \A u \in Tasks \ {d} : hand'[u] = hand[u]
        /\ \A M : OneHeld(chan, hand, workers, M) /\ m \notin M => HeldAt(hand, hand', d, m, M)
    <3>1. /\ d \in Tasks /\ hand[d] = <<>> /\ o \in Outgoing /\ Sendable(o, d)
          /\ p \in Outgoing /\ Sendable(p, d) /\ o.to # p.to
      BY <1>1, <2>2
    <3>2. HandOK(hand')
      BY <2>3, <3>1, HoldingTwo
    <3>3. \A u \in Tasks \ {d} : hand'[u] = hand[u]
      BY <2>3, <3>1, HoldingTwo
    <3>4. \A M : OneHeld(chan, hand, workers, M) /\ o.msg \notin M /\ p.msg \notin M
                => HeldAt(hand, hand', d, o.msg, M)
      BY <2>3, <3>1, HoldingTwo
    <3> QED
      BY <2>2, <3>2, <3>3, <3>4
  <2>6. RestOK'
    BY <1>1, <1>4, <2>4, Names DEF RestOK, history
  <2>7. ASSUME NEW M, Counted(M), OneHeld(chan, hand, workers, M)
        PROVE  Steady(M)
    <3>1. m \notin M
      BY <1>6, <2>7, NoEventCounted
    <3>2. HeldAt(hand, hand', d, m, M)
      BY <2>4, <2>7, <3>1
    <3> QED
      BY <1>1, <1>2, <2>7, <3>2, TakeToHand
  <2> QED
    BY <1>2, <2>4, <2>6, <2>7 DEF BusOK, AllSteady
<1> QED
  BY <1>3, <1>5, <1>6

LEMMA DispatchStep ==
  ASSUME BusOK, Dispatch
  PROVE  BusOK' /\ AllSteady
<1> DEFINE m == Head(chan["to_db"])
           d == "db_master"
           o == [to |-> "measure", msg |-> m]
           v == [msg |-> m, tell |-> <<>>]
<1>1. /\ "to_db" \in Channels /\ d \in Tasks /\ d \notin Nodes /\ d \notin Clients
      /\ hand[d] = <<>> /\ chan["to_db"] # <<>> /\ Take("to_db")
      /\ hand' = IF m.kind \in {"GetMeasure", "DeviceEvent"}
                   THEN [hand EXCEPT ![d] = <<o>>] ELSE hand
      /\ workers' = IF m.kind \in {"Request", "Command"} THEN workers \cup {v} ELSE workers
      /\ UNCHANGED <<feed, at, answer, creating, history>>
  BY Names DEF Dispatch, Free, Channels
<1>2. /\ ChanOK(chan') /\ m \in Carried("to_db") /\ m \in Messages
      /\ \A M : OneHeld(chan, hand, workers, M) => TookAt(chan, chan', "to_db", m, M)
  BY <1>1, Taken
<1>3. o.to = "measure" /\ o.msg = m /\ v.msg = m /\ v.tell = <<>>
  OBVIOUS
<1>4. m \in Events \cup Requests \cup Commands
  BY <1>2, CarriedIs
<1>5. HandOK(hand) /\ RestOK
  BY DEF BusOK
<1>6. CASE m.kind \in {"GetMeasure", "DeviceEvent"}
  <2>1. o \in Outgoing /\ Sendable(o, d)
    <3>1. /\ m \in Events \cup Requests
          /\ "measure" \in Channels \cap Outlets(d) /\ m \in Carried("measure")
      BY <1>4, <1>6, CarriedIs, OutletsOf, Kinds DEF Channels
    <3> QED
      BY <1>1, <1>2, <3>1 DEF Outgoing, Sendable
  <2>2. hand' = [hand EXCEPT ![d] = <<o>>] /\ workers' = workers
    BY <1>1, <1>6
  <2> HIDE DEF o, m
  <2>3. /\ HandOK(hand') /\ \A u \in Tasks \ {d} : hand'[u] = hand[u]
        /\ \A M : OneHeld(chan, hand, workers, M) => HeldAt(hand, hand', d, m, M)
    BY <1>1, <1>3, <2>1, <2>2, Holding
  <2>4. RestOK'
    BY <1>1, <1>5, <2>2, <2>3, Names DEF RestOK, history
  <2>5. AllSteady
    BY <1>2, <2>2, <2>3, TakeToHand DEF AllSteady
  <2> QED
    BY <1>2, <2>3, <2>4, <2>5 DEF BusOK
<1>7. CASE m.kind \in {"Request", "Command"}
  <2>1. hand' = hand /\ workers' = workers \cup {v}
    BY <1>1, <1>7
  <2>2. m \in Requests \cup Commands
    BY <1>4, <1>7, Kinds
  <2>3. v \in [msg : Requests \cup Commands, tell : Announcements]
    <3>1. <<>> \in Announcements
      BY DEF Announcements
    <3> QED
      BY <2>2, <3>1
  <2> HIDE DEF m, v
  <2>4. RestOK'
    BY <1>1, <1>5, <2>1, <2>3 DEF RestOK, history
  <2>5. ASSUME NEW M, OneHeld(chan, hand, workers, M)
        PROVE  Steady(M)
    <3>1. Works(v, M) <=> m \in M
      BY <1>3 DEF Works, Has
    <3> QED
      BY <1>2, <2>1, <2>5, <3>1, TakeToWork
  <2> QED
    BY <1>2, <1>5, <2>1, <2>4, <2>5 DEF BusOK, AllSteady
<1>8. CASE m.kind \notin {"Request", "Command", "GetMeasure", "DeviceEvent"}
  <2>1. hand' = hand /\ workers' = workers
    BY <1>1, <1>8
  <2>2. m \in Events
    BY <1>4, <1>8, Kinds
  <2> HIDE DEF m
  <2>3. RestOK'
    BY <1>1, <1>5, <2>1 DEF RestOK, history
  <2>4. ASSUME NEW M, Counted(M), OneHeld(chan, hand, workers, M)
        PROVE  Steady(M)
    <3>1. m \notin M /\ HandOnce(hand, M)
      BY <2>2, <2>4, NoEventCounted DEF OneHeld
    <3> QED
      BY <1>2, <2>1, <2>4, <3>1, TakeAway DEF Steady
  <2> QED
    BY <1>2, <1>5, <2>1, <2>3, <2>4 DEF BusOK, AllSteady
<1> QED
  BY <1>6, <1>7, <1>8

LEMMA MasterForwardsStep ==
  ASSUME BusOK, MasterForwards
  PROVE  BusOK' /\ AllSteady
<1> DEFINE m == Head(chan["from_node"])
           d == "node_master"
           o == [to |-> "from_reader", msg |-> m]
<1>1. /\ "from_node" \in Channels /\ d \in Tasks /\ d \notin Nodes /\ d \notin Clients
      /\ hand[d] = <<>> /\ chan["from_node"] # <<>> /\ Take("from_node")
      /\ hand' = [hand EXCEPT ![d] = <<o>>]
      /\ UNCHANGED <<feed, at, workers, answer, creating, history>>
  BY Names DEF MasterForwards, Free, Channels
<1>2. /\ ChanOK(chan') /\ m \in Carried("from_node") /\ m \in Messages
      /\ \A M : OneHeld(chan, hand, workers, M) => TookAt(chan, chan', "from_node", m, M)
  BY <1>1, Taken
<1>3. o \in Outgoing /\ Sendable(o, d) /\ o.msg = m
  <2>1. "from_reader" \in Channels \cap Outlets(d) /\ m \in Carried("from_reader")
    BY <1>2, CarriedIs, OutletsOf DEF Channels
  <2> QED
    BY <1>1, <1>2, <2>1 DEF Outgoing, Sendable
<1> HIDE DEF o, m
<1>4. HandOK(hand) /\ RestOK
  BY DEF BusOK
<1>5. /\ HandOK(hand') /\ \A u \in Tasks \ {d} : hand'[u] = hand[u]
      /\ \A M : OneHeld(chan, hand, workers, M) => HeldAt(hand, hand', d, m, M)
  BY <1>1, <1>3, Holding
<1>6. RestOK'
  BY <1>1, <1>4, <1>5, Names DEF RestOK, history
<1>7. AllSteady
  BY <1>1, <1>2, <1>5, TakeToHand DEF AllSteady
<1> QED
  BY <1>2, <1>5, <1>6, <1>7 DEF BusOK

LEMMA CoordinatorStep ==
  ASSUME BusOK, Coordinator
  PROVE  BusOK' /\ AllSteady
<1> DEFINE m == Head(chan["to_api"])
<1>1. /\ "to_api" \in Channels /\ chan["to_api"] # <<>> /\ Take("to_api")
      /\ shown' = [shown EXCEPT ![m.node] = Append(@, m)]
      /\ UNCHANGED <<feed, at, hand, nodes, workers, answer, creating, made, stored, changes>>
  BY DEF Coordinator, Channels
<1>2. /\ ChanOK(chan') /\ m \in Carried("to_api")
      /\ \A M : OneHeld(chan, hand, workers, M) => TookAt(chan, chan', "to_api", m, M)
  BY <1>1, Taken
<1>3. m \in Events /\ m.node \in Nodes
  BY <1>2, CarriedIs, Kinds
<1> HIDE DEF m
<1>4. HandOK(hand) /\ RestOK
  BY DEF BusOK
<1>5. shown' \in [Nodes -> Seq(Events)]
  BY <1>1, <1>3, <1>4 DEF RestOK
<1>6. RestOK'
  BY <1>1, <1>4, <1>5 DEF RestOK
<1>7. ASSUME NEW M, Counted(M), OneHeld(chan, hand, workers, M)
      PROVE  Steady(M)
  <2>1. m \notin M /\ HandOnce(hand, M)
    BY <1>3, <1>7, NoEventCounted DEF OneHeld
  <2> QED
    BY <1>1, <1>2, <1>7, <2>1, TakeAway DEF Steady
<1> QED
  BY <1>1, <1>2, <1>4, <1>6, <1>7 DEF BusOK, AllSteady

-----------------------------------------------------------------------------
(* Answers.                                                                  *)

\* The invariants when the request m is answered.
LEMMA AnsweredKeeps ==
  ASSUME RequestsInv, CreatesInv, RestOK, NEW m \in Requests \cup Commands,
         NEW r \in {"ok", "failed", "closed"}, answer' = [answer EXCEPT ![m.by] = r],
         UNCHANGED <<at, creating, nodes>>, AllHolders(chan, hand, workers, RequestsBy(m.by)) # {},
         \A a \in Askers : OneHeld(chan, hand, workers, RequestsBy(a)) =>
           /\ OneHeld(chan', hand', workers', RequestsBy(a))
           /\ AllHolders(chan', hand', workers', RequestsBy(a))
                = IF m.by = a THEN {} ELSE AllHolders(chan, hand, workers, RequestsBy(a)),
         \A n \in Nodes : OneHeld(chan, hand, workers, Creation(n)) => Fewer(Creation(n))
  PROVE  RequestsInv' /\ CreatesInv'
<1> DEFINE b == m.by
<1>1. b \in Askers
  BY Kinds, Names
<1>2. answer'[b] = r /\ \A a \in Askers \ {b} : answer'[a] = answer[a]
  BY <1>1 DEF RestOK
<1>3. Asker(chan, hand, workers, at, answer, b)
  BY <1>1, InvariantsSplit
<1>4. Asker(chan', hand', workers', at', answer', b)
  BY <1>1, <1>2, <1>3 DEF Asker
<1>5. \A a \in Askers \ {b} :
        OneHeld(chan, hand, workers, RequestsBy(a)) => Steady(RequestsBy(a))
  BY DEF Steady
<1> HIDE DEF b
<1>6. RequestsInv'
  BY <1>1, <1>2, <1>4, <1>5, RequestsKept
<1>7. CreatesInv'
  BY CreatesKept
<1> QED
  BY <1>6, <1>7

LEMMA MeasureMasterStep ==
  ASSUME BusOK, RequestsInv, CreatesInv, MeasureMaster
  PROVE  BusOK' /\ RequestsInv' /\ CreatesInv'
<1> DEFINE m == Head(chan["measure"])
<1>1. /\ "measure" \in Channels /\ chan["measure"] # <<>> /\ Take("measure")
      /\ IF m.kind = "GetMeasure"
           THEN /\ \E result \in {"ok", "failed"} : answer' = [answer EXCEPT ![m.by] = result]
                /\ UNCHANGED stored
           ELSE /\ stored' = [stored EXCEPT ![m.node] = Append(@, m)]
                /\ UNCHANGED answer
      /\ UNCHANGED <<feed, at, hand, nodes, workers, creating, made, shown, changes>>
  BY DEF MeasureMaster, Channels
<1>2. /\ ChanOK(chan') /\ m \in Carried("measure")
      /\ \A M : OneHeld(chan, hand, workers, M) => TookAt(chan, chan', "measure", m, M)
  BY <1>1, Taken
<1>3. HandOK(hand) /\ RestOK
  BY DEF BusOK
<1>4. m \in Events \cup Requests
  BY <1>2, CarriedIs
<1> HIDE DEF m
<1>5. ASSUME NEW M, OneHeld(chan, hand, workers, M)
      PROVE  /\ OneHeld(chan', hand', workers', M)
             /\ AllHolders(chan', hand', workers', M)
                  = IF m \in M THEN {} ELSE AllHolders(chan, hand, workers, M)
             /\ m \in M => AllHolders(chan, hand, workers, M) # {}
  <2>1. HandOnce(hand, M) /\ TookAt(chan, chan', "measure", m, M)
    BY <1>2, <1>5 DEF OneHeld
  <2>2. /\ OneHeld(chan', hand', workers', M)
        /\ AllHolders(chan', hand', workers', M)
             = IF m \in M THEN {} ELSE AllHolders(chan, hand, workers, M)
    BY <1>1, <1>5, <2>1, TakeAway
  <2> QED
    BY <2>1, <2>2 DEF TookAt, AllHolders
<1>6. CASE m \in Events
  <2>1. m.kind # "GetMeasure" /\ m.node \in Nodes
    BY <1>6, Kinds
  <2>2. stored' \in [Nodes -> Seq(Events)] /\ UNCHANGED answer
    <3>1. stored' = [stored EXCEPT ![m.node] = Append(@, m)] /\ UNCHANGED answer
      BY <1>1, <2>1
    <3>2. stored \in [Nodes -> Seq(Events)]
      BY <1>3 DEF RestOK
    <3> QED
      BY <1>6, <2>1, <3>1, <3>2
  <2>3. RestOK'
    BY <1>1, <1>3, <2>2 DEF RestOK
  <2>4. AllSteady
    BY <1>5, <1>6, NoEventCounted DEF Steady, AllSteady
  <2> QED
    BY <1>1, <1>2, <1>3, <2>2, <2>3, <2>4, SteadyKeeps DEF BusOK
<1>7. CASE m \in Requests
  <2>1. m.kind = "GetMeasure" /\ m.by \in Askers
    BY <1>2, <1>7, CarriedIs, Kinds
  <2>2. PICK r \in {"ok", "failed"} : answer' = [answer EXCEPT ![m.by] = r]
    BY <1>1, <2>1
  <2>3. UNCHANGED stored
    BY <1>1, <2>1
  <2>4. RestOK'
    <3>1. answer' \in [Askers -> {"none", "ok", "failed", "closed"}]
      BY <1>3, <2>1, <2>2 DEF RestOK
    <3> QED
      BY <1>1, <1>3, <2>3, <3>1 DEF RestOK
  <2>5. \A a \in Askers : m \in RequestsBy(a) <=> m.by = a
    BY <1>7 DEF RequestsBy
  <2>6. \A n \in Nodes : m \notin Creation(n)
    BY <1>7, CountedSets, Kinds
  <2>7. \A a \in Askers : OneHeld(chan, hand, workers, RequestsBy(a)) =>
           /\ OneHeld(chan', hand', workers', RequestsBy(a))
           /\ AllHolders(chan', hand', workers', RequestsBy(a))
                = IF m.by = a THEN {} ELSE AllHolders(chan, hand, workers, RequestsBy(a))
    BY <1>5, <2>5
  <2>8. AllHolders(chan, hand, workers, RequestsBy(m.by)) # {}
    <3>1. Asker(chan, hand, workers, at, answer, m.by)
      BY <2>1, InvariantsSplit
    <3> QED
      BY <1>5, <2>1, <2>5, <3>1 DEF Asker
  <2>9. \A n \in Nodes : OneHeld(chan, hand, workers, Creation(n)) => Fewer(Creation(n))
    BY <1>5, <2>6 DEF Fewer
  <2>10. RequestsInv' /\ CreatesInv'
    BY <1>1, <1>3, <1>7, <2>2, <2>7, <2>8, <2>9, AnsweredKeeps
  <2> QED
    BY <1>1, <1>2, <1>3, <2>4, <2>10 DEF BusOK
<1> QED
  BY <1>4, <1>6, <1>7

\* A worker that ends.
LEMMA WorkerGone ==
  ASSUME NEW M, OneHeld(chan, hand, workers, M), NEW w \in workers,
         hand' = hand, ChanHolders(chan', M) = ChanHolders(chan, M), ChanOnce(chan', M),
         workers' = workers \ {w}
  PROVE  /\ OneHeld(chan', hand', workers', M)
         /\ AllHolders(chan', hand', workers', M)
              = IF Works(w, M) THEN {} ELSE AllHolders(chan, hand, workers, M)
         /\ Works(w, M) => AllHolders(chan, hand, workers, M) # {}
<1>1. WorkHolders(workers', M) = WorkHolders(workers, M) \ {<<"work", w>>}
  BY WorkersLess
<1>2. ChanOnce(chan', M) /\ HandOnce(hand', M)
  BY DEF OneHeld
<1>3. CASE Works(w, M)
  <2>1. <<"work", w>> \in WorkHolders(workers, M)
    BY <1>3, WorkerHolds
  <2>2. /\ WorkHolders(workers, M) = {<<"work", w>>} /\ ChanHolders(chan, M) = {}
        /\ HandHolders(hand, M) = {}
    BY <2>1, OnlyWork
  <2> QED
    BY <1>1, <1>2, <1>3, <2>2 DEF OneHeld, AllHolders
<1>4. CASE ~Works(w, M)
  <2>1. WorkHolders(workers', M) = WorkHolders(workers, M)
    BY <1>1, <1>4, WorkerHolds
  <2> QED
    BY <1>2, <1>4, <2>1 DEF OneHeld, AllHolders
<1> QED
  BY <1>3, <1>4

LEMMA WorkerTypes ==
  ASSUME RestOK, NEW w \in workers
  PROVE  /\ w.msg \in Requests \cup Commands /\ w.tell \in Announcements
         /\ w = [msg |-> w.msg, tell |-> w.tell] /\ w.msg.by \in Askers
         /\ \A a \in Askers : Works(w, RequestsBy(a)) <=> w.msg.by = a
         /\ \A n \in Nodes : Works(w, Creation(n)) <=> Has(w.tell, Creation(n))
<1>1. /\ w.msg \in Requests \cup Commands /\ w.tell \in Announcements
      /\ w = [msg |-> w.msg, tell |-> w.tell]
  BY DEF RestOK
<1>2. w.msg.by \in Askers
  BY <1>1, Kinds, Names
<1>3. w.tell \in Seq(ConfigEvents)
  BY <1>1 DEF Announcements
<1>4. \A a \in Askers : ~Has(w.tell, RequestsBy(a)) /\ (w.msg \in RequestsBy(a) <=> w.msg.by = a)
  BY <1>1, <1>3, Kinds DEF Has, RequestsBy
<1>5. \A n \in Nodes : w.msg \notin Creation(n)
  BY <1>1, CountedSets, Kinds
<1> QED
  BY <1>1, <1>2, <1>4, <1>5 DEF Works

\* The answer of a worker that has nothing to announce, or gives it up.
LEMMA EndsStep ==
  ASSUME BusOK, RequestsInv, CreatesInv, NEW w \in workers, NEW r \in {"ok", "failed", "closed"},
         Ends(w, r), UNCHANGED <<chan, feed, at, hand, creating, history>>
  PROVE  BusOK' /\ RequestsInv' /\ CreatesInv'
<1>1. /\ workers' = workers \ {w} /\ answer' = [answer EXCEPT ![w.msg.by] = r]
      /\ UNCHANGED <<chan, hand>>
  BY DEF Ends
<1>2. RestOK
  BY DEF BusOK
<1>3. /\ w.msg \in Requests \cup Commands /\ w.msg.by \in Askers
      /\ \A a \in Askers : Works(w, RequestsBy(a)) <=> w.msg.by = a
  BY <1>2, WorkerTypes
<1>4. RestOK'
  <2>1. answer' \in [Askers -> {"none", "ok", "failed", "closed"}]
    BY <1>1, <1>2, <1>3 DEF RestOK
  <2> QED
    BY <1>1, <1>2, <2>1 DEF RestOK, history
<1>5. ASSUME NEW M, OneHeld(chan, hand, workers, M)
      PROVE  /\ OneHeld(chan', hand', workers', M)
             /\ AllHolders(chan', hand', workers', M)
                  = IF Works(w, M) THEN {} ELSE AllHolders(chan, hand, workers, M)
             /\ Works(w, M) => AllHolders(chan, hand, workers, M) # {}
  <2>1. hand' = hand /\ ChanHolders(chan', M) = ChanHolders(chan, M) /\ ChanOnce(chan', M)
    BY <1>1, <1>5 DEF OneHeld
  <2> QED
    BY <1>1, <1>5, <2>1, WorkerGone
<1>6. \A a \in Askers : OneHeld(chan, hand, workers, RequestsBy(a)) =>
           /\ OneHeld(chan', hand', workers', RequestsBy(a))
           /\ AllHolders(chan', hand', workers', RequestsBy(a))
                = IF w.msg.by = a THEN {} ELSE AllHolders(chan, hand, workers, RequestsBy(a))
  BY <1>3, <1>5
<1>7. AllHolders(chan, hand, workers, RequestsBy(w.msg.by)) # {}
  <2>1. Asker(chan, hand, workers, at, answer, w.msg.by)
    BY <1>3, InvariantsSplit
  <2> QED
    BY <1>3, <1>5, <2>1 DEF Asker
<1>8. \A n \in Nodes : OneHeld(chan, hand, workers, Creation(n)) => Fewer(Creation(n))
  BY <1>5 DEF Fewer
<1>9. UNCHANGED <<at, creating, nodes>>
  BY DEF history
<1>10. RequestsInv' /\ CreatesInv'
  BY <1>1, <1>2, <1>3, <1>6, <1>7, <1>8, <1>9, AnsweredKeeps
<1> QED
  BY <1>1, <1>4, <1>10 DEF BusOK

\* A worker whose announcements change.
LEMMA WorkerChanged ==
  ASSUME NEW M, OneHeld(chan, hand, workers, M), NEW w \in workers, NEW v,
         hand' = hand, ChanHolders(chan', M) = ChanHolders(chan, M), ChanOnce(chan', M),
         workers' = (workers \ {w}) \cup {v},
         Works(v, M) <=> Works(w, M)
  PROVE  Steady(M)
<1>1. WorkHolders(workers', M)
        = (WorkHolders(workers, M) \ {<<"work", w>>})
            \cup (IF Works(v, M) THEN {<<"work", v>>} ELSE {})
  <2>1. \A u : u \in workers' <=> (u \in workers /\ u # w) \/ u = v
    OBVIOUS
  <2> QED
    BY <2>1 DEF WorkHolders
<1>2. ChanOnce(chan', M) /\ HandOnce(hand', M)
  BY DEF OneHeld
<1>3. CASE Works(w, M)
  <2>1. <<"work", w>> \in WorkHolders(workers, M)
    BY <1>3, WorkerHolds
  <2>2. /\ WorkHolders(workers, M) = {<<"work", w>>} /\ ChanHolders(chan, M) = {}
        /\ HandHolders(hand, M) = {}
    BY <2>1, OnlyWork
  <2> QED
    BY <1>1, <1>2, <1>3, <2>2 DEF Steady, OneHeld, AllHolders
<1>4. CASE ~Works(w, M)
  <2>1. WorkHolders(workers', M) = WorkHolders(workers, M)
    BY <1>1, <1>4, WorkerHolds
  <2> QED
    BY <1>2, <1>4, <2>1 DEF Steady, OneHeld, AllHolders
<1> QED
  BY <1>3, <1>4

LEMMA CommitStep ==
  ASSUME BusOK, RequestsInv, CreatesInv, NEW w \in workers, WorkerCommits(w)
  PROVE  BusOK' /\ RequestsInv' /\ CreatesInv'
<1> DEFINE e == w.msg.events
           v == [w EXCEPT !.tell = e]
<1>1. /\ w.msg.kind = "Command" /\ w.tell = <<>> /\ Applies(e)
      /\ nodes' = [nodes EXCEPT ![e[1].node] = IF e[1].type = "Delete" THEN "deleted" ELSE "present"]
      /\ workers' = (workers \ {w}) \cup {v}
      /\ UNCHANGED <<chan, feed, at, hand, answer, creating, made, stored, shown, changes>>
  BY DEF WorkerCommits
<1>2. RestOK
  BY DEF BusOK
<1>3. /\ w.msg \in Requests \cup Commands /\ w.tell \in Announcements
      /\ w = [msg |-> w.msg, tell |-> w.tell] /\ w.msg.by \in Askers
      /\ \A a \in Askers : Works(w, RequestsBy(a)) <=> w.msg.by = a
      /\ \A n \in Nodes : Works(w, Creation(n)) <=> Has(w.tell, Creation(n))
  BY <1>2, WorkerTypes
<1>4. w.msg \in Commands /\ e \in Announcements \ {<<>>}
  BY <1>1, <1>3, Kinds DEF Commands
<1>5. v = [msg |-> w.msg, tell |-> e] /\ v.msg = w.msg /\ v.tell = e
  BY <1>3
<1>6. /\ e \in Seq(ConfigEvents) /\ e # <<>> /\ 1 \in DOMAIN e /\ e[1] \in ConfigEvents
      /\ Len(e) <= 1 \/ \A i \in DOMAIN e : e[i].type = "Update"
  BY <1>4 DEF Announcements
<1>7. /\ e[1].node \in Nodes /\ e[1].type \in {"Create", "Update", "Delete"}
      /\ nodes[e[1].node] = IF e[1].type = "Create" THEN "none" ELSE "present"
  BY <1>1, <1>6 DEF ConfigEvents, Applies
<1>8. v \in [msg : Requests \cup Commands, tell : Announcements]
  BY <1>3, <1>4, <1>5
<1>9. \A a \in Askers : Works(v, RequestsBy(a)) <=> Works(w, RequestsBy(a))
  <2>1. \A a \in Askers : ~Has(e, RequestsBy(a)) /\ ~Has(w.tell, RequestsBy(a))
    BY <1>1, <1>6, Kinds DEF Has, RequestsBy
  <2> QED
    BY <1>5, <2>1 DEF Works
<1>10. \A n \in Nodes : /\ ~Works(w, Creation(n))
                        /\ Works(v, Creation(n)) => e[1].type = "Create" /\ e[1].node = n
  <2> SUFFICES ASSUME NEW n \in Nodes
               PROVE  /\ ~Works(w, Creation(n))
                      /\ Works(v, Creation(n)) => e[1].type = "Create" /\ e[1].node = n
    OBVIOUS
  <2>1. ~Works(w, Creation(n))
    BY <1>1, <1>3 DEF Has
  <2>2. v.msg \notin Creation(n)
    BY <1>4, <1>5, CountedSets, Kinds
  <2>3. ASSUME NEW i \in DOMAIN e, e[i] \in Creation(n)
        PROVE  e[1].type = "Create" /\ e[1].node = n
    <3>1. e[i].type = "Create" /\ e[i].node = n
      BY <2>3 DEF Creation, ConfigEvent
    <3>2. i = 1
      BY <1>6, <3>1
    <3> QED
      BY <3>1, <3>2
  <2> QED
    BY <1>5, <2>1, <2>2, <2>3 DEF Works, Has
<1> HIDE DEF v, e
<1>11. RestOK'
  <2>1. nodes' \in [Nodes -> {"none", "present", "deleted"}]
    BY <1>1, <1>2 DEF RestOK
  <2> QED
    BY <1>1, <1>2, <1>8, <2>1 DEF RestOK
<1>12. \A a \in Askers : OneHeld(chan, hand, workers, RequestsBy(a)) => Steady(RequestsBy(a))
  <2> SUFFICES ASSUME NEW a \in Askers, OneHeld(chan, hand, workers, RequestsBy(a))
               PROVE  Steady(RequestsBy(a))
    OBVIOUS
  <2>1. /\ hand' = hand /\ ChanHolders(chan', RequestsBy(a)) = ChanHolders(chan, RequestsBy(a))
        /\ ChanOnce(chan', RequestsBy(a))
    BY <1>1 DEF OneHeld
  <2> QED
    BY <1>1, <1>9, <2>1, WorkerChanged
<1>13. RequestsInv'
  <2>1. Asker(chan, hand, workers, at, answer, w.msg.by)
    BY <1>3, InvariantsSplit
  <2>2. Asker(chan', hand', workers', at', answer', w.msg.by)
    BY <1>1, <1>3, <1>12, <2>1 DEF Steady, Asker
  <2> QED
    BY <1>1, <1>3, <1>12, <2>2, RequestsKept
<1>14. ASSUME NEW n \in Nodes
       PROVE  Announced(chan', hand', workers', at', nodes', creating'.node, n)
  <2>1. Announced(chan, hand, workers, at, nodes, creating.node, n)
    BY InvariantsSplit
  <2>2. OneHeld(chan, hand, workers, Creation(n))
    BY <2>1 DEF Announced
  <2>3. CASE ~Works(v, Creation(n))
    <3>1. Steady(Creation(n))
      <4>1. /\ hand' = hand /\ ChanHolders(chan', Creation(n)) = ChanHolders(chan, Creation(n))
            /\ ChanOnce(chan', Creation(n))
        BY <1>1, <2>2 DEF OneHeld
      <4> QED
        BY <1>1, <1>10, <2>2, <2>3, <4>1, WorkerChanged
    <3>3. nodes'[n] = "none" => nodes[n] = "none"
      BY <1>1, <1>2, <1>7 DEF RestOK
    <3>4. nodes[n] # "none" => nodes'[n] # "none"
      BY <3>3
    <3>5. /\ AllHolders(chan', hand', workers', Creation(n)) # {}
             <=> AllHolders(chan, hand, workers, Creation(n)) # {}
          /\ OneHeld(chan', hand', workers', Creation(n))
      BY <3>1 DEF Steady
    <3> QED
      BY <1>1, <2>1, <3>3, <3>4, <3>5 DEF Announced
  <2>4. CASE Works(v, Creation(n))
    <3>1. nodes[n] = "none" /\ nodes'[n] = "present"
      BY <1>1, <1>2, <1>7, <1>10, <2>4 DEF RestOK
    <3>2. /\ AllHolders(chan, hand, workers, Creation(n)) = {} /\ creating.node # n
          /\ n \notin Initial /\ at[n] = "absent"
      BY <2>1, <3>1 DEF Announced
    <3>3. /\ ChanHolders(chan', Creation(n)) = {} /\ HandHolders(hand', Creation(n)) = {}
          /\ WorkHolders(workers', Creation(n)) = {<<"work", v>>}
      <4>1. /\ ChanHolders(chan, Creation(n)) = {} /\ HandHolders(hand, Creation(n)) = {}
            /\ WorkHolders(workers, Creation(n)) = {}
        BY <3>2 DEF AllHolders
      <4>2. WorkHolders(workers', Creation(n))
              = (WorkHolders(workers, Creation(n)) \ {<<"work", w>>}) \cup {<<"work", v>>}
        <5>1. \A u : u \in workers' <=> (u \in workers /\ u # w) \/ u = v
          BY <1>1
        <5> QED
          BY <2>4, <5>1 DEF WorkHolders
      <4> QED
        BY <1>1, <4>1, <4>2
    <3>4. OneHeld(chan', hand', workers', Creation(n))
      BY <1>1, <2>2, <3>3 DEF OneHeld, AllHolders
    <3> QED
      BY <1>1, <3>1, <3>2, <3>4 DEF Announced
  <2> QED
    BY <2>3, <2>4
<1>15. CreatesInv'
  BY <1>14, InvariantsNext
<1> QED
  BY <1>1, <1>11, <1>13, <1>15 DEF BusOK

\* What an announcement adds to the channel from_db.
LEMMA ToldChan ==
  ASSUME BusOK, NEW m \in ConfigEvents, NEW M, OneHeld(chan, hand, workers, M),
         \/ Room("from_db") /\ chan' = [chan EXCEPT !["from_db"] = Append(@, m)]
         \/ chan' = chan
  PROVE  /\ m \notin M => ChanHolders(chan', M) = ChanHolders(chan, M) /\ ChanOnce(chan', M)
         /\ m \in M /\ ChanHolders(chan, M) = {}
            => /\ ChanOnce(chan', M)
               /\ ChanHolders(chan', M) = {} \/ ChanHolders(chan', M) = {<<"chan", "from_db">>}
<1>1. ChanOK(chan) /\ ChanOnce(chan, M) /\ Capacity \in Nat
  BY Names DEF BusOK, OneHeld
<1>2. CASE chan' = chan
  BY <1>1, <1>2
<1>3. CASE Room("from_db") /\ chan' = [chan EXCEPT !["from_db"] = Append(@, m)]
  <2>1. /\ "from_db" \in Channels /\ m \in Carried("from_db") /\ m \in Messages
        /\ Len(chan["from_db"]) < Capacity
    BY <1>3, CarriedIs DEF Channels, Messages, Room
  <2>2. PutAt(chan, chan', "from_db", m, M)
    BY <1>1, <1>3, <2>1, PutHolders
  <2> QED
    BY <2>2 DEF PutAt
<1> QED
  BY <1>2, <1>3

LEMMA TellStep ==
  ASSUME BusOK, RequestsInv, CreatesInv, NEW w \in workers, WorkerTells(w)
  PROVE  BusOK' /\ RequestsInv' /\ CreatesInv'
<1> DEFINE m == Head(w.tell)
           l == Tail(w.tell)
           v == [w EXCEPT !.tell = l]
<1>1. /\ w.tell # <<>>
      /\ \/ Room("from_db") /\ chan' = [chan EXCEPT !["from_db"] = Append(@, m)]
         \/ chan' = chan
      /\ IF Tail(w.tell) = <<>>
           THEN Ends(w, "ok")
           ELSE workers' = (workers \ {w}) \cup {v} /\ answer' = answer
      /\ UNCHANGED <<feed, at, hand, creating, history>>
  BY DEF WorkerTells
<1>2. ChanOK(chan) /\ HandOK(hand) /\ RestOK /\ Capacity \in Nat
  BY Names DEF BusOK
<1>3. /\ w.msg \in Requests \cup Commands /\ w.tell \in Announcements
      /\ w = [msg |-> w.msg, tell |-> w.tell] /\ w.msg.by \in Askers
      /\ \A a \in Askers : Works(w, RequestsBy(a)) <=> w.msg.by = a
      /\ \A n \in Nodes : Works(w, Creation(n)) <=> Has(w.tell, Creation(n))
  BY <1>2, WorkerTypes
<1>4. /\ w.tell \in Seq(ConfigEvents) /\ m \in ConfigEvents
      /\ Tail(w.tell) \in Seq(ConfigEvents) /\ Len(Tail(w.tell)) = Len(w.tell) - 1
      /\ Len(w.tell) \in Nat \ {0} /\ DOMAIN w.tell = 1 .. Len(w.tell)
      /\ DOMAIN Tail(w.tell) = 1 .. Len(w.tell) - 1
      /\ m = w.tell[1] /\ \A i \in 1 .. Len(w.tell) - 1 : Tail(w.tell)[i] = w.tell[i + 1]
  BY <1>1, <1>3, Dequeue DEF Announcements
<1> HIDE DEF m, l
<1>5. v = [msg |-> w.msg, tell |-> l] /\ v.msg = w.msg /\ v.tell = l
  BY <1>3
<1> HIDE DEF v
<1> USE DEF l
<1>6. ChanOK(chan')
  <2>1. "from_db" \in Channels /\ m \in Carried("from_db") /\ m \in Messages
    BY <1>4, CarriedIs DEF Channels, Messages
  <2>2. CASE Room("from_db") /\ chan' = [chan EXCEPT !["from_db"] = Append(@, m)]
    <3>1. Len(chan["from_db"]) < Capacity
      BY <2>2 DEF Room
    <3> QED
      BY <1>2, <2>1, <2>2, <3>1, Put
  <2> QED
    BY <1>1, <1>2, <2>2
<1>7. \A a \in Askers : m \notin RequestsBy(a)
  BY <1>4, CountedSets, Kinds
<1>8. ASSUME NEW M, OneHeld(chan, hand, workers, M), m \notin M
      PROVE  hand' = hand /\ ChanHolders(chan', M) = ChanHolders(chan, M) /\ ChanOnce(chan', M)
  BY <1>1, <1>4, <1>8, ToldChan
<1>9. CASE Tail(w.tell) = <<>>
  <2>1. workers' = workers \ {w} /\ answer' = [answer EXCEPT ![w.msg.by] = "ok"]
    BY <1>1, <1>9 DEF Ends
  <2>2. RestOK'
    <3>1. answer' \in [Askers -> {"none", "ok", "failed", "closed"}]
      BY <1>2, <1>3, <2>1 DEF RestOK
    <3> QED
      BY <1>1, <1>2, <2>1, <3>1 DEF RestOK, history
  <2>3. ASSUME NEW a \in Askers, OneHeld(chan, hand, workers, RequestsBy(a))
        PROVE  /\ OneHeld(chan', hand', workers', RequestsBy(a))
               /\ AllHolders(chan', hand', workers', RequestsBy(a))
                    = IF w.msg.by = a THEN {} ELSE AllHolders(chan, hand, workers, RequestsBy(a))
               /\ w.msg.by = a => AllHolders(chan, hand, workers, RequestsBy(a)) # {}
    <3>1. /\ hand' = hand /\ ChanHolders(chan', RequestsBy(a)) = ChanHolders(chan, RequestsBy(a))
          /\ ChanOnce(chan', RequestsBy(a))
      BY <1>7, <1>8, <2>3
    <3>2. Works(w, RequestsBy(a)) <=> w.msg.by = a
      BY <1>3
    <3>3. /\ OneHeld(chan', hand', workers', RequestsBy(a))
          /\ AllHolders(chan', hand', workers', RequestsBy(a))
               = IF Works(w, RequestsBy(a)) THEN {} ELSE AllHolders(chan, hand, workers, RequestsBy(a))
          /\ Works(w, RequestsBy(a)) => AllHolders(chan, hand, workers, RequestsBy(a)) # {}
      BY <2>1, <2>3, <3>1, WorkerGone
    <3> QED
      BY <3>2, <3>3
  <2>4. AllHolders(chan, hand, workers, RequestsBy(w.msg.by)) # {}
    <3>1. Asker(chan, hand, workers, at, answer, w.msg.by)
      BY <1>3, InvariantsSplit
    <3> QED
      BY <1>3, <2>3, <3>1 DEF Asker
  <2>5. ASSUME NEW n \in Nodes, OneHeld(chan, hand, workers, Creation(n))
        PROVE  Fewer(Creation(n))
    <3>1. Works(w, Creation(n)) <=> m \in Creation(n)
      <4>1. DOMAIN w.tell = {1}
        <5>1. Len(w.tell) = 1
          BY <1>1, <1>4, <1>9, LastOne
        <5> QED
          BY <1>4, <5>1
      <4> QED
        BY <1>3, <1>4, <4>1 DEF Has
    <3>2. CASE m \notin Creation(n)
      <4>1. /\ hand' = hand /\ ChanHolders(chan', Creation(n)) = ChanHolders(chan, Creation(n))
            /\ ChanOnce(chan', Creation(n))
        BY <1>8, <2>5, <3>2
      <4>2. /\ OneHeld(chan', hand', workers', Creation(n))
            /\ AllHolders(chan', hand', workers', Creation(n))
                 = IF Works(w, Creation(n)) THEN {} ELSE AllHolders(chan, hand, workers, Creation(n))
        BY <2>1, <2>5, <4>1, WorkerGone
      <4> QED
        BY <3>1, <3>2, <4>2 DEF Fewer
    <3>3. CASE m \in Creation(n)
      <4>1. <<"work", w>> \in WorkHolders(workers, Creation(n))
        BY <3>1, <3>3, WorkerHolds
      <4>2. /\ WorkHolders(workers, Creation(n)) = {<<"work", w>>}
            /\ ChanHolders(chan, Creation(n)) = {} /\ HandHolders(hand, Creation(n)) = {}
        BY <2>5, <4>1, OnlyWork
      <4>3. /\ ChanOnce(chan', Creation(n))
            /\ \/ ChanHolders(chan', Creation(n)) = {}
               \/ ChanHolders(chan', Creation(n)) = {<<"chan", "from_db">>}
        BY <1>1, <1>4, <2>5, <3>3, <4>2, ToldChan
      <4>4. WorkHolders(workers', Creation(n)) = {} /\ HandHolders(hand', Creation(n)) = {}
        <5>1. hand' = hand
          BY <1>1
        <5>2. WorkHolders(workers', Creation(n)) = WorkHolders(workers, Creation(n)) \ {<<"work", w>>}
          BY <2>1, WorkersLess
        <5> QED
          BY <4>2, <5>1, <5>2
      <4>5. HandOnce(hand', Creation(n))
        BY <1>1, <2>5 DEF OneHeld
      <4>6. AllHolders(chan, hand, workers, Creation(n)) # {}
        BY <4>1 DEF AllHolders
      <4>7. OneHeld(chan', hand', workers', Creation(n))
        BY <4>3, <4>4, <4>5 DEF OneHeld, AllHolders
      <4> QED
        BY <4>6, <4>7 DEF Fewer
    <3> QED
      BY <3>2, <3>3
  <2>6. UNCHANGED <<at, creating, nodes>>
    BY <1>1 DEF history
  <2>7. RequestsInv' /\ CreatesInv'
    BY <1>2, <1>3, <2>1, <2>3, <2>4, <2>5, <2>6, AnsweredKeeps
  <2> QED
    BY <1>1, <1>2, <1>6, <2>2, <2>7 DEF BusOK
<1>10. CASE Tail(w.tell) # <<>>
  <2>1. workers' = (workers \ {w}) \cup {v} /\ answer' = answer
    BY <1>1, <1>10
  <2>2. Len(w.tell) = 2 /\ \A i \in DOMAIN w.tell : w.tell[i].type = "Update"
    <3>1. Len(w.tell) # 1
      BY <1>1, <1>4, <1>10, LastOne
    <3> DEFINE k == Len(w.tell)
               updates == \A i \in DOMAIN w.tell : w.tell[i].type = "Update"
    <3>2. k \in Nat \ {0} /\ k # 1 /\ (k <= 1 \/ (k = 2 /\ updates))
      BY <1>3, <1>4, <3>1 DEF Announcements
    <3> HIDE DEF k, updates
    <3>3. k = 2 /\ updates
      BY <3>2
    <3> QED
      BY <3>3 DEF k, updates
  <2>3. Tail(w.tell) \in Announcements
    BY <1>4, <2>2 DEF Announcements
  <2>4. RestOK'
    <3>1. v \in [msg : Requests \cup Commands, tell : Announcements]
      BY <1>3, <1>5, <2>3
    <3> QED
      BY <1>1, <1>2, <2>1, <3>1 DEF RestOK, history
  <2>5. \A n \in Nodes : /\ ~Has(w.tell, Creation(n)) /\ ~Has(Tail(w.tell), Creation(n))
                         /\ m \notin Creation(n)
    <3>1. \A i \in DOMAIN Tail(w.tell) : i + 1 \in DOMAIN w.tell /\ Tail(w.tell)[i] = w.tell[i + 1]
      BY <1>4
    <3>2. \A i \in DOMAIN w.tell : \A n \in Nodes : w.tell[i] \notin Creation(n)
      BY <2>2 DEF Creation, ConfigEvent
    <3>3. 1 \in DOMAIN w.tell
      BY <1>4
    <3> QED
      BY <1>4, <3>1, <3>2, <3>3 DEF Has
  <2>6. \A a \in Askers : ~Has(w.tell, RequestsBy(a)) /\ ~Has(Tail(w.tell), RequestsBy(a))
    <3>1. \A e \in ConfigEvents : \A a \in Askers : e \notin RequestsBy(a)
      BY CountedSets, Kinds
    <3> QED
      BY <1>4, <3>1 DEF Has
  <2>7. \A n \in Nodes : Works(v, Creation(n)) <=> Works(w, Creation(n))
    BY <1>5, <2>5 DEF Works
  <2>8. \A a \in Askers : Works(v, RequestsBy(a)) <=> Works(w, RequestsBy(a))
    BY <1>5, <2>6 DEF Works
  <2>9. ASSUME NEW M, OneHeld(chan, hand, workers, M), m \notin M, Works(v, M) <=> Works(w, M)
        PROVE  Steady(M)
    <3>1. hand' = hand /\ ChanHolders(chan', M) = ChanHolders(chan, M) /\ ChanOnce(chan', M)
      BY <1>8, <2>9
    <3> QED
      BY <2>1, <2>9, <3>1, WorkerChanged
  <2>10. \A a \in Askers : OneHeld(chan, hand, workers, RequestsBy(a)) => Steady(RequestsBy(a))
    BY <1>7, <2>8, <2>9
  <2>11. \A n \in Nodes : OneHeld(chan, hand, workers, Creation(n)) => Fewer(Creation(n))
    BY <2>5, <2>7, <2>9 DEF Steady, Fewer
  <2>12. UNCHANGED <<at, answer, creating, nodes>>
    BY <1>1, <2>1 DEF history
  <2>13. RequestsInv'
    <3>1. Asker(chan, hand, workers, at, answer, w.msg.by)
      BY <1>3, InvariantsSplit
    <3>2. Asker(chan', hand', workers', at', answer', w.msg.by)
      BY <1>3, <2>10, <2>12, <3>1 DEF Steady, Asker
    <3> QED
      BY <1>3, <2>10, <2>12, <3>2, RequestsKept
  <2>14. CreatesInv'
    BY <2>11, <2>12, CreatesKept
  <2> QED
    BY <1>1, <1>2, <1>6, <2>4, <2>13, <2>14 DEF BusOK
<1> QED
  BY <1>9, <1>10

-----------------------------------------------------------------------------
(* Questions.                                                                *)

Waiting == {"answer", "devices", "values", "nodes", "lookup"}

LEMMA AskerSame ==
  ASSUME NEW a, Asker(chan, hand, workers, at, answer, a),
         OneHeld(chan, hand, workers, RequestsBy(a)) => Steady(RequestsBy(a)),
         at'[a] \in Waiting <=> at[a] \in Waiting, answer'[a] = answer[a]
  PROVE  Asker(chan', hand', workers', at', answer', a)
BY DEF Asker, Steady, Waiting

\* a takes its answer, or has none to take, and waits no more.
LEMMA AskerIdle ==
  ASSUME NEW a, Asker(chan, hand, workers, at, answer, a),
         OneHeld(chan, hand, workers, RequestsBy(a)) => Steady(RequestsBy(a)),
         at[a] \in Waiting => answer[a] # "none", at'[a] \notin Waiting, answer'[a] = "none"
  PROVE  Asker(chan', hand', workers', at', answer', a)
<1>1. /\ OneHeld(chan, hand, workers, RequestsBy(a))
      /\ AllHolders(chan, hand, workers, RequestsBy(a)) = {}
  BY DEF Asker, Waiting
<1>2. /\ OneHeld(chan', hand', workers', RequestsBy(a))
      /\ AllHolders(chan', hand', workers', RequestsBy(a)) = {}
  BY <1>1 DEF Steady
<1> QED
  BY <1>2 DEF Asker, Waiting

\* The channels hold the same messages of M.
SameChan(M) == ChanHolders(chan', M) = ChanHolders(chan, M) /\ ChanOnce(chan', M)

\* b asks by the message of o.
LEMMA AskKeeps ==
  ASSUME BusOK, RequestsInv, NEW b \in Askers, NEW o \in Outgoing, Sendable(o, b),
         o.msg \in RequestsBy(b), hand[b] = <<>>, hand' = [hand EXCEPT ![b] = <<o>>],
         workers' = workers,
         \A a \in Askers : OneHeld(chan, hand, workers, RequestsBy(a)) => SameChan(RequestsBy(a)),
         at[b] \in Waiting => answer[b] # "none", at'[b] \in Waiting, answer'[b] = "none",
         \A a \in Askers \ {b} : at'[a] = at[a] /\ answer'[a] = answer[a]
  PROVE  RequestsInv'
<1>1. \A M : OneHeld(chan, hand, workers, M) => HeldAt(hand, hand', b, o.msg, M)
  BY Names, Holding
<1>2. Asker(chan, hand, workers, at, answer, b)
  BY InvariantsSplit
<1>3. /\ OneHeld(chan, hand, workers, RequestsBy(b))
      /\ AllHolders(chan, hand, workers, RequestsBy(b)) = {}
  BY <1>2 DEF Asker, Waiting
<1>4. /\ ChanHolders(chan', RequestsBy(b)) = {} /\ WorkHolders(workers', RequestsBy(b)) = {}
      /\ HandHolders(hand', RequestsBy(b)) = {<<"hand", b>>}
      /\ ChanOnce(chan', RequestsBy(b)) /\ HandOnce(hand', RequestsBy(b))
  BY <1>1, <1>3 DEF SameChan, HeldAt, AllHolders
<1>5. Asker(chan', hand', workers', at', answer', b)
  <2>1. /\ OneHeld(chan', hand', workers', RequestsBy(b))
        /\ AllHolders(chan', hand', workers', RequestsBy(b)) # {}
    BY <1>4 DEF OneHeld, AllHolders
  <2> QED
    BY <2>1 DEF Asker, Waiting
<1>6. ASSUME NEW a \in Askers \ {b}, OneHeld(chan, hand, workers, RequestsBy(a))
      PROVE  Steady(RequestsBy(a))
  <2>1. o.msg \notin RequestsBy(a)
    BY DEF RequestsBy
  <2>2. HeldAt(hand, hand', b, o.msg, RequestsBy(a))
    BY <1>1, <1>6
  <2>3. SameChan(RequestsBy(a))
    BY <1>6
  <2>4. AllHolders(chan', hand', workers', RequestsBy(a))
          = AllHolders(chan, hand, workers, RequestsBy(a))
    BY <2>1, <2>2, <2>3 DEF SameChan, HeldAt, AllHolders
  <2> QED
    BY <1>6, <2>2, <2>3, <2>4 DEF SameChan, HeldAt, OneHeld, Steady
<1> QED
  BY <1>5, <1>6, RequestsKept

\* What is asked announces no node.
LEMMA AskCreates ==
  ASSUME BusOK, NEW b \in Tasks, NEW o \in Outgoing, Sendable(o, b),
         o.msg \in Requests \cup Commands, hand[b] = <<>>, hand' = [hand EXCEPT ![b] = <<o>>],
         chan' = chan, workers' = workers,
         NEW n \in Nodes, OneHeld(chan, hand, workers, Creation(n))
  PROVE  Steady(Creation(n))
<1>1. HeldAt(hand, hand', b, o.msg, Creation(n))
  BY Holding
<1>2. o.msg \notin Creation(n)
  BY CountedSets, Kinds
<1>3. AllHolders(chan', hand', workers', Creation(n)) = AllHolders(chan, hand, workers, Creation(n))
  BY <1>1, <1>2 DEF HeldAt, AllHolders
<1> QED
  BY <1>1, <1>3 DEF OneHeld, HeldAt, Steady

LEMMA NothingMoves ==
  ASSUME UNCHANGED <<chan, hand, workers>>, NEW M, OneHeld(chan, hand, workers, M)
  PROVE  Steady(M) /\ Fewer(M)
BY DEF Steady, Fewer

LEMMA ChangesAre ==
  ASSUME RestOK, NEW n \in Nodes, NEW e \in Changes(n)
  PROVE  e \in Announcements \ {<<>>} /\ Len(e) \in Nat
<1>1. \A k \in Nodes : \A y \in {"Create", "Update", "Delete"} :
        ConfigEvent(y, k) \in ConfigEvents /\ ConfigEvent(y, k).type = y
  BY DEF ConfigEvent, ConfigEvents
<1>2. ASSUME NEW x \in ConfigEvents, e = <<x>>
      PROVE  e \in Announcements \ {<<>>} /\ Len(e) \in Nat
  BY <1>2 DEF Announcements
<1>3. ASSUME NEW x \in ConfigEvents, NEW y \in ConfigEvents, e = <<x, y>>,
             x.type = "Update", y.type = "Update"
      PROVE  e \in Announcements \ {<<>>} /\ Len(e) \in Nat
  BY <1>3 DEF Announcements
<1> HIDE DEF ConfigEvent
<1>4. \/ \E y \in {"Create", "Update", "Delete"} : e = <<ConfigEvent(y, n)>>
      \/ \E k \in Nodes : e = <<ConfigEvent("Update", n), ConfigEvent("Update", k)>>
  <2>1. nodes[n] \in {"none", "present", "deleted"}
    BY DEF RestOK
  <2>2. CASE nodes[n] = "present"
    BY <2>2 DEF Changes
  <2>3. CASE nodes[n] = "none"
    BY <2>3 DEF Changes
  <2>4. CASE nodes[n] = "deleted"
    BY <2>4 DEF Changes
  <2> QED
    BY <2>1, <2>2, <2>3, <2>4
<1> QED
  BY <1>1, <1>2, <1>3, <1>4

LEMMA AskedStep ==
  ASSUME BusOK, RequestsInv, CreatesInv, NEW c \in Clients, NEW m \in Requests \cup Commands,
         m.by = c, Asked(c, m), changes' \in 0 .. MaxChanges
  PROVE  BusOK' /\ RequestsInv' /\ CreatesInv'
<1> DEFINE o == [to |-> "from_api", msg |-> m]
<1>1. /\ at[c] = "idle" /\ at' = [at EXCEPT ![c] = "answer"]
      /\ hand' = [hand EXCEPT ![c] = <<o>>]
      /\ UNCHANGED <<chan, feed, nodes, workers, answer, creating, made, stored, shown>>
  BY DEF Asked
<1>2. /\ c \in Askers /\ c \in Tasks /\ c \notin Nodes /\ c # "node_master"
      /\ ChanOK(chan) /\ HandOK(hand) /\ RestOK
  BY Names DEF BusOK
<1>3. o \in Outgoing /\ Sendable(o, c) /\ o.msg = m
  <2>1. "from_api" \in Channels /\ m \in Carried("from_api") /\ m \in Messages
    BY CarriedIs DEF Channels, Messages
  <2> QED
    BY <1>2, <2>1, OutletsOf DEF Outgoing, Sendable
<1> HIDE DEF o
<1>4. hand[c] = <<>>
  BY <1>1, <1>2 DEF RestOK
<1>5. HandOK(hand') /\ \A u \in Tasks \ {c} : hand'[u] = hand[u]
  BY <1>1, <1>2, <1>3, <1>4, Holding
<1>6. at'[c] = "answer" /\ \A u \in Tasks \ {c} : at'[u] = at[u]
  BY <1>1, <1>2 DEF RestOK
<1>7. RestOK'
  <2>1. at' \in [Tasks -> {"idle", "select", "answer", "devices", "values", "nodes", "lookup",
                           "absent", "gone", "panicked"}]
    <3>1. at \in [Tasks -> {"idle", "select", "answer", "devices", "values", "nodes", "lookup",
                            "absent", "gone", "panicked"}]
      BY <1>2 DEF RestOK
    <3> QED
      BY <1>1, <1>2, <3>1
  <2>2. \A u \in Clients : at'[u] = "idle" => hand'[u] = <<>>
    <3>1. \A u \in Clients : u \in Tasks /\ (at[u] = "idle" => hand[u] = <<>>)
      BY <1>2, Names DEF RestOK
    <3> QED
      BY <1>5, <1>6, <3>1
  <2>3. at'["node_master"] = "nodes" => \A n \in Nodes : at'[n] = "absent"
    BY <1>2, <1>6, Names DEF RestOK
  <2> QED
    BY <1>1, <1>2, <2>1, <2>2, <2>3 DEF RestOK
<1>8. answer[c] = "none"
  <2>1. Asker(chan, hand, workers, at, answer, c)
    BY <1>2, InvariantsSplit
  <2> QED
    BY <1>1, <2>1 DEF Asker
<1>9. RequestsInv'
  <2>1. o.msg \in RequestsBy(c)
    BY <1>3 DEF RequestsBy
  <2>2. \A a \in Askers : OneHeld(chan, hand, workers, RequestsBy(a)) => SameChan(RequestsBy(a))
    BY <1>1 DEF OneHeld, SameChan
  <2>3. at[c] \notin Waiting /\ at'[c] \in Waiting /\ answer'[c] = "none"
    BY <1>1, <1>6, <1>8 DEF Waiting
  <2>4. \A a \in Askers \ {c} : at'[a] = at[a] /\ answer'[a] = answer[a]
    BY <1>1, <1>6, Names
  <2> QED
    BY <1>1, <1>2, <1>3, <1>4, <2>1, <2>2, <2>3, <2>4, AskKeeps
<1>10. CreatesInv'
  <2>1. \A n \in Nodes : OneHeld(chan, hand, workers, Creation(n)) => Fewer(Creation(n))
    BY <1>1, <1>2, <1>3, <1>4, AskCreates DEF Steady, Fewer
  <2>2. \A n \in Nodes : at'[n] = at[n]
    BY <1>2, <1>6, Names
  <2> QED
    BY <1>1, <2>1, <2>2, CreatesKept
<1> QED
  BY <1>1, <1>2, <1>5, <1>7, <1>9, <1>10 DEF BusOK

LEMMA ClientSteps ==
  ASSUME BusOK, RequestsInv, CreatesInv, NEW c \in Clients, ClientAsks(c) \/ ClientCommands(c)
  PROVE  BusOK' /\ RequestsInv' /\ CreatesInv'
<1>1. RestOK /\ changes \in 0 .. MaxChanges /\ MaxChanges \in Nat /\ c \in Askers
  BY Names DEF BusOK, RestOK
<1>2. CASE ClientAsks(c)
  <2>1. PICK m \in {Request(c), GetMeasure(c)} : Asked(c, m)
    BY <1>2 DEF ClientAsks
  <2>2. m \in Requests \cup Commands /\ m.by = c
    BY <1>1, <2>1 DEF Request, GetMeasure, Requests
  <2>3. changes' \in 0 .. MaxChanges
    BY <1>1, <1>2 DEF ClientAsks
  <2> QED
    BY <2>1, <2>2, <2>3, AskedStep
<1>3. CASE ClientCommands(c)
  <2>1. PICK n \in Nodes : \E e \in Changes(n) :
          /\ changes' = changes + Len(e) /\ changes' <= MaxChanges
          /\ Asked(c, Command(c, e))
    BY <1>3 DEF ClientCommands
  <2>2. PICK e \in Changes(n) :
          /\ changes' = changes + Len(e) /\ changes' <= MaxChanges
          /\ Asked(c, Command(c, e))
    BY <2>1
  <2>3. e \in Announcements \ {<<>>} /\ Len(e) \in Nat
    BY <1>1, ChangesAre
  <2>4. Command(c, e) \in Requests \cup Commands /\ Command(c, e).by = c
    BY <2>3 DEF Command, Commands
  <2>5. changes' \in 0 .. MaxChanges
    BY <1>1, <2>2, <2>3
  <2> QED
    BY <2>2, <2>4, <2>5, AskedStep
<1> QED
  BY <1>2, <1>3

LEMMA AnswerTaken ==
  ASSUME RestOK, NEW t \in Askers, NEW place, Answered(t, place)
  PROVE  /\ at[t] = place /\ hand[t] = <<>> /\ answer[t] # "none" /\ answer'[t] = "none"
         /\ \A a \in Askers \ {t} : answer'[a] = answer[a]
         /\ answer' \in [Askers -> {"none", "ok", "failed", "closed"}]
BY DEF RestOK, Answered

LEMMA ClientAnsweredStep ==
  ASSUME BusOK, RequestsInv, CreatesInv, NEW c \in Clients, ClientAnswered(c)
  PROVE  BusOK' /\ RequestsInv' /\ CreatesInv'
<1>1. /\ c \in Askers /\ c \in Tasks /\ c \notin Nodes /\ c # "node_master"
      /\ ChanOK(chan) /\ HandOK(hand) /\ RestOK
  BY Names DEF BusOK
<1>2. /\ at[c] = "answer" /\ hand[c] = <<>> /\ answer[c] # "none" /\ answer'[c] = "none"
      /\ \A a \in Askers \ {c} : answer'[a] = answer[a]
      /\ answer' \in [Askers -> {"none", "ok", "failed", "closed"}]
  BY <1>1, AnswerTaken DEF ClientAnswered
<1>3. /\ at' = [at EXCEPT ![c] = "idle"]
      /\ UNCHANGED <<chan, feed, hand, workers, creating, history>>
  BY DEF ClientAnswered
<1>4. at'[c] = "idle" /\ \A u \in Tasks \ {c} : at'[u] = at[u]
  BY <1>1, <1>3 DEF RestOK
<1>5. RestOK'
  <2>1. at' \in [Tasks -> {"idle", "select", "answer", "devices", "values", "nodes", "lookup",
                           "absent", "gone", "panicked"}]
    BY <1>1, <1>3 DEF RestOK
  <2>2. \A u \in Clients : at'[u] = "idle" => hand'[u] = <<>>
    BY <1>1, <1>2, <1>3, <1>4, Names DEF RestOK
  <2>3. at'["node_master"] = "nodes" => \A n \in Nodes : at'[n] = "absent"
    BY <1>1, <1>4, Names DEF RestOK
  <2> QED
    BY <1>1, <1>2, <1>3, <2>1, <2>2, <2>3 DEF RestOK, history
<1>6. ASSUME NEW M, OneHeld(chan, hand, workers, M)
      PROVE  Steady(M) /\ Fewer(M)
  BY <1>3, <1>6, NothingMoves
<1>7. RequestsInv'
  <2>1. Asker(chan, hand, workers, at, answer, c)
    BY <1>1, InvariantsSplit
  <2>2. Asker(chan', hand', workers', at', answer', c)
    BY <1>2, <1>4, <1>6, <2>1, AskerIdle DEF Waiting
  <2> QED
    BY <1>1, <1>2, <1>4, <1>6, <2>2, Names, RequestsKept
<1>8. CreatesInv'
  <2>1. \A n \in Nodes : at'[n] = at[n]
    BY <1>1, <1>4, Names
  <2> QED
    BY <1>3, <1>6, <2>1, CreatesKept DEF history
<1> QED
  BY <1>1, <1>3, <1>5, <1>7, <1>8 DEF BusOK

LEMMA PollStep ==
  ASSUME BusOK, NEW n \in Nodes, NodePolls(n)
  PROVE  BusOK' /\ AllSteady
<1>1. PICK kind \in {"DeviceEvent", "NodeEvent"} :
        /\ hand' = [hand EXCEPT ![n] = <<[to |-> "from_node", msg |-> Event(kind, n)]>>]
        /\ made' = [made EXCEPT ![n] = Append(@, Event(kind, n))]
  BY DEF NodePolls
<1> DEFINE m == Event(kind, n)
           o == [to |-> "from_node", msg |-> m]
<1>2. /\ hand[n] = <<>> /\ Len(made[n]) < MaxEvents
      /\ UNCHANGED <<chan, feed, at, nodes, workers, answer, creating, stored, shown, changes>>
  BY DEF NodePolls, Free
<1>3. /\ n \in Tasks /\ n \notin Clients /\ MaxEvents \in Nat
      /\ ChanOK(chan) /\ HandOK(hand) /\ RestOK
  BY Names DEF BusOK
<1>4. m \in Events /\ m.node = n
  <2>1. made[n] \in Seq(Events)
    BY <1>3 DEF RestOK
  <2>2. Len(made[n]) + 1 \in 1 .. MaxEvents
    BY <1>2, <1>3, <2>1
  <2> QED
    BY <2>2 DEF Event, Events
<1>5. o \in Outgoing /\ Sendable(o, n) /\ o.msg = m
  <2>1. "from_node" \in Channels /\ m \in Carried("from_node") /\ m \in Messages
    BY <1>4, CarriedIs DEF Channels, Messages
  <2> QED
    BY <1>4, <2>1, OutletsOf DEF Outgoing, Sendable
<1>6. hand' = [hand EXCEPT ![n] = <<o>>] /\ made' = [made EXCEPT ![n] = Append(@, m)]
  BY <1>1
<1> HIDE DEF o, m
<1>7. /\ HandOK(hand') /\ \A u \in Tasks \ {n} : hand'[u] = hand[u]
      /\ \A M : OneHeld(chan, hand, workers, M) => HeldAt(hand, hand', n, m, M)
  BY <1>2, <1>3, <1>5, <1>6, Holding
<1>8. RestOK'
  <2>1. made \in [Nodes -> Seq(Events)] /\ \A k \in Nodes : Len(made[k]) <= MaxEvents
    BY <1>3 DEF RestOK
  <2>2. made' \in [Nodes -> Seq(Events)] /\ made'[n] = Append(made[n], m)
    BY <1>4, <1>6, <2>1
  <2>3. Len(Append(made[n], m)) = Len(made[n]) + 1 /\ Len(made[n]) \in Nat
    BY <1>4, <2>1, Enqueue
  <2>4. \A k \in Nodes : Len(made'[k]) <= MaxEvents
    BY <1>2, <1>3, <1>6, <2>1, <2>2, <2>3
  <2>5. \A u \in Clients : at'[u] = "idle" => hand'[u] = <<>>
    BY <1>2, <1>3, <1>7, Names DEF RestOK
  <2> QED
    BY <1>2, <1>3, <2>2, <2>4, <2>5 DEF RestOK
<1>9. ASSUME NEW M, Counted(M), OneHeld(chan, hand, workers, M)
      PROVE  Steady(M)
  <2>1. m \notin M /\ HeldAt(hand, hand', n, m, M)
    BY <1>4, <1>7, <1>9, NoEventCounted
  <2>2. AllHolders(chan', hand', workers', M) = AllHolders(chan, hand, workers, M)
    BY <1>2, <2>1 DEF HeldAt, AllHolders
  <2> QED
    BY <1>2, <1>9, <2>1, <2>2 DEF HeldAt, OneHeld, Steady
<1> QED
  BY <1>2, <1>3, <1>7, <1>8, <1>9 DEF BusOK, AllSteady

\* What a step of the task of node n that is no poll may change.
NodeOnly(n) ==
  /\ UNCHANGED <<chan, workers, creating, history>>
  /\ hand[n] = <<>> /\ at[n] # "absent" /\ (at[n] \in Waiting => answer[n] # "none")
  /\ at' \in [Tasks -> {"idle", "select", "answer", "devices", "values", "nodes", "lookup",
                        "absent", "gone", "panicked"}]
  /\ \A u \in Tasks \ {n} : at'[u] = at[u]
  /\ answer' \in [Askers -> {"none", "ok", "failed", "closed"}]
  /\ answer'[n] = "none" /\ \A a \in Askers \ {n} : answer'[a] = answer[a]
  /\ feed' \in [Nodes -> Seq(ConfigEvents)] /\ \A k \in Nodes : Len(feed'[k]) <= FeedCapacity

LEMMA NodeRest ==
  ASSUME RestOK, NEW n \in Nodes, NodeOnly(n), \A u \in Tasks \ {n} : hand'[u] = hand[u]
  PROVE  RestOK'
<1>1. \A u \in Clients : u \in Tasks \ {n}
  BY Names
<1>2. "node_master" \in Tasks \ {n}
  BY Names
<1>3. \A u \in Clients : at'[u] = "idle" => hand'[u] = <<>>
  BY <1>1 DEF RestOK, NodeOnly
<1>4. at'["node_master"] # "nodes"
  BY <1>2 DEF RestOK, NodeOnly
<1> QED
  BY <1>3, <1>4 DEF RestOK, NodeOnly, history

LEMMA NodeAsks ==
  ASSUME BusOK, RequestsInv, CreatesInv, NEW n \in Nodes, NodeOnly(n), at'[n] \in Waiting,
         hand' = [hand EXCEPT ![n] = Asking(n)]
  PROVE  BusOK' /\ RequestsInv' /\ CreatesInv'
<1> DEFINE o == [to |-> "from_node", msg |-> Request(n)]
<1>1. hand' = [hand EXCEPT ![n] = <<o>>]
  BY DEF Asking
<1>2. /\ n \in Askers /\ n \in Tasks /\ ChanOK(chan) /\ HandOK(hand) /\ RestOK
  BY Names DEF BusOK
<1>3. o.msg \in Requests /\ o.msg.by = n
  BY <1>2 DEF Request, Requests
<1>4. o \in Outgoing /\ Sendable(o, n)
  <2>1. "from_node" \in Channels /\ o.msg \in Carried("from_node") /\ o.msg \in Messages
    BY <1>3, CarriedIs DEF Channels, Messages
  <2>2. o.msg \notin Events
    BY <1>3, Kinds
  <2> QED
    BY <2>1, <2>2, OutletsOf DEF Outgoing, Sendable
<1> HIDE DEF o
<1>5. HandOK(hand') /\ \A u \in Tasks \ {n} : hand'[u] = hand[u]
  BY <1>1, <1>2, <1>4, Holding DEF NodeOnly
<1>6. RestOK'
  BY <1>2, <1>5, NodeRest
<1>7. RequestsInv'
  <2>1. o.msg \in RequestsBy(n)
    BY <1>3 DEF RequestsBy
  <2>2. \A a \in Askers : OneHeld(chan, hand, workers, RequestsBy(a)) => SameChan(RequestsBy(a))
    BY DEF NodeOnly, OneHeld, SameChan
  <2>3. \A a \in Askers \ {n} : at'[a] = at[a] /\ answer'[a] = answer[a]
    BY Names DEF NodeOnly
  <2> QED
    BY <1>1, <1>2, <1>4, <2>1, <2>2, <2>3, AskKeeps DEF NodeOnly
<1>8. CreatesInv'
  <2>1. \A k \in Nodes : OneHeld(chan, hand, workers, Creation(k)) => Fewer(Creation(k))
    BY <1>1, <1>2, <1>3, <1>4, AskCreates DEF NodeOnly, Steady, Fewer
  <2>2. \A k \in Nodes : at[k] = "absent" => at'[k] = "absent"
    BY Names DEF NodeOnly
  <2> QED
    BY <2>1, <2>2, CreatesKept DEF NodeOnly, history
<1> QED
  BY <1>2, <1>5, <1>6, <1>7, <1>8 DEF BusOK, NodeOnly

LEMMA NodeGoesOn ==
  ASSUME BusOK, RequestsInv, CreatesInv, NEW n \in Nodes, NodeOnly(n), at'[n] \notin Waiting,
         hand' = hand
  PROVE  BusOK' /\ RequestsInv' /\ CreatesInv'
<1>1. n \in Askers /\ ChanOK(chan) /\ HandOK(hand) /\ RestOK
  BY Names DEF BusOK
<1>2. RestOK'
  BY <1>1, NodeRest
<1>3. ASSUME NEW M, OneHeld(chan, hand, workers, M)
      PROVE  Steady(M) /\ Fewer(M)
  BY <1>3, NothingMoves DEF NodeOnly
<1>4. RequestsInv'
  <2>1. Asker(chan, hand, workers, at, answer, n)
    BY <1>1, InvariantsSplit
  <2>2. Asker(chan', hand', workers', at', answer', n)
    BY <1>3, <2>1, AskerIdle DEF NodeOnly
  <2>3. \A a \in Askers \ {n} : at'[a] = at[a] /\ answer'[a] = answer[a]
    BY Names DEF NodeOnly
  <2> QED
    BY <1>1, <1>3, <2>2, <2>3, RequestsKept
<1>5. CreatesInv'
  <2>1. \A k \in Nodes : at[k] = "absent" => at'[k] = "absent"
    BY Names DEF NodeOnly
  <2> QED
    BY <1>3, <2>1, CreatesKept DEF NodeOnly, history
<1> QED
  BY <1>1, <1>2, <1>4, <1>5 DEF BusOK, NodeOnly

LEMMA NodeStep ==
  ASSUME BusOK, RequestsInv, CreatesInv, NEW n \in Nodes,
         NodeFetches(n) \/ NodeAnswered(n) \/ NodeHears(n)
  PROVE  BusOK' /\ RequestsInv' /\ CreatesInv'
<1>1. n \in Askers /\ n \in Tasks /\ ChanOK(chan) /\ HandOK(hand) /\ RestOK
  BY Names DEF BusOK
<1>2. /\ at \in [Tasks -> {"idle", "select", "answer", "devices", "values", "nodes", "lookup",
                           "absent", "gone", "panicked"}]
      /\ answer \in [Askers -> {"none", "ok", "failed", "closed"}]
      /\ feed \in [Nodes -> Seq(ConfigEvents)] /\ \A k \in Nodes : Len(feed[k]) <= FeedCapacity
  BY <1>1 DEF RestOK
<1>3. at[n] \notin Waiting => answer[n] = "none"
  <2>1. Asker(chan, hand, workers, at, answer, n)
    BY <1>1, InvariantsSplit
  <2> QED
    BY <2>1 DEF Asker, Waiting
<1>4. CASE NodeFetches(n)
  <2>1. NodeOnly(n) /\ at'[n] \in Waiting
    BY <1>1, <1>2, <1>3, <1>4, Names DEF NodeFetches, AsksForDevices, Free, NodeOnly, Waiting
  <2>2. hand' = [hand EXCEPT ![n] = Asking(n)]
    BY <1>4 DEF NodeFetches, AsksForDevices
  <2> QED
    BY <2>1, <2>2, NodeAsks
<1>5. CASE NodeAnswered(n)
  <2>1. PICK place \in {"devices", "values"} : Answered(n, place)
    BY <1>5 DEF NodeAnswered
  <2>2. /\ at[n] = place /\ hand[n] = <<>> /\ answer[n] # "none" /\ answer'[n] = "none"
        /\ \A a \in Askers \ {n} : answer'[a] = answer[a]
        /\ answer' \in [Askers -> {"none", "ok", "failed", "closed"}]
    BY <1>1, <2>1, AnswerTaken
  <2>3. \/ at' = [at EXCEPT ![n] = "select"] /\ hand' = hand
        \/ \E p \in {"devices", "values"} :
             at' = [at EXCEPT ![n] = p] /\ hand' = [hand EXCEPT ![n] = Asking(n)]
        \/ at' = at /\ at[n] = "values" /\ hand' = [hand EXCEPT ![n] = Asking(n)]
    BY <1>5 DEF NodeAnswered, AsksForDevices, Answered
  <2>4. UNCHANGED <<chan, feed, workers, creating, history>>
    BY <1>5 DEF NodeAnswered
  <2>5. CASE at' = [at EXCEPT ![n] = "select"] /\ hand' = hand
    <3>1. NodeOnly(n) /\ at'[n] \notin Waiting
      BY <1>1, <1>2, <2>2, <2>4, <2>5 DEF NodeOnly, Waiting
    <3> QED
      BY <2>5, <3>1, NodeGoesOn
  <2>6. CASE \/ \E p \in {"devices", "values"} : at' = [at EXCEPT ![n] = p]
             \/ at' = at /\ at[n] = "values"
    <3>1. NodeOnly(n) /\ at'[n] \in Waiting
      BY <1>1, <1>2, <2>2, <2>4, <2>6 DEF NodeOnly, Waiting
    <3>2. at'[n] # "select"
      BY <3>1 DEF Waiting
    <3>3. hand' = [hand EXCEPT ![n] = Asking(n)]
      BY <1>1, <1>2, <2>3, <3>2
    <3> QED
      BY <3>1, <3>3, NodeAsks
  <2> QED
    BY <2>3, <2>5, <2>6
<1>6. CASE NodeHears(n)
  <2>1. /\ at[n] = "select" /\ hand[n] = <<>> /\ feed[n] # <<>>
        /\ UNCHANGED <<chan, workers, answer, creating, history>>
    BY <1>6 DEF NodeHears, Free
  <2>2. \/ /\ AsksForDevices(n)
           /\ feed' = [feed EXCEPT ![n] = Tail(@)]
        \/ /\ at' = [at EXCEPT ![n] = "gone"]
           /\ feed' = [feed EXCEPT ![n] = <<>>]
           /\ hand' = hand
        \/ feed' = [feed EXCEPT ![n] = Tail(@)] /\ UNCHANGED <<at, hand>>
    BY <1>6 DEF NodeHears
  <2>3. feed' \in [Nodes -> Seq(ConfigEvents)] /\ \A k \in Nodes : Len(feed'[k]) <= FeedCapacity
    <3>1. /\ Tail(feed[n]) \in Seq(ConfigEvents) /\ Len(Tail(feed[n])) = Len(feed[n]) - 1
          /\ Len(feed[n]) \in Nat /\ feed[n] \in Seq(ConfigEvents)
      BY <1>2, <2>1, Dequeue
    <3>2. <<>> \in Seq(ConfigEvents) /\ Len(<<>>) = 0
      OBVIOUS
    <3>3. PICK s \in Seq(ConfigEvents) : feed' = [feed EXCEPT ![n] = s] /\ Len(s) <= FeedCapacity
      <4>1. Len(Tail(feed[n])) <= FeedCapacity /\ Len(<<>>) <= FeedCapacity
        BY <1>2, <3>1, <3>2, Names
      <4> QED
        BY <2>2, <3>1, <3>2, <4>1
    <3> QED
      BY <1>2, <3>3
  <2>4. CASE AsksForDevices(n)
    <3>1. at' = [at EXCEPT ![n] = "devices"] /\ hand' = [hand EXCEPT ![n] = Asking(n)]
      BY <2>4 DEF AsksForDevices
    <3>2. NodeOnly(n) /\ at'[n] \in Waiting
      BY <1>1, <1>2, <1>3, <2>1, <2>3, <3>1 DEF NodeOnly, Waiting
    <3> QED
      BY <3>1, <3>2, NodeAsks
  <2>5. CASE hand' = hand /\ (at' = at \/ at' = [at EXCEPT ![n] = "gone"])
    <3>1. NodeOnly(n) /\ at'[n] \notin Waiting
      BY <1>1, <1>2, <1>3, <2>1, <2>3, <2>5 DEF NodeOnly, Waiting
    <3> QED
      BY <2>5, <3>1, NodeGoesOn
  <2> QED
    BY <2>2, <2>4, <2>5
<1> QED
  BY <1>4, <1>5, <1>6

-----------------------------------------------------------------------------
(* node_master.                                                              *)

LEMMA NodesReadStep ==
  ASSUME BusOK, RequestsInv, CreatesInv, NodesRead
  PROVE  BusOK' /\ RequestsInv' /\ CreatesInv'
<1> DEFINE d == "node_master"
<1>1. d \in Askers /\ d \in Tasks /\ d \notin Nodes /\ ChanOK(chan) /\ HandOK(hand) /\ RestOK
  BY Names DEF BusOK
<1>2. /\ at[d] = "nodes" /\ answer[d] # "none" /\ answer'[d] = "none"
      /\ \A a \in Askers \ {d} : answer'[a] = answer[a]
      /\ answer' \in [Askers -> {"none", "ok", "failed", "closed"}]
  BY <1>1, AnswerTaken DEF NodesRead
<1>3. /\ \/ at' = [t \in Tasks |-> IF t \in Initial \cup {d} THEN "select" ELSE at[t]]
         \/ at' = [at EXCEPT ![d] = "panicked"]
      /\ UNCHANGED <<chan, feed, hand, workers, creating, history>>
  BY DEF NodesRead
<1>4. /\ at' \in [Tasks -> {"idle", "select", "answer", "devices", "values", "nodes", "lookup",
                            "absent", "gone", "panicked"}]
      /\ at'[d] \in {"select", "panicked"}
      /\ \A t \in Tasks \ {d} : at'[t] = at[t] \/ (t \in Initial /\ at'[t] = "select")
  <2>1. CASE at' = [t \in Tasks |-> IF t \in Initial \cup {d} THEN "select" ELSE at[t]]
    BY <1>1, <2>1 DEF RestOK
  <2>2. CASE at' = [at EXCEPT ![d] = "panicked"]
    BY <1>1, <2>2 DEF RestOK
  <2> QED
    BY <1>3, <2>1, <2>2
<1>5. \A n \in Nodes : at[n] = "absent"
  BY <1>1, <1>2 DEF RestOK
<1>6. Initial \subseteq Nodes
  BY MessageBusAssumption
<1>7. RestOK'
  <2>1. \A u \in Clients : at'[u] = "idle" => hand'[u] = <<>>
    BY <1>1, <1>3, <1>4, <1>6, Names DEF RestOK
  <2> QED
    BY <1>1, <1>2, <1>3, <1>4, <2>1 DEF RestOK, history
<1>8. ASSUME NEW M, OneHeld(chan, hand, workers, M)
      PROVE  Steady(M) /\ Fewer(M)
  BY <1>3, <1>8, NothingMoves
<1>9. ASSUME NEW a \in Askers
      PROVE  Asker(chan', hand', workers', at', answer', a)
  <2>1. Asker(chan, hand, workers, at, answer, a)
    BY InvariantsSplit
  <2>2. CASE a = d
    BY <1>2, <1>4, <1>8, <2>1, <2>2, AskerIdle DEF Waiting
  <2>3. CASE a # d /\ at'[a] = at[a]
    <3>1. answer'[a] = answer[a]
      BY <1>2, <2>3
    <3> QED
      BY <1>8, <2>1, <2>3, <3>1, AskerSame
  <2>4. CASE a # d /\ a \in Initial /\ at'[a] = "select"
    <3>1. answer'[a] = answer[a] /\ at[a] = "absent"
      BY <1>2, <1>5, <1>6, <2>4
    <3>2. answer[a] = "none"
      BY <2>1, <3>1 DEF Asker
    <3> QED
      BY <1>8, <2>1, <2>4, <3>1, <3>2, AskerIdle DEF Waiting
  <2> QED
    BY <1>4, <2>2, <2>3, <2>4, Names
<1>10. ASSUME NEW n \in Nodes
       PROVE  Announced(chan', hand', workers', at', nodes', creating'.node, n)
  <2>1. Announced(chan, hand, workers, at, nodes, creating.node, n)
    BY InvariantsSplit
  <2>2. Steady(Creation(n))
    BY <1>8, <2>1 DEF Announced
  <2>3. n \notin Initial => at'[n] = at[n]
    BY <1>1, <1>4, Names
  <2> QED
    BY <1>3, <2>1, <2>2, <2>3 DEF Steady, Announced, history
<1> QED
  BY <1>1, <1>3, <1>7, <1>9, <1>10, InvariantsNext DEF BusOK

LEMMA BroadcastTypes ==
  ASSUME RestOK, NEW event \in ConfigEvents, Broadcast(event)
  PROVE  feed' \in [Nodes -> Seq(ConfigEvents)] /\ \A n \in Nodes : Len(feed'[n]) <= FeedCapacity
<1>1. ASSUME NEW n \in Nodes
      PROVE  feed'[n] \in Seq(ConfigEvents) /\ Len(feed'[n]) <= FeedCapacity
  <2>1. feed[n] \in Seq(ConfigEvents) /\ Len(feed[n]) <= FeedCapacity /\ FeedCapacity \in Nat \ {0}
    BY Names DEF RestOK
  <2>2. \/ feed'[n] = feed[n]
        \/ Len(feed[n]) < FeedCapacity /\ feed'[n] = Append(feed[n], event)
        \/ ~(Len(feed[n]) < FeedCapacity) /\ feed'[n] = Append(Tail(feed[n]), event)
    BY DEF Broadcast
  <2>3. CASE Len(feed[n]) < FeedCapacity /\ feed'[n] = Append(feed[n], event)
    BY <2>1, <2>3, Enqueue
  <2>4. CASE ~(Len(feed[n]) < FeedCapacity) /\ feed'[n] = Append(Tail(feed[n]), event)
    <3>1. feed[n] # <<>>
      BY <2>1, <2>4
    <3>2. Tail(feed[n]) \in Seq(ConfigEvents) /\ Len(Tail(feed[n])) = Len(feed[n]) - 1
      BY <2>1, <3>1, Dequeue
    <3>3. feed'[n] \in Seq(ConfigEvents) /\ Len(feed'[n]) = Len(Tail(feed[n])) + 1
      BY <2>4, <3>2, Enqueue
    <3>4. Len(feed[n]) \in Nat
      BY <2>1
    <3> QED
      BY <2>1, <3>2, <3>3, <3>4
  <2> QED
    BY <2>1, <2>2, <2>3, <2>4
<1>2. DOMAIN feed' = Nodes /\ feed' = [n \in Nodes |-> feed'[n]]
  BY DEF Broadcast
<1> QED
  BY <1>1, <1>2

\* What the question for a node is.
LEMMA LookupIs ==
  ASSUME NEW o, o = [to |-> "from_reader", msg |-> Request("node_master")]
  PROVE  /\ Lookup = <<o>> /\ o \in Outgoing /\ Sendable(o, "node_master")
         /\ o.msg \in RequestsBy("node_master") /\ o.msg \in Requests
<1>1. o.msg \in Requests /\ o.msg.by = "node_master" /\ o.to = "from_reader"
  BY Names DEF Request, Requests
<1>2. "from_reader" \in Channels /\ o.msg \in Carried("from_reader") /\ o.msg \in Messages
  BY <1>1, CarriedIs DEF Channels, Messages
<1>3. o \in Outgoing
  BY <1>1, <1>2 DEF Outgoing
<1>4. Sendable(o, "node_master")
  BY <1>1, OutletsOf, Names DEF Sendable
<1> QED
  BY <1>1, <1>3, <1>4 DEF Lookup, RequestsBy

LEMMA ConfigureStep ==
  ASSUME BusOK, RequestsInv, CreatesInv, MasterConfigures
  PROVE  BusOK' /\ RequestsInv' /\ CreatesInv'
<1> DEFINE e == Head(chan["to_reader"])
           d == "node_master"
           o == [to |-> "from_reader", msg |-> Request(d)]
<1>1. /\ "to_reader" \in Channels /\ d \in Tasks /\ d \in Askers /\ d \notin Nodes /\ d \notin Clients
      /\ hand[d] = <<>> /\ at[d] = "select" /\ chan["to_reader"] # <<>> /\ Take("to_reader")
      /\ IF e.type = "Create"
           THEN /\ at' = [at EXCEPT ![d] = "lookup"]
                /\ hand' = [hand EXCEPT ![d] = Lookup]
                /\ creating' = [node |-> e.node, tries |-> 0]
                /\ UNCHANGED feed
           ELSE Broadcast(e) /\ UNCHANGED <<at, hand, creating>>
      /\ UNCHANGED <<workers, answer, history>>
  BY Names DEF MasterConfigures, Free, Channels
<1>2. /\ ChanOK(chan') /\ e \in Carried("to_reader")
      /\ \A M : OneHeld(chan, hand, workers, M) => TookAt(chan, chan', "to_reader", e, M)
  BY <1>1, Taken
<1>3. HandOK(hand) /\ RestOK
  BY DEF BusOK
<1>4. e \in ConfigEvents
  BY <1>2, CarriedIs
<1>5. Lookup = <<o>> /\ o \in Outgoing /\ Sendable(o, d) /\ o.msg \in RequestsBy(d) /\ o.msg \in Requests
  BY LookupIs
<1> HIDE DEF e, o
<1>6. e.node \in Nodes
  BY <1>4 DEF ConfigEvents
<1>7. ASSUME NEW a \in Askers, OneHeld(chan, hand, workers, RequestsBy(a))
      PROVE  SameChan(RequestsBy(a))
  <2>1. e \notin RequestsBy(a)
    BY <1>4, CountedSets, Kinds
  <2> QED
    BY <1>2, <1>7, <2>1 DEF TookAt, SameChan
<1>8. CASE e.type # "Create"
  <2>1. Broadcast(e) /\ UNCHANGED <<at, hand, creating>>
    BY <1>1, <1>8
  <2>2. RestOK'
    <3>1. feed' \in [Nodes -> Seq(ConfigEvents)] /\ \A n \in Nodes : Len(feed'[n]) <= FeedCapacity
      BY <1>3, <1>4, <2>1, BroadcastTypes
    <3> QED
      BY <1>1, <1>3, <2>1, <3>1 DEF RestOK, history
  <2>3. ASSUME NEW M, OneHeld(chan, hand, workers, M)
        PROVE  /\ OneHeld(chan', hand', workers', M)
               /\ AllHolders(chan', hand', workers', M)
                    = IF e \in M THEN {} ELSE AllHolders(chan, hand, workers, M)
    <3>1. HandOnce(hand', M) /\ HandHolders(hand', M) = HandHolders(hand, M)
      BY <2>1, <2>3 DEF OneHeld
    <3> QED
      BY <1>1, <1>2, <2>3, <3>1, TakeAway
  <2>4. RequestsInv'
    <3>1. ASSUME NEW a \in Askers, OneHeld(chan, hand, workers, RequestsBy(a))
          PROVE  Steady(RequestsBy(a))
      <4>1. e \notin RequestsBy(a)
        BY <1>4, CountedSets, Kinds
      <4> QED
        BY <2>3, <3>1, <4>1 DEF Steady
    <3>2. ASSUME NEW a \in Askers
          PROVE  Asker(chan', hand', workers', at', answer', a)
      <4>1. Asker(chan, hand, workers, at, answer, a)
        BY InvariantsSplit
      <4> QED
        BY <1>1, <2>1, <3>1, <4>1, AskerSame
    <3> QED
      BY <3>2, InvariantsNext
  <2>5. CreatesInv'
    <3>1. \A n \in Nodes : OneHeld(chan, hand, workers, Creation(n)) => Fewer(Creation(n))
      BY <2>3 DEF Fewer
    <3> QED
      BY <1>1, <2>1, <3>1, CreatesKept DEF history
  <2> QED
    BY <1>2, <1>3, <2>1, <2>2, <2>4, <2>5 DEF BusOK
<1>9. CASE e.type = "Create"
  <2>1. /\ at' = [at EXCEPT ![d] = "lookup"] /\ hand' = [hand EXCEPT ![d] = <<o>>]
        /\ creating' = [node |-> e.node, tries |-> 0] /\ creating'.node = e.node
        /\ UNCHANGED <<feed, workers, answer, history>>
    BY <1>1, <1>5, <1>9
  <2>2. at'[d] = "lookup" /\ \A u \in Tasks \ {d} : at'[u] = at[u]
    BY <1>1, <1>3, <2>1 DEF RestOK
  <2>3. /\ HandOK(hand') /\ \A u \in Tasks \ {d} : hand'[u] = hand[u]
        /\ \A M : OneHeld(chan, hand, workers, M) => HeldAt(hand, hand', d, o.msg, M)
    BY <1>1, <1>5, <2>1, Holding
  <2>4. RestOK'
    <3>1. at' \in [Tasks -> {"idle", "select", "answer", "devices", "values", "nodes", "lookup",
                             "absent", "gone", "panicked"}]
      BY <1>1, <1>3, <2>1 DEF RestOK
    <3>2. creating' \in [node : Nodes \cup {"none"}, tries : 0 .. MaxTries - 1]
      BY <1>6, <2>1, Names
    <3>3. \A u \in Clients : at'[u] = "idle" => hand'[u] = <<>>
      BY <1>1, <1>3, <2>2, <2>3, Names DEF RestOK
    <3> QED
      BY <1>3, <2>1, <2>2, <3>1, <3>2, <3>3 DEF RestOK, history
  <2>5. RequestsInv'
    <3>1. answer[d] = "none"
      <4>1. Asker(chan, hand, workers, at, answer, d)
        BY <1>1, InvariantsSplit
      <4> QED
        BY <1>1, <4>1 DEF Asker
    <3>2. at[d] \notin Waiting /\ at'[d] \in Waiting /\ answer'[d] = "none"
      BY <1>1, <2>1, <2>2, <3>1 DEF Waiting
    <3>3. \A a \in Askers \ {d} : at'[a] = at[a] /\ answer'[a] = answer[a]
      BY <2>1, <2>2, Names
    <3> QED
      BY <1>1, <1>5, <1>7, <2>1, <3>2, <3>3, AskKeeps
  <2>6. ASSUME NEW n \in Nodes
        PROVE  Announced(chan', hand', workers', at', nodes', creating'.node, n)
    <3>1. Announced(chan, hand, workers, at, nodes, creating.node, n)
      BY InvariantsSplit
    <3>2. OneHeld(chan, hand, workers, Creation(n))
      BY <3>1 DEF Announced
    <3>3. HandOnce(hand', Creation(n)) /\ HandHolders(hand', Creation(n)) = HandHolders(hand, Creation(n))
      <4>1. o.msg \notin Creation(n)
        BY <1>5, CountedSets, Kinds
      <4>2. HeldAt(hand, hand', d, o.msg, Creation(n))
        BY <2>3, <3>2
      <4> QED
        BY <4>1, <4>2 DEF HeldAt
    <3>4. /\ OneHeld(chan', hand', workers', Creation(n))
          /\ AllHolders(chan', hand', workers', Creation(n))
               = IF e \in Creation(n) THEN {} ELSE AllHolders(chan, hand, workers, Creation(n))
      BY <1>2, <2>1, <3>2, <3>3, TakeAway
    <3>5. e \in Creation(n) <=> e.node = n
      BY <1>4, <1>9 DEF Creation, ConfigEvent, ConfigEvents
    <3>6. e \in Creation(n) => AllHolders(chan, hand, workers, Creation(n)) # {}
      <4>1. TookAt(chan, chan', "to_reader", e, Creation(n))
        BY <1>2, <3>2
      <4> QED
        BY <4>1 DEF TookAt, AllHolders
    <3>7. at'[n] = at[n] /\ nodes' = nodes
      BY <1>1, <2>1, <2>2, Names DEF history
    <3> QED
      BY <2>1, <3>1, <3>4, <3>5, <3>6, <3>7 DEF Announced
  <2> QED
    BY <1>2, <2>3, <2>4, <2>5, <2>6, InvariantsNext DEF BusOK
<1> QED
  BY <1>8, <1>9

LEMMA LookedUpStep ==
  ASSUME BusOK, RequestsInv, CreatesInv, LookedUp
  PROVE  BusOK' /\ RequestsInv' /\ CreatesInv'
<1> DEFINE d == "node_master"
           o == [to |-> "from_reader", msg |-> Request(d)]
           found == answer[d] = "ok"
           last == creating.tries + 1 = MaxTries
<1>1. d \in Askers /\ d \in Tasks /\ d \notin Nodes /\ ChanOK(chan) /\ HandOK(hand) /\ RestOK
  BY Names DEF BusOK
<1>2. /\ at[d] = "lookup" /\ hand[d] = <<>> /\ answer[d] # "none" /\ answer'[d] = "none"
      /\ \A a \in Askers \ {d} : answer'[a] = answer[a]
      /\ answer' \in [Askers -> {"none", "ok", "failed", "closed"}]
  BY <1>1, AnswerTaken DEF LookedUp
<1>3. /\ at' = CASE found -> [at EXCEPT ![d] = "select", ![creating.node] = "select"]
                 [] ~found /\ last -> [at EXCEPT ![d] = "select"]
                 [] OTHER -> at
      /\ IF found \/ last
           THEN /\ creating' = [node |-> "none", tries |-> 0]
                /\ UNCHANGED hand
           ELSE /\ creating' = [creating EXCEPT !.tries = @ + 1]
                /\ hand' = [hand EXCEPT ![d] = Lookup]
      /\ feed' = IF ~found /\ last THEN [feed EXCEPT ![creating.node] = <<>>] ELSE feed
      /\ UNCHANGED <<chan, workers, history>>
  BY DEF LookedUp
<1>4. /\ at \in [Tasks -> {"idle", "select", "answer", "devices", "values", "nodes", "lookup",
                           "absent", "gone", "panicked"}]
      /\ creating \in [node : Nodes \cup {"none"}, tries : 0 .. MaxTries - 1]
      /\ MaxTries \in Nat \ {0} /\ creating.node \notin Clients /\ creating.node # d
  BY <1>1, Names DEF RestOK
<1> HIDE DEF found, last
<1>5. feed' \in [Nodes -> Seq(ConfigEvents)] /\ \A n \in Nodes : Len(feed'[n]) <= FeedCapacity
  <2> DEFINE s == <<>>
  <2>1. s \in Seq(ConfigEvents) /\ Len(s) = 0
    OBVIOUS
  <2>2. feed' = feed \/ feed' = [feed EXCEPT ![creating.node] = s]
    BY <1>3
  <2> HIDE DEF s
  <2>3. CASE feed' = [feed EXCEPT ![creating.node] = s]
    <3>1. \A n \in Nodes : feed'[n] = feed[n] \/ feed'[n] = s
      BY <1>1, <2>3 DEF RestOK
    <3>2. feed' \in [Nodes -> Seq(ConfigEvents)]
      BY <1>1, <2>1, <2>3 DEF RestOK
    <3> QED
      BY <1>1, <2>1, <3>1, <3>2, Names DEF RestOK
  <2> QED
    BY <1>1, <2>2, <2>3 DEF RestOK
<1>6. CASE found \/ last
  <2>1. /\ creating' = [node |-> "none", tries |-> 0] /\ creating'.node = "none" /\ hand' = hand
        /\ UNCHANGED <<chan, workers, history>>
    BY <1>3, <1>6
  <2>2. /\ at' \in [Tasks -> {"idle", "select", "answer", "devices", "values", "nodes", "lookup",
                              "absent", "gone", "panicked"}]
        /\ at'[d] = "select"
        /\ \A t \in Tasks \ {d, creating.node} : at'[t] = at[t]
        /\ creating.node \in Nodes => at'[creating.node] = "select" \/ at' = [at EXCEPT ![d] = "select"]
    BY <1>1, <1>3, <1>4, <1>6, Names
  <2>3. \A t \in Tasks \ {d} : at'[t] = at[t] \/ (t = creating.node /\ t \in Nodes /\ at'[t] = "select")
    BY <1>1, <1>4, <2>2, Names
  <2>4. RestOK'
    <3>1. creating' \in [node : Nodes \cup {"none"}, tries : 0 .. MaxTries - 1]
      BY <1>4, <2>1
    <3>2. \A u \in Clients : at'[u] = "idle" => hand'[u] = <<>>
      BY <1>1, <1>4, <2>1, <2>2, Names DEF RestOK
    <3> QED
      BY <1>1, <1>2, <1>5, <2>1, <2>2, <3>1, <3>2 DEF RestOK, history
  <2>5. ASSUME NEW M, OneHeld(chan, hand, workers, M)
        PROVE  Steady(M)
    BY <2>1, <2>5, NothingMoves
  <2>6. ASSUME NEW a \in Askers
        PROVE  Asker(chan', hand', workers', at', answer', a)
    <3>1. Asker(chan, hand, workers, at, answer, a)
      BY InvariantsSplit
    <3>2. CASE a = d
      BY <1>2, <2>2, <2>5, <3>1, <3>2, AskerIdle DEF Waiting
    <3>3. CASE a # d /\ at'[a] = at[a]
      <4>1. answer'[a] = answer[a]
        BY <1>2, <3>3
      <4> QED
        BY <2>5, <3>1, <3>3, <4>1, AskerSame
    <3>4. CASE a # d /\ a = creating.node /\ a \in Nodes /\ at'[a] = "select"
      <4>1. Announced(chan, hand, workers, at, nodes, creating.node, a)
        BY <3>4, InvariantsSplit
      <4>2. at[a] = "absent" /\ answer'[a] = answer[a]
        BY <1>2, <3>4, <4>1 DEF Announced
      <4>3. answer[a] = "none"
        BY <3>1, <4>2 DEF Asker
      <4> QED
        BY <2>5, <3>1, <3>4, <4>2, <4>3, AskerIdle DEF Waiting
    <3> QED
      BY <2>3, <3>2, <3>3, <3>4, Names
  <2>7. ASSUME NEW n \in Nodes
        PROVE  Announced(chan', hand', workers', at', nodes', creating'.node, n)
    <3>1. Announced(chan, hand, workers, at, nodes, creating.node, n)
      BY InvariantsSplit
    <3>2. Steady(Creation(n))
      BY <2>5, <3>1 DEF Announced
    <3>3. n # creating.node => at'[n] = at[n]
      BY <1>1, <2>2, Names
    <3>4. creating'.node # n /\ nodes' = nodes
      BY <2>1, Names DEF history
    <3> QED
      BY <3>1, <3>2, <3>3, <3>4 DEF Steady, Announced
  <2> QED
    BY <1>1, <2>1, <2>4, <2>6, <2>7, InvariantsNext DEF BusOK
<1>7. CASE ~found /\ ~last
  <2>1. Lookup = <<o>> /\ o \in Outgoing /\ Sendable(o, d) /\ o.msg \in RequestsBy(d) /\ o.msg \in Requests
    BY LookupIs
  <2> HIDE DEF o
  <2>2. /\ creating' = [creating EXCEPT !.tries = @ + 1] /\ hand' = [hand EXCEPT ![d] = <<o>>]
        /\ at' = at /\ feed' = feed /\ UNCHANGED <<chan, workers, history>>
    BY <1>3, <1>7, <2>1
  <2>3. /\ creating' \in [node : Nodes \cup {"none"}, tries : 0 .. MaxTries - 1]
        /\ creating'.node = creating.node
    <3>1. creating.tries + 1 \in 0 .. MaxTries - 1
      BY <1>4, <1>7 DEF last
    <3> QED
      BY <1>4, <2>2, <3>1
  <2>4. HandOK(hand') /\ \A u \in Tasks \ {d} : hand'[u] = hand[u]
    BY <1>1, <1>2, <2>1, <2>2, Holding
  <2>5. RestOK'
    <3>1. \A u \in Clients : at'[u] = "idle" => hand'[u] = <<>>
      BY <1>1, <2>2, <2>4, Names DEF RestOK
    <3> QED
      BY <1>1, <1>2, <2>2, <2>3, <3>1 DEF RestOK, history
  <2>6. RequestsInv'
    <3>1. \A a \in Askers : OneHeld(chan, hand, workers, RequestsBy(a)) => SameChan(RequestsBy(a))
      BY <2>2 DEF OneHeld, SameChan
    <3>2. at'[d] \in Waiting
      BY <1>2, <2>2 DEF Waiting
    <3>3. \A a \in Askers \ {d} : at'[a] = at[a] /\ answer'[a] = answer[a]
      BY <1>2, <2>2
    <3> QED
      BY <1>1, <1>2, <2>1, <2>2, <3>1, <3>2, <3>3, AskKeeps
  <2>7. CreatesInv'
    <3>1. \A n \in Nodes : OneHeld(chan, hand, workers, Creation(n)) => Fewer(Creation(n))
      BY <1>1, <1>2, <2>1, <2>2, AskCreates DEF Steady, Fewer
    <3> QED
      BY <2>2, <2>3, <3>1, CreatesKept DEF history
  <2> QED
    BY <1>1, <2>2, <2>4, <2>5, <2>6, <2>7 DEF BusOK
<1> QED
  BY <1>6, <1>7

-----------------------------------------------------------------------------
(* The invariant.                                                            *)

LEMMA InitBus == Init => BusOK /\ RequestsInv /\ CreatesInv
<1> SUFFICES ASSUME Init PROVE BusOK /\ RequestsInv /\ CreatesInv
  OBVIOUS
<1> DEFINE d == "node_master"
           o == [to |-> "from_reader", msg |-> Request(d)]
           q == <<o>>
           e == <<>>
<1>1. /\ chan = [c \in Channels |-> e] /\ feed = [n \in Nodes |-> e]
      /\ at = [t \in Tasks |-> CASE t \in Clients -> "idle"
                                 [] t \in Nodes -> "absent"
                                 [] t = d -> "nodes"
                                 [] OTHER -> "select"]
      /\ hand = [t \in Tasks |-> IF t = d THEN q ELSE e]
      /\ nodes = [n \in Nodes |-> IF n \in Initial THEN "present" ELSE "none"]
      /\ workers = {} /\ answer = [a \in Askers |-> "none"]
      /\ creating = [node |-> "none", tries |-> 0]
      /\ made = [n \in Nodes |-> e] /\ stored = made /\ shown = made /\ changes = 0
  BY DEF Init, Lookup
<1>2. /\ o \in Outgoing /\ Sendable(o, d) /\ o.msg \in RequestsBy(d) /\ o.msg \in Requests
  BY LookupIs
<1>3. \A S : e \in Seq(S)
  OBVIOUS
<1>4. Len(e) = 0 /\ DOMAIN e = {}
  OBVIOUS
<1> HIDE DEF o
<1>5. q \in Seq(Outgoing) /\ Len(q) = 1 /\ DOMAIN q = {1} /\ q[1] = o
  BY <1>2
<1> HIDE DEF q, e
<1>6. d \in Tasks /\ d \in Askers /\ d \notin Clients /\ d \notin Nodes
  BY Names
<1>7. /\ \A c \in Clients : at[c] = "idle" /\ hand[c] = e
      /\ \A n \in Nodes : at[n] = "absent"
      /\ at[d] = "nodes" /\ \A t \in Tasks \ {d} : at[t] \in {"idle", "absent", "select"}
  BY <1>1, <1>6, Names
<1>8. ChanOK(chan)
  BY <1>1, <1>3, <1>4, Names DEF ChanOK
<1>9. HandOK(hand)
  <2>1. hand \in [Tasks -> Seq(Outgoing)]
    BY <1>1, <1>3, <1>5
  <2>2. \A t \in Tasks : \A i \in DOMAIN hand[t] : t = d /\ i = 1 /\ hand[t][i] = o
    BY <1>1, <1>4, <1>5
  <2>3. \A t \in Tasks : Len(hand[t]) <= 2
    <3> SUFFICES ASSUME NEW t \in Tasks PROVE Len(hand[t]) <= 2
      OBVIOUS
    <3> DEFINE k == Len(hand[t])
    <3>1. k = 0 \/ k = 1
      BY <1>1, <1>4, <1>5
    <3> HIDE DEF k
    <3>2. k <= 2
      BY <3>1
    <3> QED
      BY <3>2 DEF k
  <2> QED
    BY <1>2, <2>1, <2>2, <2>3 DEF HandOK
<1>10. RestOK
  <2>1. at \in [Tasks -> {"idle", "select", "answer", "devices", "values", "nodes", "lookup",
                          "absent", "gone", "panicked"}]
    BY <1>1
  <2>2. creating \in [node : Nodes \cup {"none"}, tries : 0 .. MaxTries - 1]
    BY <1>1, Names
  <2>3. hand[d] # e => \A c \in Clients : hand[c] = <<>>
    BY <1>7 DEF e
  <2>4. feed \in [Nodes -> Seq(ConfigEvents)] /\ \A n \in Nodes : Len(feed[n]) <= FeedCapacity
    BY <1>1, <1>3, <1>4, Names
  <2>5. made \in [Nodes -> Seq(Events)] /\ \A n \in Nodes : Len(made[n]) <= MaxEvents
    BY <1>1, <1>3, <1>4, Names
  <2>6. \A c \in Clients : at[c] = "idle" => hand[c] = <<>>
    BY <1>7 DEF e
  <2>7. changes \in 0 .. MaxChanges
    BY <1>1, Names
  <2> QED
    BY <1>1, <1>7, <2>1, <2>2, <2>4, <2>5, <2>6, <2>7 DEF RestOK
<1>11. ASSUME NEW M
       PROVE  /\ ChanHolders(chan, M) = {} /\ WorkHolders(workers, M) = {}
              /\ HandHolders(hand, M) = IF o.msg \in M THEN {<<"hand", d>>} ELSE {}
              /\ OneHeld(chan, hand, workers, M)
  <2>1. ChanHolders(chan, M) = {} /\ ChanOnce(chan, M)
    BY <1>1, <1>4 DEF ChanHolders, ChanOnce, Has, Once
  <2>2. WorkHolders(workers, M) = {}
    BY <1>1 DEF WorkHolders
  <2>3. \A t \in Tasks : Hands(hand[t], M) <=> t = d /\ o.msg \in M
    BY <1>1, <1>4, <1>5 DEF Hands
  <2>4. HandHolders(hand, M) = IF o.msg \in M THEN {<<"hand", d>>} ELSE {}
    BY <1>6, <2>3 DEF HandHolders
  <2>5. HandOnce(hand, M)
    BY <1>1, <1>4, <1>5 DEF HandOnce, HandsOnce
  <2> QED
    BY <2>1, <2>2, <2>4, <2>5 DEF OneHeld, AllHolders
<1>12. ASSUME NEW a \in Askers
       PROVE  Asker(chan, hand, workers, at, answer, a)
  <2>1. o.msg \in RequestsBy(a) <=> a = d
    BY <1>2 DEF RequestsBy
  <2>2. AllHolders(chan, hand, workers, RequestsBy(a)) # {} <=> a = d
    BY <1>11, <2>1 DEF AllHolders
  <2>3. answer[a] = "none" /\ (at[a] \in Waiting <=> a = d)
    BY <1>1, <1>7, Names DEF Waiting
  <2> QED
    BY <1>11, <2>2, <2>3 DEF Asker, Waiting
<1>13. ASSUME NEW n \in Nodes
       PROVE  Announced(chan, hand, workers, at, nodes, creating.node, n)
  <2>1. o.msg \notin Creation(n)
    BY <1>2, CountedSets, Kinds
  <2>2. AllHolders(chan, hand, workers, Creation(n)) = {}
    BY <1>11, <2>1 DEF AllHolders
  <2>3. creating.node # n /\ at[n] = "absent" /\ (nodes[n] = "none" => n \notin Initial)
    BY <1>1, <1>7, Names
  <2> QED
    BY <1>11, <2>2, <2>3 DEF Announced
<1> QED
  BY <1>8, <1>9, <1>10, <1>12, <1>13, InvariantsSplit DEF BusOK

LEMMA StepBus == BusOK /\ RequestsInv /\ CreatesInv /\ [Next]_vars
                   => BusOK' /\ RequestsInv' /\ CreatesInv'
<1> SUFFICES ASSUME BusOK, RequestsInv, CreatesInv, [Next]_vars
             PROVE  BusOK' /\ RequestsInv' /\ CreatesInv'
  OBVIOUS
<1>1. ASSUME NEW t \in Tasks, Send(t)
      PROVE  BusOK' /\ RequestsInv' /\ CreatesInv'
  BY <1>1, SendStep, SteadyKeeps DEF Send, history
<1>2. ASSUME NEW c \in Clients, ClientAsks(c) \/ ClientCommands(c)
      PROVE  BusOK' /\ RequestsInv' /\ CreatesInv'
  BY <1>2, ClientSteps
<1>3. ASSUME NEW c \in Clients, ClientAnswered(c)
      PROVE  BusOK' /\ RequestsInv' /\ CreatesInv'
  BY <1>3, ClientAnsweredStep
<1>4. ASSUME NEW c \in {"from_api", "from_reader", "from_db"}, Forward(c)
      PROVE  BusOK' /\ RequestsInv' /\ CreatesInv'
  BY <1>4, ForwardStep, SteadyKeeps DEF Forward, history
<1>5. CASE Dispatch
  BY <1>5, DispatchStep, SteadyKeeps DEF Dispatch, history
<1>6. ASSUME NEW w \in workers, WorkerAnswers(w)
      PROVE  BusOK' /\ RequestsInv' /\ CreatesInv'
  <2>1. PICK r \in {"ok", "failed"} : Ends(w, r)
    BY <1>6 DEF WorkerAnswers
  <2> QED
    BY <1>6, <2>1, EndsStep DEF WorkerAnswers
<1>7. ASSUME NEW w \in workers, WorkerCommits(w)
      PROVE  BusOK' /\ RequestsInv' /\ CreatesInv'
  BY <1>7, CommitStep
<1>8. ASSUME NEW w \in workers, WorkerTells(w)
      PROVE  BusOK' /\ RequestsInv' /\ CreatesInv'
  BY <1>8, TellStep
<1>9. ASSUME NEW w \in workers, WorkerTimesOut(w)
      PROVE  BusOK' /\ RequestsInv' /\ CreatesInv'
  BY <1>9, EndsStep DEF WorkerTimesOut
<1>10. CASE MeasureMaster
  BY <1>10, MeasureMasterStep
<1>11. CASE Coordinator
  BY <1>11, CoordinatorStep, SteadyKeeps DEF Coordinator
<1>12. ASSUME NEW n \in Nodes, NodePolls(n)
       PROVE  BusOK' /\ RequestsInv' /\ CreatesInv'
  BY <1>12, PollStep, SteadyKeeps DEF NodePolls
<1>13. ASSUME NEW n \in Nodes, NodeFetches(n) \/ NodeAnswered(n) \/ NodeHears(n)
       PROVE  BusOK' /\ RequestsInv' /\ CreatesInv'
  BY <1>13, NodeStep
<1>14. CASE NodesRead
  BY <1>14, NodesReadStep
<1>15. CASE MasterConfigures
  BY <1>15, ConfigureStep
<1>16. CASE MasterForwards
  BY <1>16, MasterForwardsStep, SteadyKeeps DEF MasterForwards, history
<1>17. CASE LookedUp
  BY <1>17, LookedUpStep
<1>18. CASE UNCHANGED vars
  <2>1. BusOK'
    BY <1>18 DEF vars, BusOK, RestOK
  <2>2. AllSteady
    BY <1>18, NothingMoves DEF vars, AllSteady
  <2> QED
    BY <1>18, <2>1, <2>2, SteadyKeeps DEF vars
<1> QED
  BY <1>1, <1>2, <1>3, <1>4, <1>5, <1>6, <1>7, <1>8, <1>9, <1>10, <1>11, <1>12, <1>13, <1>14,
     <1>15, <1>16, <1>17, <1>18 DEF Next

LEMMA BusInvariant == Spec => [](BusOK /\ RequestsInv /\ CreatesInv)
BY InitBus, StepBus, PTL DEF Spec

(***************************************************************************)
(* The types, the outlets of the tasks, the one announcement of a node and *)
(* the one request of a task that waits hold in every state, for any       *)
(* number of handlers and nodes and any capacity of the channels: no await *)
(* of data_master, db_master, node_master or a database task doubles or    *)
(* loses a oneshot sender, and a Create is announced before the task of    *)
(* its node exists.                                                        *)
(***************************************************************************)
THEOREM Invariance == Spec => []IndInv
<1>1. BusOK /\ RequestsInv /\ CreatesInv => IndInv
  BY Parts DEF IndInv
<1> QED
  BY <1>1, BusInvariant, PTL

(***************************************************************************)
(* The channels never hold more than their capacity, nor anything the code *)
(* does not send through them.                                             *)
(***************************************************************************)
THEOREM TypeCorrect == Spec => []TypeOK
<1>1. IndInv => TypeOK
  BY DEF IndInv
<1> QED
  BY <1>1, Invariance, PTL

LEMMA OneRequest ==
  ASSUME BusOK, RequestsInv, NEW a \in Askers
  PROVE  Cardinality(RequestsOf(a)) = IF Waits(a) /\ answer[a] = "none" THEN 1 ELSE 0
<1> DEFINE R == RequestsBy(a)
           InChan(x) == \E c \in Channels : \E i \in DOMAIN chan[c] : x = <<c, i>> /\ chan[c][i] \in R
           InHand(x) == \E t \in Tasks : \E i \in DOMAIN hand[t] : x = <<t, i>> /\ hand[t][i].msg \in R
           InWork(x) == x \in workers /\ x.msg \in R
<1>1. /\ ChanOK(chan) /\ HandOK(hand) /\ RestOK
      /\ Asker(chan, hand, workers, at, answer, a)
  BY InvariantsSplit DEF BusOK
<1>2. \A m \in Messages : Asks(m) /\ m.by = a <=> m \in R
  BY Kinds DEF Messages, RequestsBy
<1>3. /\ \A c \in Channels : \A i \in DOMAIN chan[c] : chan[c][i] \in Messages
      /\ \A t \in Tasks : \A i \in DOMAIN hand[t] : hand[t][i].msg \in Messages
      /\ \A w \in workers : w.msg \in Messages /\ (Works(w, R) <=> w.msg \in R)
  <2>1. \A c \in Channels : chan[c] \in Seq(Messages)
    BY <1>1 DEF ChanOK
  <2>2. \A t \in Tasks : hand[t] \in Seq(Outgoing)
    BY <1>1 DEF HandOK
  <2>3. \A w \in workers : w.msg \in Requests \cup Commands /\ (Works(w, R) <=> w.msg.by = a)
    BY <1>1, WorkerTypes
  <2>4. \A c \in Channels : \A i \in DOMAIN chan[c] : chan[c][i] \in Messages
    BY <2>1
  <2>5. \A t \in Tasks : \A i \in DOMAIN hand[t] : hand[t][i] \in Outgoing
    BY <2>2
  <2>6. \A o \in Outgoing : o.msg \in Messages
    BY DEF Outgoing
  <2>7. \A w \in workers : w.msg \in Messages /\ (Works(w, R) <=> w.msg \in R)
    BY <2>3 DEF Messages, RequestsBy
  <2> QED
    BY <2>4, <2>5, <2>6, <2>7
<1> HIDE DEF R
<1>4. \A x : x \in RequestsOf(a) <=> InChan(x) \/ InHand(x) \/ InWork(x)
  <2> DEFINE A == UNION {{<<c, i>> : i \in {j \in DOMAIN chan[c] :
                            Asks(chan[c][j]) /\ chan[c][j].by = a}} : c \in Channels}
             B == UNION {{<<t, i>> : i \in {j \in DOMAIN hand[t] :
                            Asks(hand[t][j].msg) /\ hand[t][j].msg.by = a}} : t \in Tasks}
             C == {w \in workers : Asks(w.msg) /\ w.msg.by = a}
  <2>1. \A x : x \in A <=> InChan(x)
    BY <1>2, <1>3
  <2>2. \A x : x \in B <=> InHand(x)
    BY <1>2, <1>3
  <2>3. \A x : x \in C <=> InWork(x)
    BY <1>2, <1>3
  <2>4. RequestsOf(a) = A \cup B \cup C
    BY Zenon DEF RequestsOf
  <2> HIDE DEF A, B, C, InChan, InHand, InWork
  <2> QED
    BY <2>1, <2>2, <2>3, <2>4
<1>5. /\ \A c \in Channels : \A i \in DOMAIN chan[c] :
           chan[c][i] \in R => <<"chan", c>> \in AllHolders(chan, hand, workers, R)
      /\ \A t \in Tasks : \A i \in DOMAIN hand[t] :
           hand[t][i].msg \in R => <<"hand", t>> \in AllHolders(chan, hand, workers, R)
      /\ \A w \in workers : w.msg \in R => <<"work", w>> \in AllHolders(chan, hand, workers, R)
  BY <1>3 DEF AllHolders, ChanHolders, HandHolders, WorkHolders, Has, Hands
<1>6. /\ \A g, h \in AllHolders(chan, hand, workers, R) : g = h
      /\ ChanOnce(chan, R) /\ HandOnce(hand, R)
      /\ AllHolders(chan, hand, workers, R) # {} <=> Due(a)
  BY <1>1 DEF Asker, OneHeld, Due, Waits, R
<1>7. ASSUME NEW x \in RequestsOf(a), NEW y \in RequestsOf(a)
      PROVE  x = y
  <2>1. CASE InChan(x) /\ InChan(y)
    BY <1>5, <1>6, <2>1 DEF ChanOnce, Once
  <2>2. CASE InHand(x) /\ InHand(y)
    BY <1>5, <1>6, <2>2 DEF HandOnce, HandsOnce
  <2>3. CASE InWork(x) /\ InWork(y)
    BY <1>5, <1>6, <2>3
  <2>4. ~(InChan(x) /\ InHand(y)) /\ ~(InHand(x) /\ InChan(y))
    BY <1>5, <1>6
  <2>5. ~(InChan(x) /\ InWork(y)) /\ ~(InWork(x) /\ InChan(y))
    BY <1>5, <1>6
  <2>6. ~(InHand(x) /\ InWork(y)) /\ ~(InWork(x) /\ InHand(y))
    BY <1>5, <1>6
  <2> QED
    BY <1>4, <2>1, <2>2, <2>3, <2>4, <2>5, <2>6
<1>8. RequestsOf(a) # {} <=> Due(a)
  <2>1. (\E x : x \in RequestsOf(a)) => AllHolders(chan, hand, workers, R) # {}
    BY <1>4, <1>5
  <2>2. ASSUME NEW c \in Channels, Has(chan[c], R)
        PROVE  \E x : x \in RequestsOf(a)
    <3>1. PICK i \in DOMAIN chan[c] : chan[c][i] \in R
      BY <2>2 DEF Has
    <3>2. InChan(<<c, i>>)
      BY <3>1
    <3> QED
      BY <1>4, <3>2
  <2>3. ASSUME NEW t \in Tasks, Hands(hand[t], R)
        PROVE  \E x : x \in RequestsOf(a)
    <3>1. PICK i \in DOMAIN hand[t] : hand[t][i].msg \in R
      BY <2>3 DEF Hands
    <3>2. InHand(<<t, i>>)
      BY <3>1
    <3> QED
      BY <1>4, <3>2
  <2>4. ASSUME NEW w \in workers, Works(w, R)
        PROVE  \E x : x \in RequestsOf(a)
    BY <1>3, <1>4, <2>4
  <2>5. AllHolders(chan, hand, workers, R) # {} => \E x : x \in RequestsOf(a)
    BY <2>2, <2>3, <2>4 DEF AllHolders, ChanHolders, HandHolders, WorkHolders
  <2> QED
    BY <1>6, <2>1, <2>5
<1>9. CASE Due(a)
  <2>1. PICK x : x \in RequestsOf(a)
    BY <1>8, <1>9
  <2>2. RequestsOf(a) = {x}
    BY <1>7, <2>1
  <2> QED
    BY <1>9, <2>2, FS_Singleton DEF Due
<1>10. CASE ~Due(a)
  <2>1. RequestsOf(a) = {}
    BY <1>8, <1>10
  <2> QED
    BY <1>10, <2>1, FS_EmptySet DEF Due
<1> QED
  BY <1>9, <1>10

(***************************************************************************)
(* Whoever waits in handle_get_request, get_devises or create_new_node has *)
(* one request under way or its answer ready, in every state: a retry or a *)
(* timeout never leaves two tasks answering one, or none.                  *)
(***************************************************************************)
THEOREM OneRequestEachHolds == Spec => []OneRequestEach
<1>1. BusOK /\ RequestsInv /\ CreatesInv => OneRequestEach
  BY OneRequest DEF OneRequestEach
<1> QED
  BY <1>1, BusInvariant, PTL

-----------------------------------------------------------------------------
(* The order of the events.                                                  *)

\* The queue holds the same events of n of these kinds and keeps their order.
SameEvents(q, r, n, kinds) ==
  /\ EventsIn(r, n, kinds) = EventsIn(q, n, kinds)
  /\ Sorted(q, n, kinds) => Sorted(r, n, kinds)

LEMMA AppendEvents ==
  ASSUME NEW S, NEW q \in Seq(S), NEW m \in S, NEW n, NEW kinds
  PROVE  /\ EventsIn(Append(q, m), n, kinds)
              = EventsIn(q, n, kinds) \cup (IF Belongs(m, n, kinds) THEN {m} ELSE {})
         /\ Sorted(q, n, kinds) /\ (Belongs(m, n, kinds) => \A x \in EventsIn(q, n, kinds) : x.no < m.no)
            => Sorted(Append(q, m), n, kinds)
<1> DEFINE l == Append(q, m)
           B(x) == Belongs(x, n, kinds)
<1>1. /\ Len(q) \in Nat /\ DOMAIN q = 1 .. Len(q) /\ DOMAIN l = 1 .. Len(q) + 1
      /\ l[Len(q) + 1] = m /\ \A i \in 1 .. Len(q) : l[i] = q[i]
  BY Enqueue
<1> HIDE DEF l
<1>2. /\ DOMAIN l = DOMAIN q \cup {Len(q) + 1} /\ Len(q) + 1 \notin DOMAIN q
      /\ \A i \in DOMAIN q : i < Len(q) + 1 /\ ~(Len(q) + 1 < i) /\ l[i] = q[i]
      /\ l[Len(q) + 1] = m /\ ~(Len(q) + 1 < Len(q) + 1)
  BY <1>1
<1>3. EventsIn(l, n, kinds) = EventsIn(q, n, kinds) \cup (IF B(m) THEN {m} ELSE {})
  <2> HIDE DEF B
  <2>1. EventsIn(l, n, kinds) = {l[i] : i \in {j \in DOMAIN l : B(l[j])}}
    BY DEF EventsIn, B
  <2>2. EventsIn(q, n, kinds) = {q[i] : i \in {j \in DOMAIN q : B(q[j])}}
    BY DEF EventsIn, B
  <2> QED
    BY <1>2, <2>1, <2>2
<1>4. ASSUME Sorted(q, n, kinds), B(m) => \A x \in EventsIn(q, n, kinds) : x.no < m.no
      PROVE  Sorted(l, n, kinds)
  <2> SUFFICES ASSUME NEW i \in DOMAIN l, NEW j \in DOMAIN l, i < j, B(l[i]), B(l[j])
               PROVE  l[i].no < l[j].no
    BY DEF Sorted
  <2>1. CASE i \in DOMAIN q /\ j \in DOMAIN q
    BY <1>2, <1>4, <2>1 DEF Sorted
  <2>2. CASE i \in DOMAIN q /\ j = Len(q) + 1
    <3>1. q[i] \in EventsIn(q, n, kinds)
      BY <1>2, <2>2 DEF EventsIn
    <3> QED
      BY <1>2, <1>4, <2>2, <3>1
  <2> QED
    BY <1>2, <2>1, <2>2
<1> QED
  BY <1>3, <1>4 DEF l

LEMMA TailEvents ==
  ASSUME NEW S, NEW q \in Seq(S), q # <<>>, NEW n, NEW kinds, Sorted(q, n, kinds)
  PROVE  /\ EventsIn(q, n, kinds)
              = EventsIn(Tail(q), n, kinds)
                  \cup (IF Belongs(Head(q), n, kinds) THEN {Head(q)} ELSE {})
         /\ Belongs(Head(q), n, kinds) => \A x \in EventsIn(Tail(q), n, kinds) : Head(q).no < x.no
         /\ Sorted(Tail(q), n, kinds)
<1> DEFINE l == Tail(q)
           m == Head(q)
           B(x) == Belongs(x, n, kinds)
<1>1. /\ Len(q) \in Nat \ {0} /\ DOMAIN q = 1 .. Len(q) /\ DOMAIN l = 1 .. Len(q) - 1
      /\ m = q[1] /\ \A i \in 1 .. Len(q) - 1 : l[i] = q[i + 1]
  BY Dequeue
<1> HIDE DEF l, m
<1>2. \A i \in DOMAIN l : i + 1 \in DOMAIN q /\ 1 < i + 1 /\ l[i] = q[i + 1] /\ i \in Nat
  BY <1>1
<1>3. 1 \in DOMAIN q /\ \A j \in DOMAIN q : j # 1 => j - 1 \in DOMAIN l /\ l[j - 1] = q[j]
  BY <1>1
<1>4. EventsIn(q, n, kinds) = EventsIn(l, n, kinds) \cup (IF B(m) THEN {m} ELSE {})
  <2> HIDE DEF B
  <2>1. EventsIn(l, n, kinds) = {l[i] : i \in {j \in DOMAIN l : B(l[j])}}
    BY DEF EventsIn, B
  <2>2. EventsIn(q, n, kinds) = {q[i] : i \in {j \in DOMAIN q : B(q[j])}}
    BY DEF EventsIn, B
  <2> QED
    BY <1>1, <1>2, <1>3, <2>1, <2>2
<1>5. B(m) => \A x \in EventsIn(l, n, kinds) : m.no < x.no
  <2> SUFFICES ASSUME B(m), NEW i \in DOMAIN l, B(l[i]) PROVE m.no < l[i].no
    BY DEF EventsIn
  <2> QED
    BY <1>1, <1>2, <1>3 DEF Sorted
<1>6. Sorted(l, n, kinds)
  <2> SUFFICES ASSUME NEW i \in DOMAIN l, NEW j \in DOMAIN l, i < j, B(l[i]), B(l[j])
               PROVE  l[i].no < l[j].no
    BY DEF Sorted
  <2>1. i + 1 < j + 1
    BY <1>2
  <2> QED
    BY <1>2, <2>1 DEF Sorted
<1> QED
  BY <1>4, <1>5, <1>6 DEF l, m

LEMMA PassAppend ==
  ASSUME NEW S, NEW q \in Seq(S), NEW m \in S, NEW n, NEW kinds, ~Belongs(m, n, kinds)
  PROVE  SameEvents(q, Append(q, m), n, kinds)
<1>1. EventsIn(Append(q, m), n, kinds)
        = EventsIn(q, n, kinds) \cup (IF Belongs(m, n, kinds) THEN {m} ELSE {})
  BY AppendEvents
<1>2. Sorted(q, n, kinds) => Sorted(Append(q, m), n, kinds)
  BY AppendEvents
<1> QED
  BY <1>1, <1>2 DEF SameEvents

LEMMA PassTail ==
  ASSUME NEW S, NEW q \in Seq(S), q # <<>>, NEW n, NEW kinds, ~Belongs(Head(q), n, kinds)
  PROVE  Sorted(q, n, kinds) => SameEvents(q, Tail(q), n, kinds)
<1> SUFFICES ASSUME Sorted(q, n, kinds) PROVE SameEvents(q, Tail(q), n, kinds)
  OBVIOUS
<1>1. EventsIn(q, n, kinds)
        = EventsIn(Tail(q), n, kinds) \cup (IF Belongs(Head(q), n, kinds) THEN {Head(q)} ELSE {})
  BY TailEvents
<1>2. Sorted(Tail(q), n, kinds)
  BY TailEvents
<1> QED
  BY <1>1, <1>2 DEF SameEvents

\* A line of queues for the events in the sequence md.
LineOK(line, md, n, kinds) ==
  /\ \A p \in DOMAIN line : Sorted(line[p], n, kinds)
  /\ \A p, q \in DOMAIN line :
       p < q => \A x \in EventsIn(line[p], n, kinds), y \in EventsIn(line[q], n, kinds) : x.no < y.no
  /\ UNION {EventsIn(line[p], n, kinds) : p \in DOMAIN line} = EventsIn(md, n, kinds)

\* Nothing of n passes.
LEMMA StillInLine ==
  ASSUME NEW old, NEW new, NEW md, NEW n, NEW kinds, LineOK(old, md, n, kinds),
         DOMAIN new = DOMAIN old, \A p \in DOMAIN old : SameEvents(old[p], new[p], n, kinds)
  PROVE  LineOK(new, md, n, kinds)
<1>1. \A p \in DOMAIN old : /\ EventsIn(new[p], n, kinds) = EventsIn(old[p], n, kinds)
                            /\ Sorted(new[p], n, kinds)
  BY DEF SameEvents, LineOK
<1>2. UNION {EventsIn(new[p], n, kinds) : p \in DOMAIN new}
        = UNION {EventsIn(old[p], n, kinds) : p \in DOMAIN old}
  BY <1>1
<1> QED
  BY <1>1, <1>2 DEF LineOK

\* The first event of stage p + 1 goes to stage p.
LEMMA MovesInLine ==
  ASSUME NEW L \in Nat, NEW old, NEW new, NEW md, NEW n, NEW kinds, LineOK(old, md, n, kinds),
         DOMAIN old = 1 .. L, DOMAIN new = 1 .. L, NEW p \in 1 .. L - 1, NEW S, NEW T,
         old[p] \in Seq(S), old[p + 1] \in Seq(T), old[p + 1] # <<>>, Head(old[p + 1]) \in S,
         new[p] = Append(old[p], Head(old[p + 1])), new[p + 1] = Tail(old[p + 1]),
         Belongs(Head(old[p + 1]), n, kinds),
         \A q \in 1 .. L : q # p /\ q # p + 1 => SameEvents(old[q], new[q], n, kinds)
  PROVE  LineOK(new, md, n, kinds)
<1> DEFINE m == Head(old[p + 1])
           E(l, q) == EventsIn(l[q], n, kinds)
<1>1. p \in 1 .. L /\ p + 1 \in 1 .. L /\ p < p + 1 /\ p # p + 1
  OBVIOUS
<1>2. \A q \in 1 .. L : Sorted(old[q], n, kinds)
  BY DEF LineOK
<1>3. \A q, r \in 1 .. L : q < r => \A x \in E(old, q), y \in E(old, r) : x.no < y.no
  BY DEF LineOK
<1>4. UNION {E(old, q) : q \in 1 .. L} = EventsIn(md, n, kinds)
  BY DEF LineOK
<1>5. /\ E(old, p + 1) = E(new, p + 1) \cup {m} /\ \A x \in E(new, p + 1) : m.no < x.no
      /\ Sorted(new[p + 1], n, kinds)
  BY <1>1, <1>2, TailEvents
<1>6. E(new, p) = E(old, p) \cup {m}
  BY AppendEvents
<1>7. Sorted(new[p], n, kinds)
  <2>1. \A x \in E(old, p) : x.no < m.no
    BY <1>1, <1>3, <1>5
  <2> QED
    BY <1>1, <1>2, <2>1, AppendEvents, SMTT(20)
<1>8. \A q \in 1 .. L : q # p /\ q # p + 1 => E(new, q) = E(old, q) /\ Sorted(new[q], n, kinds)
  BY <1>2 DEF SameEvents
<1> HIDE DEF m, E
<1>9. ASSUME NEW q \in 1 .. L, NEW r \in 1 .. L, q < r, NEW x \in E(new, q), NEW y \in E(new, r)
      PROVE  x.no < y.no
  <2>1. CASE q = p /\ r = p + 1
    BY <1>1, <1>3, <1>5, <1>6, <1>9, <2>1
  <2>2. CASE q = p /\ r # p + 1
    <3>1. r # p /\ y \in E(old, r) /\ p + 1 < r
      BY <1>8, <1>9, <2>2
    <3> QED
      BY <1>1, <1>3, <1>5, <1>6, <1>9, <2>2, <3>1
  <2>3. CASE q = p + 1
    <3>1. r # p /\ r # p + 1 /\ y \in E(old, r) /\ x \in E(old, p + 1)
      BY <1>5, <1>8, <1>9, <2>3
    <3> QED
      BY <1>1, <1>3, <1>9, <2>3, <3>1
  <2>4. CASE q # p /\ q # p + 1 /\ r = p
    <3>1. x \in E(old, q) /\ q < p + 1
      BY <1>8, <1>9, <2>4
    <3> QED
      BY <1>1, <1>3, <1>5, <1>6, <1>9, <2>4, <3>1
  <2>5. CASE q # p /\ q # p + 1 /\ r = p + 1
    <3>1. x \in E(old, q) /\ y \in E(old, p + 1)
      BY <1>5, <1>8, <1>9, <2>5
    <3> QED
      BY <1>1, <1>3, <1>9, <2>5, <3>1
  <2>6. CASE q # p /\ q # p + 1 /\ r # p /\ r # p + 1
    BY <1>3, <1>8, <1>9, <2>6
  <2> QED
    BY <2>1, <2>2, <2>3, <2>4, <2>5, <2>6
<1>10. UNION {E(new, q) : q \in 1 .. L} = UNION {E(old, q) : q \in 1 .. L}
  <2>1. \A x : (\E q \in 1 .. L : x \in E(new, q)) => \E q \in 1 .. L : x \in E(old, q)
    BY <1>1, <1>5, <1>6, <1>8
  <2>2. \A x : (\E q \in 1 .. L : x \in E(old, q)) => \E q \in 1 .. L : x \in E(new, q)
    BY <1>1, <1>5, <1>6, <1>8
  <2> QED
    BY <2>1, <2>2
<1>11. \A q \in 1 .. L : Sorted(new[q], n, kinds)
  BY <1>5, <1>7, <1>8
<1> QED
  BY <1>4, <1>9, <1>10, <1>11 DEF LineOK, E

\* What a task with the messages h sends to channel c.
SendingOf(h, c) ==
  LET there == {i \in DOMAIN h : h[i].to = c}
  IN  IF there = {} THEN <<>> ELSE <<h[CHOOSE i \in there : TRUE].msg>>
Distinct(h) == \A i, j \in DOMAIN h : h[i].to = h[j].to => i = j

LEMMA SendingNone ==
  ASSUME NEW h, NEW c, \A i \in DOMAIN h : h[i].to # c
  PROVE  SendingOf(h, c) = <<>>
<1>1. {i \in DOMAIN h : h[i].to = c} = {}
  OBVIOUS
<1> QED
  BY <1>1 DEF SendingOf

LEMMA SendingOne ==
  ASSUME NEW h, NEW c, Distinct(h), NEW i \in DOMAIN h, h[i].to = c
  PROVE  SendingOf(h, c) = <<h[i].msg>>
<1>1. {j \in DOMAIN h : h[j].to = c} = {i}
  BY DEF Distinct
<1>2. (CHOOSE j \in {i} : TRUE) = i
  OBVIOUS
<1> QED
  BY <1>1, <1>2 DEF SendingOf

LEMMA SendingEmpty ==
  ASSUME NEW c
  PROVE  SendingOf(<<>>, c) = <<>>
<1> DEFINE h == <<>>
<1>1. DOMAIN h = {}
  OBVIOUS
<1> HIDE DEF h
<1>2. SendingOf(h, c) = <<>>
  BY <1>1, SendingNone
<1> QED
  BY <1>2 DEF h

LEMMA SendingSingle ==
  ASSUME NEW o, NEW c
  PROVE  SendingOf(<<o>>, c) = IF o.to = c THEN <<o.msg>> ELSE <<>>
<1> DEFINE h == <<o>>
<1>1. DOMAIN h = {1} /\ h[1] = o
  OBVIOUS
<1> HIDE DEF h
<1>2. Distinct(h)
  BY <1>1 DEF Distinct
<1>3. CASE o.to = c
  <2>1. SendingOf(h, c) = <<h[1].msg>>
    BY <1>1, <1>2, <1>3, SendingOne
  <2> QED
    BY <1>1, <1>3, <2>1 DEF h
<1>4. CASE o.to # c
  <2>1. SendingOf(h, c) = <<>>
    BY <1>1, <1>4, SendingNone
  <2> QED
    BY <1>4, <2>1 DEF h
<1> QED
  BY <1>3, <1>4

LEMMA SendingPair ==
  ASSUME NEW o, NEW p, o.to # p.to
  PROVE  SendingOf(<<o, p>>, o.to) = <<o.msg>> /\ SendingOf(<<o, p>>, p.to) = <<p.msg>>
<1> DEFINE h == <<o, p>>
<1>1. DOMAIN h = {1, 2} /\ h[1] = o /\ h[2] = p
  OBVIOUS
<1> HIDE DEF h
<1>2. Distinct(h)
  BY <1>1 DEF Distinct
<1>3. SendingOf(h, o.to) = <<h[1].msg>>
  BY <1>1, <1>2, SendingOne
<1>4. SendingOf(h, p.to) = <<h[2].msg>>
  BY <1>1, <1>2, SendingOne
<1> QED
  BY <1>1, <1>3, <1>4 DEF h

LEMMA SendingRest ==
  ASSUME NEW S, NEW h \in Seq(S), h # <<>>, Distinct(h)
  PROVE  /\ SendingOf(h, Head(h).to) = <<Head(h).msg>>
         /\ SendingOf(Tail(h), Head(h).to) = <<>>
         /\ \A c : c # Head(h).to => SendingOf(Tail(h), c) = SendingOf(h, c)
<1> DEFINE l == Tail(h)
<1>1. /\ Len(h) \in Nat \ {0} /\ DOMAIN h = 1 .. Len(h) /\ DOMAIN l = 1 .. Len(h) - 1
      /\ Head(h) = h[1] /\ \A i \in 1 .. Len(h) - 1 : l[i] = h[i + 1]
  BY Dequeue
<1> HIDE DEF l
<1>2. \A i \in DOMAIN l : i + 1 \in DOMAIN h /\ i + 1 # 1 /\ l[i] = h[i + 1] /\ i \in Nat
  BY <1>1
<1>3. 1 \in DOMAIN h /\ \A j \in DOMAIN h : j # 1 => j - 1 \in DOMAIN l /\ l[j - 1] = h[j]
  BY <1>1
<1>4. SendingOf(h, Head(h).to) = <<Head(h).msg>>
  BY <1>1, <1>3, SendingOne
<1>5. SendingOf(l, Head(h).to) = <<>>
  <2>1. \A i \in DOMAIN l : l[i].to # Head(h).to
    <3> SUFFICES ASSUME NEW i \in DOMAIN l, l[i].to = Head(h).to PROVE FALSE
      OBVIOUS
    <3>1. i + 1 = 1
      BY <1>1, <1>2, <1>3 DEF Distinct
    <3> QED
      BY <1>2, <3>1
  <2> QED
    BY <2>1, SendingNone
<1>6. Distinct(l)
  <2> SUFFICES ASSUME NEW i \in DOMAIN l, NEW j \in DOMAIN l, l[i].to = l[j].to PROVE i = j
    BY DEF Distinct
  <2>1. i + 1 = j + 1
    BY <1>2 DEF Distinct
  <2> QED
    BY <1>2, <2>1
<1>7. ASSUME NEW c, c # Head(h).to
      PROVE  SendingOf(l, c) = SendingOf(h, c)
  <2>1. CASE \E j \in DOMAIN h : h[j].to = c
    <3>1. PICK j \in DOMAIN h : h[j].to = c
      BY <2>1
    <3>2. j # 1 /\ j - 1 \in DOMAIN l /\ l[j - 1] = h[j]
      BY <1>1, <1>3, <1>7, <3>1
    <3>3. SendingOf(h, c) = <<h[j].msg>>
      BY <3>1, SendingOne
    <3>4. SendingOf(l, c) = <<l[j - 1].msg>>
      BY <1>6, <3>1, <3>2, SendingOne
    <3> QED
      BY <3>2, <3>3, <3>4
  <2>2. CASE \A j \in DOMAIN h : h[j].to # c
    <3>1. \A i \in DOMAIN l : l[i].to # c
      BY <1>2, <2>2
    <3> QED
      BY <2>2, <3>1, SendingNone
  <2> QED
    BY <2>1, <2>2
<1> QED
  BY <1>4, <1>5, <1>7 DEF l

\* The two lines of a node, the kinds of the events on them.
HashersLine(ch, h, st, n) ==
  <<st, ch["measure"], SendingOf(h["db_master"], "measure"),
    ch["to_db"], SendingOf(h["data_master"], "to_db"),
    ch["from_reader"], SendingOf(h["node_master"], "from_reader"),
    ch["from_node"], SendingOf(h[n], "from_node")>>
BrowsersLine(ch, h, sh, n) ==
  <<sh, ch["to_api"], SendingOf(h["data_master"], "to_api"),
    ch["from_reader"], SendingOf(h["node_master"], "from_reader"),
    ch["from_node"], SendingOf(h[n], "from_node")>>
Measures == {"DeviceEvent"}
Any == {"DeviceEvent", "NodeEvent"}

LEMMA HashersStages ==
  ASSUME NEW ch, NEW h, NEW st, NEW n, NEW l, l = HashersLine(ch, h, st, n)
  PROVE  /\ DOMAIN l = 1 .. 9 /\ l[1] = st
         /\ l[2] = ch["measure"] /\ l[3] = SendingOf(h["db_master"], "measure")
         /\ l[4] = ch["to_db"] /\ l[5] = SendingOf(h["data_master"], "to_db")
         /\ l[6] = ch["from_reader"] /\ l[7] = SendingOf(h["node_master"], "from_reader")
         /\ l[8] = ch["from_node"] /\ l[9] = SendingOf(h[n], "from_node")
BY DEF HashersLine

LEMMA BrowsersStages ==
  ASSUME NEW ch, NEW h, NEW sh, NEW n, NEW l, l = BrowsersLine(ch, h, sh, n)
  PROVE  /\ DOMAIN l = 1 .. 7 /\ l[1] = sh
         /\ l[2] = ch["to_api"] /\ l[3] = SendingOf(h["data_master"], "to_api")
         /\ l[4] = ch["from_reader"] /\ l[5] = SendingOf(h["node_master"], "from_reader")
         /\ l[6] = ch["from_node"] /\ l[7] = SendingOf(h[n], "from_node")
BY DEF BrowsersLine

Numbered(md, n) == \A k \in DOMAIN md[n] : md[n][k].no = k /\ md[n][k].node = n
HashersOK(ch, h, st, md, n) == LineOK(HashersLine(ch, h, st[n], n), md[n], n, Measures)
BrowsersOK(ch, h, sh, md, n) == LineOK(BrowsersLine(ch, h, sh[n], n), md[n], n, Any)

LEMMA EventsSplit ==
  EventsInOrder <=> \A n \in Nodes : /\ Numbered(made, n)
                                     /\ HashersOK(chan, hand, stored, made, n)
                                     /\ BrowsersOK(chan, hand, shown, made, n)
BY Zenon DEF EventsInOrder, Numbered, HashersOK, BrowsersOK, LineOK, InLine, HashersLine,
             BrowsersLine, ToHashers, ToBrowsers, Sending, SendingOf, Measures, Any

LEMMA EventsNext ==
  EventsInOrder' <=> \A n \in Nodes : /\ Numbered(made', n)
                                      /\ HashersOK(chan', hand', stored', made', n)
                                      /\ BrowsersOK(chan', hand', shown', made', n)
BY Zenon DEF EventsInOrder, Numbered, HashersOK, BrowsersOK, LineOK, InLine, HashersLine,
             BrowsersLine, ToHashers, ToBrowsers, Sending, SendingOf, Measures, Any

LEMMA SameSame ==
  ASSUME NEW q, NEW n, NEW kinds
  PROVE  SameEvents(q, q, n, kinds)
BY DEF SameEvents

\* The first message of stage p + 1 goes to stage p, or ends there if it is foreign.
LEMMA Advance ==
  ASSUME NEW L \in Nat, NEW old, NEW new, NEW md, NEW n, NEW kinds, LineOK(old, md, n, kinds),
         DOMAIN old = 1 .. L, DOMAIN new = 1 .. L, NEW p \in 1 .. L - 1,
         old[p] \in Seq(Messages), old[p + 1] \in Seq(Messages), old[p + 1] # <<>>,
         \/ new[p] = Append(old[p], Head(old[p + 1]))
         \/ new[p] = old[p] /\ ~Belongs(Head(old[p + 1]), n, kinds),
         new[p + 1] = Tail(old[p + 1]),
         \A q \in 1 .. L : q # p /\ q # p + 1 => SameEvents(old[q], new[q], n, kinds)
  PROVE  LineOK(new, md, n, kinds)
<1> DEFINE m == Head(old[p + 1])
<1>1. m \in Messages
  BY Dequeue
<1>2. CASE Belongs(m, n, kinds)
  BY <1>1, <1>2, MovesInLine
<1>3. CASE ~Belongs(m, n, kinds)
  <2>1. SameEvents(old[p], new[p], n, kinds)
    BY <1>1, <1>3, PassAppend, SameSame
  <2>2. Sorted(old[p + 1], n, kinds)
    BY DEF LineOK
  <2>3. SameEvents(old[p + 1], new[p + 1], n, kinds)
    BY <1>3, <2>2, PassTail
  <2>4. \A q \in 1 .. L : SameEvents(old[q], new[q], n, kinds)
    BY <2>1, <2>3
  <2> QED
    BY <2>4, StillInLine
<1> QED
  BY <1>2, <1>3

LEMMA OneQueue ==
  ASSUME NEW m \in Messages, NEW q, q = <<m>>, NEW e, e = <<>>
  PROVE  /\ q \in Seq(Messages) /\ q # <<>> /\ Head(q) = m /\ Tail(q) = e
         /\ e \in Seq(Messages) /\ q = Append(e, m)
OBVIOUS

\* What makes a message foreign to the lines of n.
LEMMA Foreign ==
  ASSUME NEW m \in Messages, NEW n, NEW kinds, kinds \subseteq Any
  PROVE  /\ m \notin Events => ~Belongs(m, n, kinds)
         /\ m \in Events /\ m.node # n => ~Belongs(m, n, kinds)
         /\ m.kind \notin kinds => ~Belongs(m, n, kinds)
BY Kinds DEF Messages, Belongs, Any

LEMMA Kindly == Measures \subseteq Any /\ Any \subseteq Any
BY DEF Measures, Any

\* A task that sends nothing of n or what it sent before.
LEMMA QuietHand ==
  ASSUME NEW h, NEW k, NEW c, NEW n, NEW kinds, kinds \subseteq Any,
         \/ k = h
         \/ h = <<>> /\ \E o : k = <<o>> /\ o.msg \in Messages /\ ~Belongs(o.msg, n, kinds)
  PROVE  SameEvents(SendingOf(h, c), SendingOf(k, c), n, kinds)
<1>1. CASE k = h
  BY <1>1, SameSame
<1>2. CASE h = <<>> /\ \E o : k = <<o>> /\ o.msg \in Messages /\ ~Belongs(o.msg, n, kinds)
  <2>1. PICK o : k = <<o>> /\ o.msg \in Messages /\ ~Belongs(o.msg, n, kinds)
    BY <1>2
  <2>2. SendingOf(h, c) = <<>>
    BY <1>2, SendingEmpty
  <2>3. SendingOf(k, c) = IF o.to = c THEN <<o.msg>> ELSE <<>>
    BY <2>1, SendingSingle
  <2> DEFINE e == <<>>
             q == <<o.msg>>
  <2>4. o.msg \in Messages
    BY <2>1
  <2>5. e \in Seq(Messages) /\ q = Append(e, o.msg)
    BY <2>4, OneQueue
  <2> HIDE DEF e, q
  <2>6. SameEvents(e, q, n, kinds)
    BY <2>1, <2>4, <2>5, PassAppend
  <2>7. SameEvents(e, e, n, kinds)
    BY SameSame
  <2> QED
    BY <2>2, <2>3, <2>6, <2>7 DEF e, q
<1> QED
  BY <1>1, <1>2

\* The conditions under which nothing moves in a line of n.
LEMMA StillHashers ==
  ASSUME NEW n, HashersOK(chan, hand, stored, made, n),
         made'[n] = made[n], stored'[n] = stored[n], n \in Tasks,
         \A c \in {"measure", "to_db", "from_reader", "from_node"} :
           SameEvents(chan[c], chan'[c], n, Measures),
         \A t \in Tasks : \A c \in {"measure", "to_db", "from_reader", "from_node"} :
           SameEvents(SendingOf(hand[t], c), SendingOf(hand'[t], c), n, Measures)
  PROVE  HashersOK(chan', hand', stored', made', n)
<1> DEFINE old == HashersLine(chan, hand, stored[n], n)
           new == HashersLine(chan', hand', stored'[n], n)
<1>1. /\ DOMAIN old = 1 .. 9 /\ old[1] = stored[n]
      /\ old[2] = chan["measure"] /\ old[3] = SendingOf(hand["db_master"], "measure")
      /\ old[4] = chan["to_db"] /\ old[5] = SendingOf(hand["data_master"], "to_db")
      /\ old[6] = chan["from_reader"] /\ old[7] = SendingOf(hand["node_master"], "from_reader")
      /\ old[8] = chan["from_node"] /\ old[9] = SendingOf(hand[n], "from_node")
  BY HashersStages
<1>2. /\ DOMAIN new = 1 .. 9 /\ new[1] = stored'[n]
      /\ new[2] = chan'["measure"] /\ new[3] = SendingOf(hand'["db_master"], "measure")
      /\ new[4] = chan'["to_db"] /\ new[5] = SendingOf(hand'["data_master"], "to_db")
      /\ new[6] = chan'["from_reader"] /\ new[7] = SendingOf(hand'["node_master"], "from_reader")
      /\ new[8] = chan'["from_node"] /\ new[9] = SendingOf(hand'[n], "from_node")
  BY HashersStages
<1>3. {"db_master", "data_master", "node_master", n} \subseteq Tasks
  BY Names
<1> HIDE DEF old, new
<1>4. SameEvents(old[1], new[1], n, Measures)
  BY <1>1, <1>2, SameSame
<1>5. /\ SameEvents(old[2], new[2], n, Measures) /\ SameEvents(old[4], new[4], n, Measures)
      /\ SameEvents(old[6], new[6], n, Measures) /\ SameEvents(old[8], new[8], n, Measures)
  BY <1>1, <1>2
<1>6. /\ SameEvents(old[3], new[3], n, Measures) /\ SameEvents(old[5], new[5], n, Measures)
      /\ SameEvents(old[7], new[7], n, Measures) /\ SameEvents(old[9], new[9], n, Measures)
  BY <1>1, <1>2, <1>3
<1>7. \A q \in 1 .. 9 : SameEvents(old[q], new[q], n, Measures)
  BY <1>4, <1>5, <1>6
<1>8. LineOK(old, made[n], n, Measures)
  BY DEF old, HashersOK
<1>9. LineOK(new, made[n], n, Measures)
  BY <1>1, <1>2, <1>7, <1>8, StillInLine
<1> QED
  BY <1>9 DEF new, HashersOK

LEMMA StillBrowsers ==
  ASSUME NEW n, BrowsersOK(chan, hand, shown, made, n),
         made'[n] = made[n], shown'[n] = shown[n], n \in Tasks,
         \A c \in {"to_api", "from_reader", "from_node"} :
           SameEvents(chan[c], chan'[c], n, Any),
         \A t \in Tasks : \A c \in {"to_api", "from_reader", "from_node"} :
           SameEvents(SendingOf(hand[t], c), SendingOf(hand'[t], c), n, Any)
  PROVE  BrowsersOK(chan', hand', shown', made', n)
<1> DEFINE old == BrowsersLine(chan, hand, shown[n], n)
           new == BrowsersLine(chan', hand', shown'[n], n)
<1>1. /\ DOMAIN old = 1 .. 7 /\ old[1] = shown[n]
      /\ old[2] = chan["to_api"] /\ old[3] = SendingOf(hand["data_master"], "to_api")
      /\ old[4] = chan["from_reader"] /\ old[5] = SendingOf(hand["node_master"], "from_reader")
      /\ old[6] = chan["from_node"] /\ old[7] = SendingOf(hand[n], "from_node")
  BY BrowsersStages
<1>2. /\ DOMAIN new = 1 .. 7 /\ new[1] = shown'[n]
      /\ new[2] = chan'["to_api"] /\ new[3] = SendingOf(hand'["data_master"], "to_api")
      /\ new[4] = chan'["from_reader"] /\ new[5] = SendingOf(hand'["node_master"], "from_reader")
      /\ new[6] = chan'["from_node"] /\ new[7] = SendingOf(hand'[n], "from_node")
  BY BrowsersStages
<1>3. {"data_master", "node_master", n} \subseteq Tasks
  BY Names
<1> HIDE DEF old, new
<1>4. SameEvents(old[1], new[1], n, Any)
  BY <1>1, <1>2, SameSame
<1>5. /\ SameEvents(old[2], new[2], n, Any) /\ SameEvents(old[4], new[4], n, Any)
      /\ SameEvents(old[6], new[6], n, Any)
  BY <1>1, <1>2
<1>6. /\ SameEvents(old[3], new[3], n, Any) /\ SameEvents(old[5], new[5], n, Any)
      /\ SameEvents(old[7], new[7], n, Any)
  BY <1>1, <1>2, <1>3
<1>7. \A q \in 1 .. 7 : SameEvents(old[q], new[q], n, Any)
  BY <1>4, <1>5, <1>6
<1>8. LineOK(old, made[n], n, Any)
  BY DEF old, BrowsersOK
<1>9. LineOK(new, made[n], n, Any)
  BY <1>1, <1>2, <1>7, <1>8, StillInLine
<1> QED
  BY <1>9 DEF new, BrowsersOK

-----------------------------------------------------------------------------
(* A message goes from a task to a channel.                                  *)

LEMMA Senders ==
  ASSUME NEW t \in Tasks
  PROVE  /\ "measure" \in Outlets(t) => t = "db_master"
         /\ "to_db" \in Outlets(t) => t = "data_master"
         /\ "to_api" \in Outlets(t) => t = "data_master"
         /\ "from_reader" \in Outlets(t) => t = "node_master"
         /\ "from_node" \in Outlets(t) => t \in Nodes
BY OutletsOf, Names DEF Tasks, Askers

\* A message leaves the hands of t for the channel.
SendsTo(t, c, m) ==
  /\ t \in Tasks /\ c \in Channels /\ c \in Outlets(t) /\ m \in Messages /\ m \in Carried(c)
  /\ t \in Nodes /\ m \in Events => m.node = t
  /\ chan[c] \in Seq(Messages) /\ chan'[c] = Append(chan[c], m)
  /\ \A d \in Channels \ {c} : chan'[d] = chan[d]
  /\ SendingOf(hand[t], c) = <<m>> /\ SendingOf(hand'[t], c) = <<>>
  /\ \A u \in Tasks : \A d : d # c => SendingOf(hand'[u], d) = SendingOf(hand[u], d)
  /\ \A u \in Tasks \ {t} : hand'[u] = hand[u]

LEMMA SendIs ==
  ASSUME BusOK, NEW t \in Tasks, Send(t)
  PROVE  \E c, m : SendsTo(t, c, m)
<1> DEFINE o == Head(hand[t])
           c == o.to
           m == o.msg
<1>1. ChanOK(chan) /\ HandOK(hand) /\ hand[t] \in Seq(Outgoing)
  BY DEF BusOK, HandOK
<1>2. /\ hand[t] # <<>> /\ chan' = [chan EXCEPT ![c] = Append(@, m)]
      /\ hand' = [hand EXCEPT ![t] = Tail(@)]
  BY DEF Send
<1>3. /\ hand'[t] = Tail(hand[t]) /\ \A u \in Tasks \ {t} : hand'[u] = hand[u]
      /\ o \in Outgoing /\ Sendable(o, t)
  <2>1. hand'[t] = Tail(hand[t]) /\ \A u \in Tasks \ {t} : hand'[u] = hand[u]
    BY <1>1, <1>2 DEF HandOK
  <2>2. Head(hand[t]) \in Outgoing /\ Sendable(Head(hand[t]), t)
    BY <1>1, <1>2, Sent
  <2> QED
    BY <2>1, <2>2
<1>4. /\ c \in Channels /\ m \in Messages /\ m \in Carried(c) /\ c \in Outlets(t)
      /\ t \in Nodes /\ m \in Events => m.node = t
  BY <1>3 DEF Outgoing, Sendable
<1>5. /\ chan[c] \in Seq(Messages) /\ chan'[c] = Append(chan[c], m)
      /\ \A d \in Channels \ {c} : chan'[d] = chan[d]
  BY <1>1, <1>2, <1>4 DEF ChanOK
<1>6. Distinct(hand[t])
  BY <1>1 DEF HandOK, Distinct
<1>7. /\ SendingOf(hand[t], c) = <<m>> /\ SendingOf(Tail(hand[t]), c) = <<>>
      /\ \A d : d # c => SendingOf(Tail(hand[t]), d) = SendingOf(hand[t], d)
  BY <1>1, <1>2, <1>6, SendingRest
<1> HIDE DEF c, m
<1>8. \A u \in Tasks : \A d : d # c => SendingOf(hand'[u], d) = SendingOf(hand[u], d)
  BY <1>3, <1>7
<1>9. SendsTo(t, c, m)
  BY <1>3, <1>4, <1>5, <1>7, <1>8 DEF SendsTo
<1> QED
  BY <1>9

LEMMA Nine ==
  /\ \A r \in 1 .. 9 :
       r = 1 \/ r = 2 \/ r = 3 \/ r = 4 \/ r = 5 \/ r = 6 \/ r = 7 \/ r = 8 \/ r = 9
  /\ \A r \in 1 .. 7 : r = 1 \/ r = 2 \/ r = 3 \/ r = 4 \/ r = 5 \/ r = 6 \/ r = 7
OBVIOUS

LEMMA SendHashers ==
  ASSUME NEW t, NEW c, NEW m, SendsTo(t, c, m), NEW n \in Nodes,
         HashersOK(chan, hand, stored, made, n), UNCHANGED <<stored, made>>
  PROVE  HashersOK(chan', hand', stored', made', n)
<1> DEFINE old == HashersLine(chan, hand, stored[n], n)
           new == HashersLine(chan', hand', stored'[n], n)
           q == <<m>>
           e == <<>>
<1>1. /\ DOMAIN old = 1 .. 9 /\ old[1] = stored[n]
      /\ old[2] = chan["measure"] /\ old[3] = SendingOf(hand["db_master"], "measure")
      /\ old[4] = chan["to_db"] /\ old[5] = SendingOf(hand["data_master"], "to_db")
      /\ old[6] = chan["from_reader"] /\ old[7] = SendingOf(hand["node_master"], "from_reader")
      /\ old[8] = chan["from_node"] /\ old[9] = SendingOf(hand[n], "from_node")
  BY HashersStages
<1>2. /\ DOMAIN new = 1 .. 9 /\ new[1] = stored'[n]
      /\ new[2] = chan'["measure"] /\ new[3] = SendingOf(hand'["db_master"], "measure")
      /\ new[4] = chan'["to_db"] /\ new[5] = SendingOf(hand'["data_master"], "to_db")
      /\ new[6] = chan'["from_reader"] /\ new[7] = SendingOf(hand'["node_master"], "from_reader")
      /\ new[8] = chan'["from_node"] /\ new[9] = SendingOf(hand'[n], "from_node")
  BY HashersStages
<1>3. /\ {"measure", "to_db", "from_reader", "from_node"} \subseteq Channels
      /\ {"db_master", "data_master", "node_master", n} \subseteq Tasks
  BY Names DEF Channels
<1>4. LineOK(old, made[n], n, Measures)
  BY DEF HashersOK
<1>5. m \in Messages
  BY DEF SendsTo
<1>6. /\ q \in Seq(Messages) /\ q # e /\ Head(q) = m /\ Tail(q) = e
  BY <1>5, OneQueue
<1>7. e = <<>>
  OBVIOUS
<1>8. /\ SendingOf(hand[t], c) = q /\ SendingOf(hand'[t], c) = e
      /\ chan[c] \in Seq(Messages) /\ chan'[c] = Append(chan[c], m)
      /\ \A d \in Channels \ {c} : chan'[d] = chan[d]
      /\ \A u \in Tasks : \A d : d # c => SendingOf(hand'[u], d) = SendingOf(hand[u], d)
      /\ \A u \in Tasks \ {t} : hand'[u] = hand[u]
  BY DEF SendsTo
<1>9. /\ c = "measure" => t = "db_master"
      /\ c = "to_db" => t = "data_master"
      /\ c = "from_reader" => t = "node_master"
      /\ c = "from_node" => t \in Nodes
  BY Senders DEF SendsTo
<1> HIDE DEF old, new, q, e
<1>10. ASSUME NEW p \in 1 .. 8, old[p] = chan[c], new[p] = chan'[c],
              old[p + 1] = q, new[p + 1] = e,
              \A r \in 1 .. 9 : r # p /\ r # p + 1 => new[r] = old[r]
       PROVE  LineOK(new, made[n], n, Measures)
  <2>1. 9 \in Nat /\ p \in 1 .. 9 - 1
    OBVIOUS
  <2>2. /\ old[p] \in Seq(Messages) /\ old[p + 1] \in Seq(Messages) /\ old[p + 1] # <<>>
        /\ new[p] = Append(old[p], Head(old[p + 1])) /\ new[p + 1] = Tail(old[p + 1])
    BY <1>6, <1>7, <1>8, <1>10
  <2>3. \A r \in 1 .. 9 : r # p /\ r # p + 1 => SameEvents(old[r], new[r], n, Measures)
    BY <1>10, SameSame
  <2> QED
    BY <1>1, <1>2, <1>4, <2>1, <2>2, <2>3, Advance
<1>11. /\ new[1] = old[1]
       /\ c # "measure" => new[2] = old[2] /\ new[3] = old[3]
       /\ c # "to_db" => new[4] = old[4] /\ new[5] = old[5]
       /\ c # "from_reader" => new[6] = old[6] /\ new[7] = old[7]
       /\ c # "from_node" => new[8] = old[8] /\ new[9] = old[9]
       /\ t # n => new[9] = old[9]
  <2>1. new[1] = old[1]
    BY <1>1, <1>2
  <2>2. c # "measure" => new[2] = old[2] /\ new[3] = old[3]
    BY <1>1, <1>2, <1>3, <1>8
  <2>3. c # "to_db" => new[4] = old[4] /\ new[5] = old[5]
    BY <1>1, <1>2, <1>3, <1>8
  <2>4. c # "from_reader" => new[6] = old[6] /\ new[7] = old[7]
    BY <1>1, <1>2, <1>3, <1>8
  <2>5. c # "from_node" => new[8] = old[8] /\ new[9] = old[9]
    BY <1>1, <1>2, <1>3, <1>8
  <2>6. t # n => new[9] = old[9]
    BY <1>1, <1>2, <1>3, <1>8
  <2> QED
    BY <2>1, <2>2, <2>3, <2>4, <2>5, <2>6
<1>12. CASE c = "measure"
  <2>1. \A r \in 1 .. 9 : r # 2 /\ r # 3 => new[r] = old[r]
    BY <1>12, <1>11, Nine
  <2> QED
    BY <1>1, <1>2, <1>8, <1>9, <1>10, <1>12, <2>1 DEF HashersOK, new
<1>13. CASE c = "to_db"
  <2>1. \A r \in 1 .. 9 : r # 4 /\ r # 5 => new[r] = old[r]
    BY <1>13, <1>11, Nine
  <2> QED
    BY <1>1, <1>2, <1>8, <1>9, <1>10, <1>13, <2>1 DEF HashersOK, new
<1>14. CASE c = "from_reader"
  <2>1. \A r \in 1 .. 9 : r # 6 /\ r # 7 => new[r] = old[r]
    BY <1>14, <1>11, Nine
  <2> QED
    BY <1>1, <1>2, <1>8, <1>9, <1>10, <1>14, <2>1 DEF HashersOK, new
<1>15. CASE c = "from_node" /\ t = n
  <2>1. \A r \in 1 .. 9 : r # 8 /\ r # 9 => new[r] = old[r]
    BY <1>15, <1>11, Nine
  <2> QED
    BY <1>1, <1>2, <1>8, <1>9, <1>10, <1>15, <2>1 DEF HashersOK, new
<1>16. CASE c = "from_node" /\ t # n
  <2>1. ~Belongs(m, n, Measures)
    <3>1. m \in Events => m.node # n
      BY <1>9, <1>16 DEF SendsTo
    <3> QED
      BY <1>5, <3>1, Foreign, Kindly
  <2>2. SameEvents(chan["from_node"], chan'["from_node"], n, Measures)
    BY <1>5, <1>8, <1>16, <2>1, PassAppend
  <2>3. \A p \in 1 .. 9 : SameEvents(old[p], new[p], n, Measures)
    <3>1. \A r \in 1 .. 9 : r # 8 => new[r] = old[r]
      BY <1>16, <1>11, Nine
    <3> QED
      BY <1>1, <1>2, <2>2, <3>1, SameSame
  <2>4. LineOK(new, made[n], n, Measures)
    BY <1>1, <1>2, <1>4, <2>3, StillInLine
  <2> QED
    BY <2>4 DEF HashersOK, new
<1>17. CASE c \notin {"measure", "to_db", "from_reader", "from_node"}
  <2>1. \A r \in 1 .. 9 : new[r] = old[r]
    BY <1>17, <1>11, Nine
  <2>2. LineOK(new, made[n], n, Measures)
    BY <1>1, <1>2, <1>4, <2>1, SameSame, StillInLine
  <2> QED
    BY <2>2 DEF HashersOK, new
<1> QED
  BY <1>12, <1>13, <1>14, <1>15, <1>16, <1>17

LEMMA SendBrowsers ==
  ASSUME NEW t, NEW c, NEW m, SendsTo(t, c, m), NEW n \in Nodes,
         BrowsersOK(chan, hand, shown, made, n), UNCHANGED <<shown, made>>
  PROVE  BrowsersOK(chan', hand', shown', made', n)
<1> DEFINE old == BrowsersLine(chan, hand, shown[n], n)
           new == BrowsersLine(chan', hand', shown'[n], n)
           q == <<m>>
           e == <<>>
<1>1. /\ DOMAIN old = 1 .. 7 /\ old[1] = shown[n]
      /\ old[2] = chan["to_api"] /\ old[3] = SendingOf(hand["data_master"], "to_api")
      /\ old[4] = chan["from_reader"] /\ old[5] = SendingOf(hand["node_master"], "from_reader")
      /\ old[6] = chan["from_node"] /\ old[7] = SendingOf(hand[n], "from_node")
  BY BrowsersStages
<1>2. /\ DOMAIN new = 1 .. 7 /\ new[1] = shown'[n]
      /\ new[2] = chan'["to_api"] /\ new[3] = SendingOf(hand'["data_master"], "to_api")
      /\ new[4] = chan'["from_reader"] /\ new[5] = SendingOf(hand'["node_master"], "from_reader")
      /\ new[6] = chan'["from_node"] /\ new[7] = SendingOf(hand'[n], "from_node")
  BY BrowsersStages
<1>3. /\ {"to_api", "from_reader", "from_node"} \subseteq Channels
      /\ {"data_master", "node_master", n} \subseteq Tasks
  BY Names DEF Channels
<1>4. LineOK(old, made[n], n, Any)
  BY DEF BrowsersOK
<1>5. m \in Messages
  BY DEF SendsTo
<1>6. /\ q \in Seq(Messages) /\ q # e /\ Head(q) = m /\ Tail(q) = e
  BY <1>5, OneQueue
<1>7. e = <<>>
  OBVIOUS
<1>8. /\ SendingOf(hand[t], c) = q /\ SendingOf(hand'[t], c) = e
      /\ chan[c] \in Seq(Messages) /\ chan'[c] = Append(chan[c], m)
      /\ \A d \in Channels \ {c} : chan'[d] = chan[d]
      /\ \A u \in Tasks : \A d : d # c => SendingOf(hand'[u], d) = SendingOf(hand[u], d)
      /\ \A u \in Tasks \ {t} : hand'[u] = hand[u]
  BY DEF SendsTo
<1>9. /\ c = "to_api" => t = "data_master"
      /\ c = "from_reader" => t = "node_master"
      /\ c = "from_node" => t \in Nodes
  BY Senders DEF SendsTo
<1> HIDE DEF old, new, q, e
<1>10. ASSUME NEW p \in 1 .. 6, old[p] = chan[c], new[p] = chan'[c],
              old[p + 1] = q, new[p + 1] = e,
              \A r \in 1 .. 7 : r # p /\ r # p + 1 => new[r] = old[r]
       PROVE  LineOK(new, made[n], n, Any)
  <2>1. 7 \in Nat /\ p \in 1 .. 7 - 1
    OBVIOUS
  <2>2. /\ old[p] \in Seq(Messages) /\ old[p + 1] \in Seq(Messages) /\ old[p + 1] # <<>>
        /\ new[p] = Append(old[p], Head(old[p + 1])) /\ new[p + 1] = Tail(old[p + 1])
    BY <1>6, <1>7, <1>8, <1>10
  <2>3. \A r \in 1 .. 7 : r # p /\ r # p + 1 => SameEvents(old[r], new[r], n, Any)
    BY <1>10, SameSame
  <2> QED
    BY <1>1, <1>2, <1>4, <2>1, <2>2, <2>3, Advance
<1>11. /\ new[1] = old[1]
       /\ c # "to_api" => new[2] = old[2] /\ new[3] = old[3]
       /\ c # "from_reader" => new[4] = old[4] /\ new[5] = old[5]
       /\ c # "from_node" => new[6] = old[6] /\ new[7] = old[7]
       /\ t # n => new[7] = old[7]
  <2>1. new[1] = old[1]
    BY <1>1, <1>2
  <2>2. c # "to_api" => new[2] = old[2] /\ new[3] = old[3]
    BY <1>1, <1>2, <1>3, <1>8
  <2>3. c # "from_reader" => new[4] = old[4] /\ new[5] = old[5]
    BY <1>1, <1>2, <1>3, <1>8
  <2>4. c # "from_node" => new[6] = old[6] /\ new[7] = old[7]
    BY <1>1, <1>2, <1>3, <1>8
  <2>5. t # n => new[7] = old[7]
    BY <1>1, <1>2, <1>3, <1>8
  <2> QED
    BY <2>1, <2>2, <2>3, <2>4, <2>5
<1>12. CASE c = "to_api"
  <2>1. \A r \in 1 .. 7 : r # 2 /\ r # 3 => new[r] = old[r]
    BY <1>11, <1>12, Nine
  <2> QED
    BY <1>1, <1>2, <1>8, <1>9, <1>10, <1>12, <2>1 DEF BrowsersOK, new
<1>13. CASE c = "from_reader"
  <2>1. \A r \in 1 .. 7 : r # 4 /\ r # 5 => new[r] = old[r]
    BY <1>11, <1>13, Nine
  <2> QED
    BY <1>1, <1>2, <1>8, <1>9, <1>10, <1>13, <2>1 DEF BrowsersOK, new
<1>14. CASE c = "from_node" /\ t = n
  <2>1. \A r \in 1 .. 7 : r # 6 /\ r # 7 => new[r] = old[r]
    BY <1>11, <1>14, Nine
  <2> QED
    BY <1>1, <1>2, <1>8, <1>9, <1>10, <1>14, <2>1 DEF BrowsersOK, new
<1>15. CASE c = "from_node" /\ t # n
  <2>1. ~Belongs(m, n, Any)
    <3>1. m \in Events => m.node # n
      BY <1>9, <1>15 DEF SendsTo
    <3> QED
      BY <1>5, <3>1, Foreign, Kindly
  <2>2. SameEvents(chan["from_node"], chan'["from_node"], n, Any)
    BY <1>5, <1>8, <1>15, <2>1, PassAppend
  <2>3. \A p \in 1 .. 7 : SameEvents(old[p], new[p], n, Any)
    <3>1. \A r \in 1 .. 7 : r # 6 => new[r] = old[r]
      BY <1>11, <1>15, Nine
    <3> QED
      BY <1>1, <1>2, <2>2, <3>1, SameSame
  <2>4. LineOK(new, made[n], n, Any)
    BY <1>1, <1>2, <1>4, <2>3, StillInLine
  <2> QED
    BY <2>4 DEF BrowsersOK, new
<1>16. CASE c \notin {"to_api", "from_reader", "from_node"}
  <2>1. \A r \in 1 .. 7 : new[r] = old[r]
    BY <1>11, <1>16, Nine
  <2>2. LineOK(new, made[n], n, Any)
    BY <1>1, <1>2, <1>4, <2>1, SameSame, StillInLine
  <2> QED
    BY <2>2 DEF BrowsersOK, new
<1> QED
  BY <1>12, <1>13, <1>14, <1>15, <1>16

-----------------------------------------------------------------------------
(* A message goes from a channel to a task, ends, or enters a line.          *)

\* The first message of channel c is taken by task t, which has sent all it had.
TakesFrom(t, c) ==
  /\ t \in Tasks /\ c \in Channels
  /\ chan[c] \in Seq(Messages) /\ chan[c] # <<>> /\ chan'[c] = Tail(chan[c])
  /\ \A d \in Channels \ {c} : chan'[d] = chan[d]
  /\ hand[t] = <<>> /\ \A u \in Tasks \ {t} : hand'[u] = hand[u]

\* Task t will send it to channel d, or it is foreign to the line of n.
SendsOn(t, c, d, n, kinds) ==
  \/ SendingOf(hand'[t], d) = <<Head(chan[c])>>
  \/ SendingOf(hand'[t], d) = <<>> /\ ~Belongs(Head(chan[c]), n, kinds)

LEMMA TakesHashers ==
  ASSUME NEW n \in Nodes, HashersOK(chan, hand, stored, made, n),
         made'[n] = made[n], stored'[n] = stored[n], NEW t, NEW d, NEW c,
         \/ t = "db_master" /\ d = "measure" /\ c = "to_db"
         \/ t = "data_master" /\ d = "to_db" /\ c = "from_reader"
         \/ t = "node_master" /\ d = "from_reader" /\ c = "from_node",
         TakesFrom(t, c), SendsOn(t, c, d, n, Measures)
  PROVE  HashersOK(chan', hand', stored', made', n)
<1> DEFINE old == HashersLine(chan, hand, stored[n], n)
           new == HashersLine(chan', hand', stored'[n], n)
           m == Head(chan[c])
           q == <<m>>
           e == <<>>
<1>1. /\ DOMAIN old = 1 .. 9 /\ old[1] = stored[n]
      /\ old[2] = chan["measure"] /\ old[3] = SendingOf(hand["db_master"], "measure")
      /\ old[4] = chan["to_db"] /\ old[5] = SendingOf(hand["data_master"], "to_db")
      /\ old[6] = chan["from_reader"] /\ old[7] = SendingOf(hand["node_master"], "from_reader")
      /\ old[8] = chan["from_node"] /\ old[9] = SendingOf(hand[n], "from_node")
  BY HashersStages
<1>2. /\ DOMAIN new = 1 .. 9 /\ new[1] = stored'[n]
      /\ new[2] = chan'["measure"] /\ new[3] = SendingOf(hand'["db_master"], "measure")
      /\ new[4] = chan'["to_db"] /\ new[5] = SendingOf(hand'["data_master"], "to_db")
      /\ new[6] = chan'["from_reader"] /\ new[7] = SendingOf(hand'["node_master"], "from_reader")
      /\ new[8] = chan'["from_node"] /\ new[9] = SendingOf(hand'[n], "from_node")
  BY HashersStages
<1>3. /\ {"measure", "to_db", "from_reader", "from_node"} \subseteq Channels
      /\ {"db_master", "data_master", "node_master", n} \subseteq Tasks
      /\ n \notin {"db_master", "data_master", "node_master"}
  BY Names DEF Channels
<1>4. LineOK(old, made[n], n, Measures)
  BY DEF HashersOK
<1>5. /\ chan[c] \in Seq(Messages) /\ chan[c] # <<>> /\ chan'[c] = Tail(chan[c])
      /\ \A b \in Channels \ {c} : chan'[b] = chan[b]
      /\ hand[t] = <<>> /\ \A u \in Tasks \ {t} : hand'[u] = hand[u]
  BY DEF TakesFrom
<1>6. m \in Messages
  BY <1>5, Dequeue
<1>7. e \in Seq(Messages) /\ q = Append(e, m)
  BY <1>6, OneQueue
<1>8. SendingOf(hand[t], d) = e
  BY <1>5, SendingEmpty
<1>9. \/ SendingOf(hand'[t], d) = q
      \/ SendingOf(hand'[t], d) = e /\ ~Belongs(m, n, Measures)
  BY DEF SendsOn
<1> HIDE DEF old, new, q, e
<1>10. ASSUME NEW p \in 1 .. 8, old[p] = SendingOf(hand[t], d), new[p] = SendingOf(hand'[t], d),
              old[p + 1] = chan[c], new[p + 1] = chan'[c],
              \A r \in 1 .. 9 : r # p /\ r # p + 1 => new[r] = old[r]
       PROVE  LineOK(new, made[n], n, Measures)
  <2>1. 9 \in Nat /\ p \in 1 .. 9 - 1
    OBVIOUS
  <2>2. /\ old[p] \in Seq(Messages) /\ old[p + 1] \in Seq(Messages) /\ old[p + 1] # <<>>
        /\ new[p + 1] = Tail(old[p + 1])
        /\ \/ new[p] = Append(old[p], Head(old[p + 1]))
           \/ new[p] = old[p] /\ ~Belongs(Head(old[p + 1]), n, Measures)
    BY <1>5, <1>7, <1>8, <1>9, <1>10
  <2>3. \A r \in 1 .. 9 : r # p /\ r # p + 1 => SameEvents(old[r], new[r], n, Measures)
    BY <1>10, SameSame
  <2> QED
    BY <1>1, <1>2, <1>4, <2>1, <2>2, <2>3, Advance
<1>11. CASE t = "db_master" /\ d = "measure" /\ c = "to_db"
  <2>1. /\ new[1] = old[1] /\ new[2] = old[2] /\ new[5] = old[5] /\ new[6] = old[6]
        /\ new[7] = old[7] /\ new[8] = old[8] /\ new[9] = old[9]
    BY <1>1, <1>2, <1>3, <1>5, <1>11, SMTT(20)
  <2>2. \A r \in 1 .. 9 : r # 3 /\ r # 4 => new[r] = old[r]
    BY <2>1, Nine
  <2> QED
    BY <1>1, <1>2, <1>10, <1>11, <2>2 DEF HashersOK, new
<1>12. CASE t = "data_master" /\ d = "to_db" /\ c = "from_reader"
  <2>1. /\ new[1] = old[1] /\ new[2] = old[2] /\ new[3] = old[3] /\ new[4] = old[4]
        /\ new[7] = old[7] /\ new[8] = old[8] /\ new[9] = old[9]
    BY <1>1, <1>2, <1>3, <1>5, <1>12, SMTT(20)
  <2>2. \A r \in 1 .. 9 : r # 5 /\ r # 6 => new[r] = old[r]
    BY <2>1, Nine
  <2> QED
    BY <1>1, <1>2, <1>10, <1>12, <2>2 DEF HashersOK, new
<1>13. CASE t = "node_master" /\ d = "from_reader" /\ c = "from_node"
  <2>1. /\ new[1] = old[1] /\ new[2] = old[2] /\ new[3] = old[3] /\ new[4] = old[4]
        /\ new[5] = old[5] /\ new[6] = old[6] /\ new[9] = old[9]
    BY <1>1, <1>2, <1>3, <1>5, <1>13, SMTT(20)
  <2>2. \A r \in 1 .. 9 : r # 7 /\ r # 8 => new[r] = old[r]
    BY <2>1, Nine
  <2> QED
    BY <1>1, <1>2, <1>10, <1>13, <2>2 DEF HashersOK, new
<1> QED
  BY <1>11, <1>12, <1>13

LEMMA TakesBrowsers ==
  ASSUME NEW n \in Nodes, BrowsersOK(chan, hand, shown, made, n),
         made'[n] = made[n], shown'[n] = shown[n], NEW t, NEW d, NEW c,
         \/ t = "data_master" /\ d = "to_api" /\ c = "from_reader"
         \/ t = "node_master" /\ d = "from_reader" /\ c = "from_node",
         TakesFrom(t, c), SendsOn(t, c, d, n, Any)
  PROVE  BrowsersOK(chan', hand', shown', made', n)
<1> DEFINE old == BrowsersLine(chan, hand, shown[n], n)
           new == BrowsersLine(chan', hand', shown'[n], n)
           m == Head(chan[c])
           q == <<m>>
           e == <<>>
<1>1. /\ DOMAIN old = 1 .. 7 /\ old[1] = shown[n]
      /\ old[2] = chan["to_api"] /\ old[3] = SendingOf(hand["data_master"], "to_api")
      /\ old[4] = chan["from_reader"] /\ old[5] = SendingOf(hand["node_master"], "from_reader")
      /\ old[6] = chan["from_node"] /\ old[7] = SendingOf(hand[n], "from_node")
  BY BrowsersStages
<1>2. /\ DOMAIN new = 1 .. 7 /\ new[1] = shown'[n]
      /\ new[2] = chan'["to_api"] /\ new[3] = SendingOf(hand'["data_master"], "to_api")
      /\ new[4] = chan'["from_reader"] /\ new[5] = SendingOf(hand'["node_master"], "from_reader")
      /\ new[6] = chan'["from_node"] /\ new[7] = SendingOf(hand'[n], "from_node")
  BY BrowsersStages
<1>3. /\ {"to_api", "from_reader", "from_node"} \subseteq Channels
      /\ {"data_master", "node_master", n} \subseteq Tasks
      /\ n \notin {"data_master", "node_master"}
  BY Names DEF Channels
<1>4. LineOK(old, made[n], n, Any)
  BY DEF BrowsersOK
<1>5. /\ chan[c] \in Seq(Messages) /\ chan[c] # <<>> /\ chan'[c] = Tail(chan[c])
      /\ \A b \in Channels \ {c} : chan'[b] = chan[b]
      /\ hand[t] = <<>> /\ \A u \in Tasks \ {t} : hand'[u] = hand[u]
  BY DEF TakesFrom
<1>6. m \in Messages
  BY <1>5, Dequeue
<1>7. e \in Seq(Messages) /\ q = Append(e, m)
  BY <1>6, OneQueue
<1>8. SendingOf(hand[t], d) = e
  BY <1>5, SendingEmpty
<1>9. \/ SendingOf(hand'[t], d) = q
      \/ SendingOf(hand'[t], d) = e /\ ~Belongs(m, n, Any)
  BY DEF SendsOn
<1> HIDE DEF old, new, q, e
<1>10. ASSUME NEW p \in 1 .. 6, old[p] = SendingOf(hand[t], d), new[p] = SendingOf(hand'[t], d),
              old[p + 1] = chan[c], new[p + 1] = chan'[c],
              \A r \in 1 .. 7 : r # p /\ r # p + 1 => new[r] = old[r]
       PROVE  LineOK(new, made[n], n, Any)
  <2>1. 7 \in Nat /\ p \in 1 .. 7 - 1
    OBVIOUS
  <2>2. /\ old[p] \in Seq(Messages) /\ old[p + 1] \in Seq(Messages) /\ old[p + 1] # <<>>
        /\ new[p + 1] = Tail(old[p + 1])
        /\ \/ new[p] = Append(old[p], Head(old[p + 1]))
           \/ new[p] = old[p] /\ ~Belongs(Head(old[p + 1]), n, Any)
    BY <1>5, <1>7, <1>8, <1>9, <1>10
  <2>3. \A r \in 1 .. 7 : r # p /\ r # p + 1 => SameEvents(old[r], new[r], n, Any)
    BY <1>10, SameSame
  <2> QED
    BY <1>1, <1>2, <1>4, <2>1, <2>2, <2>3, Advance
<1>11. CASE t = "data_master" /\ d = "to_api" /\ c = "from_reader"
  <2>1. /\ new[1] = old[1] /\ new[2] = old[2] /\ new[5] = old[5] /\ new[6] = old[6]
        /\ new[7] = old[7]
    BY <1>1, <1>2, <1>3, <1>5, <1>11, SMTT(20)
  <2>2. \A r \in 1 .. 7 : r # 3 /\ r # 4 => new[r] = old[r]
    BY <2>1, Nine
  <2> QED
    BY <1>1, <1>2, <1>10, <1>11, <2>2 DEF BrowsersOK, new
<1>12. CASE t = "node_master" /\ d = "from_reader" /\ c = "from_node"
  <2>1. /\ new[1] = old[1] /\ new[2] = old[2] /\ new[3] = old[3] /\ new[4] = old[4]
        /\ new[7] = old[7]
    BY <1>1, <1>2, <1>3, <1>5, <1>12, SMTT(20)
  <2>2. \A r \in 1 .. 7 : r # 5 /\ r # 6 => new[r] = old[r]
    BY <2>1, Nine
  <2> QED
    BY <1>1, <1>2, <1>10, <1>12, <2>2 DEF BrowsersOK, new
<1> QED
  BY <1>11, <1>12

\* The end of a line: the first message of stage 2 is taken.
LEMMA EndsHashers ==
  ASSUME NEW n \in Nodes, HashersOK(chan, hand, stored, made, n), made'[n] = made[n],
         chan["measure"] \in Seq(Messages), chan["measure"] # <<>>, stored[n] \in Seq(Messages),
         chan'["measure"] = Tail(chan["measure"]),
         \A d \in Channels \ {"measure"} : chan'[d] = chan[d], hand' = hand,
         \/ stored'[n] = Append(stored[n], Head(chan["measure"]))
         \/ stored'[n] = stored[n] /\ ~Belongs(Head(chan["measure"]), n, Measures)
  PROVE  HashersOK(chan', hand', stored', made', n)
<1> DEFINE old == HashersLine(chan, hand, stored[n], n)
           new == HashersLine(chan', hand', stored'[n], n)
<1>1. /\ DOMAIN old = 1 .. 9 /\ old[1] = stored[n]
      /\ old[2] = chan["measure"] /\ old[3] = SendingOf(hand["db_master"], "measure")
      /\ old[4] = chan["to_db"] /\ old[5] = SendingOf(hand["data_master"], "to_db")
      /\ old[6] = chan["from_reader"] /\ old[7] = SendingOf(hand["node_master"], "from_reader")
      /\ old[8] = chan["from_node"] /\ old[9] = SendingOf(hand[n], "from_node")
  BY HashersStages
<1>2. /\ DOMAIN new = 1 .. 9 /\ new[1] = stored'[n]
      /\ new[2] = chan'["measure"] /\ new[3] = SendingOf(hand'["db_master"], "measure")
      /\ new[4] = chan'["to_db"] /\ new[5] = SendingOf(hand'["data_master"], "to_db")
      /\ new[6] = chan'["from_reader"] /\ new[7] = SendingOf(hand'["node_master"], "from_reader")
      /\ new[8] = chan'["from_node"] /\ new[9] = SendingOf(hand'[n], "from_node")
  BY HashersStages
<1>3. {"measure", "to_db", "from_reader", "from_node"} \subseteq Channels
  BY DEF Channels
<1>4. LineOK(old, made[n], n, Measures)
  BY DEF HashersOK
<1> HIDE DEF old, new
<1>5. /\ new[3] = old[3] /\ new[4] = old[4] /\ new[5] = old[5] /\ new[6] = old[6]
      /\ new[7] = old[7] /\ new[8] = old[8] /\ new[9] = old[9]
  BY <1>1, <1>2, <1>3
<1>6. \A r \in 1 .. 9 : r # 1 /\ r # 2 => SameEvents(old[r], new[r], n, Measures)
  BY <1>5, Nine, SameSame
<1>7. LineOK(new, made[n], n, Measures)
  <2> DEFINE one == 1
  <2>1. 9 \in Nat /\ one \in 1 .. 9 - 1 /\ one = 1 /\ one + 1 = 2
    OBVIOUS
  <2> HIDE DEF one
  <2>2. /\ old[one] \in Seq(Messages) /\ old[one + 1] \in Seq(Messages) /\ old[one + 1] # <<>>
        /\ new[one + 1] = Tail(old[one + 1])
        /\ \/ new[one] = Append(old[one], Head(old[one + 1]))
           \/ new[one] = old[one] /\ ~Belongs(Head(old[one + 1]), n, Measures)
    BY <1>1, <1>2, <2>1
  <2>3. \A r \in 1 .. 9 : r # one /\ r # one + 1 => SameEvents(old[r], new[r], n, Measures)
    BY <1>6, <2>1
  <2> QED
    BY <1>1, <1>2, <1>4, <2>1, <2>2, <2>3, Advance
<1> QED
  BY <1>7 DEF HashersOK, new

LEMMA EndsBrowsers ==
  ASSUME NEW n \in Nodes, BrowsersOK(chan, hand, shown, made, n), made'[n] = made[n],
         chan["to_api"] \in Seq(Messages), chan["to_api"] # <<>>, shown[n] \in Seq(Messages),
         chan'["to_api"] = Tail(chan["to_api"]),
         \A d \in Channels \ {"to_api"} : chan'[d] = chan[d], hand' = hand,
         \/ shown'[n] = Append(shown[n], Head(chan["to_api"]))
         \/ shown'[n] = shown[n] /\ ~Belongs(Head(chan["to_api"]), n, Any)
  PROVE  BrowsersOK(chan', hand', shown', made', n)
<1> DEFINE old == BrowsersLine(chan, hand, shown[n], n)
           new == BrowsersLine(chan', hand', shown'[n], n)
<1>1. /\ DOMAIN old = 1 .. 7 /\ old[1] = shown[n]
      /\ old[2] = chan["to_api"] /\ old[3] = SendingOf(hand["data_master"], "to_api")
      /\ old[4] = chan["from_reader"] /\ old[5] = SendingOf(hand["node_master"], "from_reader")
      /\ old[6] = chan["from_node"] /\ old[7] = SendingOf(hand[n], "from_node")
  BY BrowsersStages
<1>2. /\ DOMAIN new = 1 .. 7 /\ new[1] = shown'[n]
      /\ new[2] = chan'["to_api"] /\ new[3] = SendingOf(hand'["data_master"], "to_api")
      /\ new[4] = chan'["from_reader"] /\ new[5] = SendingOf(hand'["node_master"], "from_reader")
      /\ new[6] = chan'["from_node"] /\ new[7] = SendingOf(hand'[n], "from_node")
  BY BrowsersStages
<1>3. {"to_api", "from_reader", "from_node"} \subseteq Channels
  BY DEF Channels
<1>4. LineOK(old, made[n], n, Any)
  BY DEF BrowsersOK
<1> HIDE DEF old, new
<1>5. /\ new[3] = old[3] /\ new[4] = old[4] /\ new[5] = old[5] /\ new[6] = old[6]
      /\ new[7] = old[7]
  BY <1>1, <1>2, <1>3
<1>6. \A r \in 1 .. 7 : r # 1 /\ r # 2 => SameEvents(old[r], new[r], n, Any)
  BY <1>5, Nine, SameSame
<1>7. LineOK(new, made[n], n, Any)
  <2> DEFINE one == 1
  <2>1. 7 \in Nat /\ one \in 1 .. 7 - 1 /\ one = 1 /\ one + 1 = 2
    OBVIOUS
  <2> HIDE DEF one
  <2>2. /\ old[one] \in Seq(Messages) /\ old[one + 1] \in Seq(Messages) /\ old[one + 1] # <<>>
        /\ new[one + 1] = Tail(old[one + 1])
        /\ \/ new[one] = Append(old[one], Head(old[one + 1]))
           \/ new[one] = old[one] /\ ~Belongs(Head(old[one + 1]), n, Any)
    BY <1>1, <1>2, <2>1
  <2>3. \A r \in 1 .. 7 : r # one /\ r # one + 1 => SameEvents(old[r], new[r], n, Any)
    BY <1>6, <2>1
  <2> QED
    BY <1>1, <1>2, <1>4, <2>1, <2>2, <2>3, Advance
<1> QED
  BY <1>7 DEF BrowsersOK, new

\* The start of a line: event m is made.
LEMMA EnterLine ==
  ASSUME NEW L \in Nat \ {0}, NEW old, NEW new, NEW md \in Seq(Messages), NEW m \in Messages,
         NEW n, NEW kinds, LineOK(old, md, n, kinds),
         DOMAIN old = 1 .. L, DOMAIN new = 1 .. L, old[L] = <<>>, new[L] = <<m>>,
         \A q \in 1 .. L : q # L => new[q] = old[q],
         \A x \in EventsIn(md, n, kinds) : x.no < m.no
  PROVE  LineOK(new, Append(md, m), n, kinds)
<1> DEFINE E(l, q) == EventsIn(l[q], n, kinds)
           own == IF Belongs(m, n, kinds) THEN {m} ELSE {}
           e == <<>>
           s == <<m>>
<1>1. EventsIn(Append(md, m), n, kinds) = EventsIn(md, n, kinds) \cup own
  BY AppendEvents
<1>2. s = Append(e, m) /\ DOMAIN e = {}
  BY OneQueue
<1>3. e \in Seq(Messages)
  BY OneQueue
<1>4. old[L] = e /\ new[L] = s
  OBVIOUS
<1> HIDE DEF e, s
<1>5. EventsIn(e, n, kinds) = {} /\ Sorted(e, n, kinds)
  BY <1>2 DEF EventsIn, Sorted
<1>6. EventsIn(s, n, kinds) = own /\ Sorted(s, n, kinds)
  <2>1. EventsIn(s, n, kinds) = EventsIn(e, n, kinds) \cup own
    <3>1. EventsIn(Append(e, m), n, kinds) = EventsIn(e, n, kinds) \cup own
      BY <1>3, AppendEvents DEF own
    <3> QED
      BY <1>2, <3>1
  <2>2. Sorted(s, n, kinds)
    BY <1>2, <1>3, <1>5, AppendEvents
  <2> QED
    BY <1>5, <2>1, <2>2
<1> HIDE DEF own
<1>7. L \in 1 .. L
  OBVIOUS
<1>8. /\ \A q \in 1 .. L : Sorted(old[q], n, kinds)
      /\ \A p, q \in 1 .. L : p < q => \A x \in E(old, p), y \in E(old, q) : x.no < y.no
      /\ UNION {E(old, q) : q \in 1 .. L} = EventsIn(md, n, kinds)
  BY DEF LineOK
<1>9. /\ E(new, L) = own /\ E(old, L) = {} /\ Sorted(new[L], n, kinds)
      /\ \A q \in 1 .. L : q # L => E(new, q) = E(old, q)
  BY <1>4, <1>5, <1>6
<1> HIDE DEF E
<1>10. \A q \in 1 .. L : Sorted(new[q], n, kinds)
  BY <1>8, <1>9
<1>11. \A x \in own : x = m
  BY DEF own
<1>12. ASSUME NEW p \in 1 .. L, NEW q \in 1 .. L, p < q, NEW x \in E(new, p), NEW y \in E(new, q)
       PROVE  x.no < y.no
  <2>1. p # L /\ x \in E(old, p)
    BY <1>9, <1>12
  <2>2. CASE q = L
    <3>1. x \in EventsIn(md, n, kinds)
      BY <1>8, <2>1
    <3> QED
      BY <1>9, <1>11, <1>12, <2>2, <3>1
  <2>3. CASE q # L
    BY <1>8, <1>9, <1>12, <2>1, <2>3
  <2> QED
    BY <2>2, <2>3
<1>13. UNION {E(new, q) : q \in 1 .. L} = EventsIn(md, n, kinds) \cup own
  <2>1. \A x : (\E q \in 1 .. L : x \in E(new, q))
                 <=> (\E q \in 1 .. L : x \in E(old, q)) \/ x \in own
    BY <1>7, <1>9
  <2> QED
    BY <1>8, <2>1
<1> QED
  BY <1>1, <1>10, <1>12, <1>13 DEF LineOK, E

-----------------------------------------------------------------------------
(* The events in each step.                                                  *)

EventsOK(ch, h, st, sh, md, n) ==
  Numbered(md, n) /\ HashersOK(ch, h, st, md, n) /\ BrowsersOK(ch, h, sh, md, n)

\* A task that had nothing to send still has nothing, or something foreign to n.
HandStill(h, k, n) ==
  \/ k = h
  \/ h = <<>> /\ \E o : /\ k = <<o>> /\ o.msg \in Messages
                        /\ o.msg \in Events => o.msg.node # n

\* A step that moves nothing of n.
LEMMA Quiet ==
  ASSUME NEW n \in Nodes, EventsOK(chan, hand, stored, shown, made, n),
         made'[n] = made[n], stored'[n] = stored[n], shown'[n] = shown[n],
         \A c \in {"measure", "to_db", "to_api", "from_reader", "from_node"} : chan'[c] = chan[c],
         \A t \in Tasks : HandStill(hand[t], hand'[t], n)
  PROVE  EventsOK(chan', hand', stored', shown', made', n)
<1>1. n \in Tasks
  BY Names
<1>2. ASSUME NEW kinds, kinds \subseteq Any, NEW t \in Tasks, NEW c
      PROVE  SameEvents(SendingOf(hand[t], c), SendingOf(hand'[t], c), n, kinds)
  <2>1. \A m \in Messages : (m \in Events => m.node # n) => ~Belongs(m, n, kinds)
    BY <1>2, Foreign
  <2>2. \/ hand'[t] = hand[t]
        \/ hand[t] = <<>> /\ \E o : /\ hand'[t] = <<o>> /\ o.msg \in Messages
                                    /\ ~Belongs(o.msg, n, kinds)
    BY <2>1 DEF HandStill
  <2> QED
    BY <1>2, <2>2, QuietHand
<1>3. HashersOK(chan', hand', stored', made', n)
  <2>1. \A c \in {"measure", "to_db", "from_reader", "from_node"} :
          SameEvents(chan[c], chan'[c], n, Measures)
    BY SameSame
  <2>2. \A t \in Tasks : \A c \in {"measure", "to_db", "from_reader", "from_node"} :
          SameEvents(SendingOf(hand[t], c), SendingOf(hand'[t], c), n, Measures)
    BY <1>2, Kindly
  <2> QED
    BY <1>1, <2>1, <2>2, StillHashers DEF EventsOK
<1>4. BrowsersOK(chan', hand', shown', made', n)
  <2>1. \A c \in {"to_api", "from_reader", "from_node"} : SameEvents(chan[c], chan'[c], n, Any)
    BY SameSame
  <2>2. \A t \in Tasks : \A c \in {"to_api", "from_reader", "from_node"} :
          SameEvents(SendingOf(hand[t], c), SendingOf(hand'[t], c), n, Any)
    BY <1>2, Kindly
  <2> QED
    BY <1>1, <2>1, <2>2, StillBrowsers DEF EventsOK
<1>5. Numbered(made', n)
  BY DEF EventsOK, Numbered
<1> QED
  BY <1>3, <1>4, <1>5 DEF EventsOK

\* A task that had nothing to send begins to send what is no event.
LEMMA SendsNoEvent ==
  ASSUME HandOK(hand), NEW t \in Tasks, hand[t] = <<>>, NEW o, o.msg \in Messages \ Events,
         hand' = [hand EXCEPT ![t] = <<o>>], NEW n
  PROVE  \A u \in Tasks : HandStill(hand[u], hand'[u], n)
<1> DEFINE k == <<o>>
<1>1. hand' = [hand EXCEPT ![t] = k] /\ k = <<o>>
  OBVIOUS
<1> HIDE DEF k
<1>2. hand'[t] = k /\ \A u \in Tasks \ {t} : hand'[u] = hand[u]
  BY <1>1 DEF HandOK
<1> QED
  BY <1>1, <1>2 DEF HandStill

LEMMA SendEvents ==
  ASSUME BusOK, NEW t \in Tasks, Send(t), NEW n \in Nodes,
         EventsOK(chan, hand, stored, shown, made, n)
  PROVE  EventsOK(chan', hand', stored', shown', made', n)
<1>1. UNCHANGED <<made, stored, shown>>
  BY DEF Send, history
<1>2. PICK c, m : SendsTo(t, c, m)
  BY SendIs
<1>3. HashersOK(chan', hand', stored', made', n)
  BY <1>1, <1>2, SendHashers DEF EventsOK
<1>4. BrowsersOK(chan', hand', shown', made', n)
  BY <1>1, <1>2, SendBrowsers DEF EventsOK
<1> QED
  BY <1>1, <1>3, <1>4 DEF EventsOK, Numbered

LEMMA TakeIs ==
  ASSUME BusOK, NEW c \in Channels, chan[c] # <<>>, Take(c)
  PROVE  /\ chan[c] \in Seq(Messages) /\ chan'[c] = Tail(chan[c])
         /\ \A e \in Channels \ {c} : chan'[e] = chan[e]
         /\ Head(chan[c]) \in Carried(c) /\ Head(chan[c]) \in Messages
<1>1. Head(chan[c]) \in Carried(c) /\ Head(chan[c]) \in Messages
  BY Taken
<1>2. chan \in [Channels -> Seq(Messages)]
  BY DEF BusOK, ChanOK
<1> DEFINE l == Tail(chan[c])
<1>3. chan' = [chan EXCEPT ![c] = l]
  BY DEF Take
<1> HIDE DEF l
<1>4. chan'[c] = l /\ \A e \in Channels \ {c} : chan'[e] = chan[e]
  BY <1>2, <1>3
<1>5. chan[c] \in Seq(Messages)
  BY <1>2
<1> QED
  BY <1>1, <1>4, <1>5 DEF l

LEMMA ForwardEvents ==
  ASSUME BusOK, NEW c \in {"from_api", "from_reader", "from_db"}, Forward(c), NEW n \in Nodes,
         EventsOK(chan, hand, stored, shown, made, n)
  PROVE  EventsOK(chan', hand', stored', shown', made', n)
<1> DEFINE m == Head(chan[c])
           d == "data_master"
           out(ch) == [to |-> ch, msg |-> m]
<1>1. /\ c \in Channels /\ d \in Tasks /\ hand[d] = <<>> /\ chan[c] # <<>> /\ Take(c)
      /\ hand' = [hand EXCEPT ![d] = Route(m)]
      /\ UNCHANGED <<made, stored, shown>>
  BY Names DEF Forward, Free, Channels, history
<1>2. ChanOK(chan) /\ HandOK(hand)
  BY DEF BusOK
<1>3. /\ chan[c] \in Seq(Messages) /\ chan'[c] = Tail(chan[c])
      /\ \A e \in Channels \ {c} : chan'[e] = chan[e]
      /\ m \in Carried(c) /\ m \in Messages
  BY <1>1, TakeIs
<1>4. TakesFrom(d, c)
  <2>1. \A u \in Tasks \ {d} : hand'[u] = hand[u]
    BY <1>1, <1>2 DEF HandOK
  <2> QED
    BY <1>1, <1>3, <2>1 DEF TakesFrom
<1>5. hand'[d] = Route(m)
  BY <1>1, <1>2 DEF HandOK
<1> HIDE DEF m
<1>6. CASE c # "from_reader"
  <2>1. m \in ConfigEvents \/ m \in Requests \cup Commands
    BY <1>3, <1>6, CarriedIs
  <2> DEFINE o == out(IF m \in ConfigEvents THEN "to_reader" ELSE "to_db")
  <2>2. Route(m) = <<o>>
    BY <2>1, Kinds DEF Route, Asks
  <2>3. o.msg \in Messages \ Events
    BY <1>3, <2>1, Kinds
  <2> HIDE DEF o
  <2>4. \A u \in Tasks : HandStill(hand[u], hand'[u], n)
    BY <1>1, <1>2, <2>2, <2>3, SendsNoEvent
  <2>5. \A e \in {"measure", "to_db", "to_api", "from_reader", "from_node"} : chan'[e] = chan[e]
    BY <1>3, <1>6 DEF Channels
  <2> QED
    BY <1>1, <2>4, <2>5, Quiet
<1>7. CASE c = "from_reader"
  <2>1. m \in Events \/ m \in Requests
    BY <1>3, <1>7, CarriedIs
  <2>2. SendsOn(d, c, "to_db", n, Measures) /\ SendsOn(d, c, "to_api", n, Any)
    <3>1. CASE m \in Events
      <4> DEFINE o == out("to_db")
                 p == out("to_api")
      <4>1. Route(m) = <<o, p>>
        BY <3>1, Kinds DEF Route, Asks
      <4>2. o.to = "to_db" /\ p.to = "to_api" /\ o.msg = m /\ p.msg = m
        OBVIOUS
      <4> HIDE DEF o, p
      <4>3. /\ SendingOf(hand'[d], "to_db") = <<m>>
            /\ SendingOf(hand'[d], "to_api") = <<m>>
        <5>1. o.to # p.to
          BY <4>2
        <5>2. SendingOf(<<o, p>>, o.to) = <<o.msg>> /\ SendingOf(<<o, p>>, p.to) = <<p.msg>>
          BY <5>1, SendingPair
        <5> QED
          BY <1>5, <4>1, <4>2, <5>2
      <4> QED
        BY <4>3 DEF SendsOn, m
    <3>2. CASE m \in Requests
      <4> DEFINE o == out("to_db")
      <4>1. Route(m) = <<o>>
        BY <3>2, Kinds DEF Route, Asks
      <4>2. o.to = "to_db" /\ o.msg = m
        OBVIOUS
      <4> HIDE DEF o
      <4>3. /\ SendingOf(hand'[d], "to_db") = <<m>>
            /\ SendingOf(hand'[d], "to_api") = <<>>
        <5>1. SendingOf(<<o>>, "to_db") = <<m>> /\ SendingOf(<<o>>, "to_api") = <<>>
          BY <4>2, SendingSingle
        <5> QED
          BY <1>5, <4>1, <5>1
      <4>4. m \notin Events
        BY <3>2, Kinds
      <4>5. ~Belongs(m, n, Any)
        BY <1>3, <4>4, Foreign, Kindly
      <4> QED
        BY <4>3, <4>5 DEF SendsOn, m
    <3> QED
      BY <2>1, <3>1, <3>2
  <2>3. HashersOK(chan', hand', stored', made', n)
    BY <1>1, <1>4, <1>7, <2>2, TakesHashers DEF EventsOK
  <2>4. BrowsersOK(chan', hand', shown', made', n)
    BY <1>1, <1>4, <1>7, <2>2, TakesBrowsers DEF EventsOK
  <2> QED
    BY <1>1, <2>3, <2>4 DEF EventsOK, Numbered
<1> QED
  BY <1>6, <1>7

\* The steps in which a task asks or takes an answer, or works for another.
LEMMA QuietStep ==
  ASSUME BusOK, NEW n \in Nodes, EventsOK(chan, hand, stored, shown, made, n),
         UNCHANGED <<made, stored, shown>>,
         \A c \in {"measure", "to_db", "to_api", "from_reader", "from_node"} : chan'[c] = chan[c],
         \/ hand' = hand
         \/ \E t \in Tasks : /\ hand[t] = <<>>
                             /\ \E o : /\ o.msg \in Messages \ Events
                                       /\ hand' = [hand EXCEPT ![t] = <<o>>]
  PROVE  EventsOK(chan', hand', stored', shown', made', n)
<1>1. HandOK(hand)
  BY DEF BusOK
<1>2. \A t \in Tasks : HandStill(hand[t], hand'[t], n)
  <2>1. CASE hand' = hand
    BY <2>1 DEF HandStill
  <2>2. CASE \E t \in Tasks : /\ hand[t] = <<>>
                              /\ \E o : /\ o.msg \in Messages \ Events
                                        /\ hand' = [hand EXCEPT ![t] = <<o>>]
    <3>1. PICK t \in Tasks : /\ hand[t] = <<>>
                             /\ \E o : /\ o.msg \in Messages \ Events
                                       /\ hand' = [hand EXCEPT ![t] = <<o>>]
      BY <2>2
    <3>2. PICK o : o.msg \in Messages \ Events /\ hand' = [hand EXCEPT ![t] = <<o>>]
      BY <3>1
    <3> QED
      BY <1>1, <3>1, <3>2, SendsNoEvent
  <2> QED
    BY <2>1, <2>2
<1> QED
  BY <1>2, Quiet

LEMMA NoEvents ==
  ASSUME NEW m, m \in Requests \cup Commands
  PROVE  m \in Messages \ Events
BY Kinds DEF Messages

LEMMA ClientEvents ==
  ASSUME BusOK, NEW c \in Clients, ClientAsks(c) \/ ClientCommands(c), NEW n \in Nodes,
         EventsOK(chan, hand, stored, shown, made, n)
  PROVE  EventsOK(chan', hand', stored', shown', made', n)
<1>1. RestOK /\ c \in Tasks /\ c \in Askers
  BY Names DEF BusOK
<1>2. \E m \in Requests \cup Commands : Asked(c, m)
  <2>1. CASE ClientAsks(c)
    <3>1. PICK m \in {Request(c), GetMeasure(c)} : Asked(c, m)
      BY <2>1 DEF ClientAsks
    <3>2. m \in Requests \cup Commands
      BY <1>1, <3>1 DEF Request, GetMeasure, Requests
    <3> QED
      BY <3>1, <3>2
  <2>2. CASE ClientCommands(c)
    <3>1. PICK k \in Nodes : \E e \in Changes(k) : Asked(c, Command(c, e))
      BY <2>2 DEF ClientCommands
    <3>2. PICK e \in Changes(k) : Asked(c, Command(c, e))
      BY <3>1
    <3>3. e \in Announcements \ {<<>>}
      BY <1>1, ChangesAre
    <3>4. Command(c, e) \in Requests \cup Commands
      BY <3>3 DEF Command, Commands
    <3> QED
      BY <3>2, <3>4
  <2> QED
    BY <2>1, <2>2
<1>3. PICK m \in Requests \cup Commands : Asked(c, m)
  BY <1>2
<1> DEFINE o == [to |-> "from_api", msg |-> m]
<1>4. /\ at[c] = "idle" /\ hand' = [hand EXCEPT ![c] = <<o>>]
      /\ UNCHANGED <<chan, made, stored, shown>>
  BY <1>3 DEF Asked
<1>5. o.msg \in Messages \ Events
  BY <1>3, NoEvents
<1> HIDE DEF o
<1>6. hand[c] = <<>>
  BY <1>1, <1>4 DEF RestOK
<1> QED
  BY <1>1, <1>4, <1>5, <1>6, QuietStep

LEMMA NodeEvents ==
  ASSUME BusOK, NEW k \in Nodes, NodeFetches(k) \/ NodeAnswered(k) \/ NodeHears(k),
         NEW n \in Nodes, EventsOK(chan, hand, stored, shown, made, n)
  PROVE  EventsOK(chan', hand', stored', shown', made', n)
<1> DEFINE o == [to |-> "from_node", msg |-> Request(k)]
<1>1. k \in Tasks /\ k \in Askers
  BY Names
<1>2. hand[k] = <<>> /\ (hand' = hand \/ hand' = [hand EXCEPT ![k] = <<o>>])
  BY DEF NodeFetches, NodeAnswered, NodeHears, AsksForDevices, Asking, Free, Answered
<1>3. UNCHANGED <<chan, made, stored, shown>>
  BY DEF NodeFetches, NodeAnswered, NodeHears, history
<1>4. o.msg \in Messages \ Events
  <2>1. o.msg \in Requests \cup Commands
    BY <1>1 DEF Request, Requests
  <2> QED
    BY <2>1, NoEvents
<1> HIDE DEF o
<1> QED
  BY <1>1, <1>2, <1>3, <1>4, QuietStep

LEMMA MasterEvents ==
  ASSUME BusOK, MasterConfigures \/ LookedUp, NEW n \in Nodes,
         EventsOK(chan, hand, stored, shown, made, n)
  PROVE  EventsOK(chan', hand', stored', shown', made', n)
<1> DEFINE o == [to |-> "from_reader", msg |-> Request("node_master")]
           d == "node_master"
<1>1. d \in Tasks
  BY Names
<1>2. Lookup = <<o>> /\ o.msg \in Messages \ Events
  <2>1. Lookup = <<o>> /\ o.msg \in Requests
    BY LookupIs
  <2> QED
    BY <2>1, NoEvents
<1> HIDE DEF o
<1>3. hand[d] = <<>> /\ (hand' = hand \/ hand' = [hand EXCEPT ![d] = <<o>>])
  <2>1. CASE MasterConfigures
    BY <1>2, <2>1 DEF MasterConfigures, Free
  <2>2. CASE LookedUp
    BY <1>2, <2>2 DEF LookedUp, Answered
  <2> QED
    BY <2>1, <2>2
<1>4. UNCHANGED <<made, stored, shown>>
  BY DEF MasterConfigures, LookedUp, history
<1>5. \A c \in {"measure", "to_db", "to_api", "from_reader", "from_node"} : chan'[c] = chan[c]
  <2>1. CASE MasterConfigures
    <3>1. /\ "to_reader" \in Channels /\ chan["to_reader"] # <<>> /\ Take("to_reader")
          /\ {"measure", "to_db", "to_api", "from_reader", "from_node"}
               \subseteq Channels \ {"to_reader"}
      BY <2>1 DEF MasterConfigures, Channels
    <3>2. \A e \in Channels \ {"to_reader"} : chan'[e] = chan[e]
      BY <3>1, TakeIs
    <3> QED
      BY <3>1, <3>2
  <2>2. CASE LookedUp
    BY <2>2 DEF LookedUp
  <2> QED
    BY <2>1, <2>2
<1> QED
  BY <1>1, <1>2, <1>3, <1>4, <1>5, QuietStep

LEMMA WorkEvents ==
  ASSUME BusOK, NEW w,
         WorkerAnswers(w) \/ WorkerCommits(w) \/ WorkerTells(w) \/ WorkerTimesOut(w),
         NEW n \in Nodes, EventsOK(chan, hand, stored, shown, made, n)
  PROVE  EventsOK(chan', hand', stored', shown', made', n)
<1>1. UNCHANGED <<hand, made, stored, shown>>
  BY DEF WorkerAnswers, WorkerCommits, WorkerTells, WorkerTimesOut, history
<1>2. \A c \in {"measure", "to_db", "to_api", "from_reader", "from_node"} : chan'[c] = chan[c]
  <2>1. CASE WorkerTells(w)
    <3> DEFINE l == Append(chan["from_db"], Head(w.tell))
    <3>1. chan' = chan \/ chan' = [chan EXCEPT !["from_db"] = l]
      BY <2>1 DEF WorkerTells
    <3> HIDE DEF l
    <3>2. /\ chan \in [Channels -> Seq(Messages)]
          /\ {"measure", "to_db", "to_api", "from_reader", "from_node"}
               \subseteq Channels \ {"from_db"}
      BY DEF BusOK, ChanOK, Channels
    <3> QED
      BY <3>1, <3>2
  <2>2. CASE ~WorkerTells(w)
    BY <2>2 DEF WorkerAnswers, WorkerCommits, WorkerTimesOut
  <2> QED
    BY <2>1, <2>2
<1> QED
  BY <1>1, <1>2, QuietStep

LEMMA DispatchEvents ==
  ASSUME BusOK, Dispatch, NEW n \in Nodes, EventsOK(chan, hand, stored, shown, made, n)
  PROVE  EventsOK(chan', hand', stored', shown', made', n)
<1> DEFINE m == Head(chan["to_db"])
           d == "db_master"
           o == [to |-> "measure", msg |-> m]
<1>1. /\ "to_db" \in Channels /\ d \in Tasks /\ d # n /\ n \in Tasks
      /\ hand[d] = <<>> /\ chan["to_db"] # <<>> /\ Take("to_db")
      /\ hand' = IF m.kind \in {"GetMeasure", "DeviceEvent"}
                   THEN [hand EXCEPT ![d] = <<o>>] ELSE hand
      /\ UNCHANGED <<made, stored, shown>>
  BY Names DEF Dispatch, Free, Channels, history
<1>2. /\ chan["to_db"] \in Seq(Messages) /\ chan'["to_db"] = Tail(chan["to_db"])
      /\ \A e \in Channels \ {"to_db"} : chan'[e] = chan[e]
      /\ m \in Messages
  BY <1>1, TakeIs
<1>3. HandOK(hand)
  BY DEF BusOK
<1>4. o.to = "measure" /\ o.msg = m
  OBVIOUS
<1> HIDE DEF o, m
<1>5. /\ \A u \in Tasks \ {d} : hand'[u] = hand[u]
      /\ hand'[d] = IF m.kind \in {"GetMeasure", "DeviceEvent"} THEN <<o>> ELSE <<>>
  BY <1>1, <1>3 DEF HandOK
<1>6. HashersOK(chan', hand', stored', made', n)
  <2>1. TakesFrom(d, "to_db")
    BY <1>1, <1>2, <1>5 DEF TakesFrom
  <2>2. SendsOn(d, "to_db", "measure", n, Measures)
    <3>1. CASE m.kind \in {"GetMeasure", "DeviceEvent"}
      <4>1. SendingOf(<<o>>, "measure") = <<m>>
        BY <1>4, SendingSingle
      <4> QED
        BY <1>5, <3>1, <4>1 DEF SendsOn, m
    <3>2. CASE m.kind \notin {"GetMeasure", "DeviceEvent"}
      <4>1. SendingOf(<<>>, "measure") = <<>>
        BY SendingEmpty
      <4>2. ~Belongs(m, n, Measures)
        BY <3>2 DEF Belongs, Measures
      <4> QED
        BY <1>5, <3>2, <4>1, <4>2 DEF SendsOn, m
    <3> QED
      BY <3>1, <3>2
  <2> QED
    BY <1>1, <2>1, <2>2, TakesHashers DEF EventsOK
<1>7. BrowsersOK(chan', hand', shown', made', n)
  <2>1. \A c \in {"to_api", "from_reader", "from_node"} : SameEvents(chan[c], chan'[c], n, Any)
    <3>1. {"to_api", "from_reader", "from_node"} \subseteq Channels \ {"to_db"}
      BY DEF Channels
    <3> QED
      BY <1>2, <3>1, SameSame
  <2>2. ASSUME NEW t \in Tasks, NEW c \in {"to_api", "from_reader", "from_node"}
        PROVE  SameEvents(SendingOf(hand[t], c), SendingOf(hand'[t], c), n, Any)
    <3>1. CASE t # d
      BY <1>5, <3>1, SameSame
    <3>2. CASE t = d
      <4>1. SendingOf(<<>>, c) = <<>>
        BY SendingEmpty
      <4>2. SendingOf(<<o>>, c) = <<>>
        <5>1. o.to # c
          BY <1>4
        <5> QED
          BY <5>1, SendingSingle
      <4>3. SendingOf(hand[t], c) = SendingOf(hand'[t], c)
        BY <1>1, <1>5, <3>2, <4>1, <4>2
      <4> QED
        BY <4>3, SameSame
    <3> QED
      BY <3>1, <3>2
  <2> QED
    BY <1>1, <2>1, <2>2, StillBrowsers DEF EventsOK
<1> QED
  BY <1>1, <1>6, <1>7 DEF EventsOK, Numbered

LEMMA MasterForwardsEvents ==
  ASSUME BusOK, MasterForwards, NEW n \in Nodes, EventsOK(chan, hand, stored, shown, made, n)
  PROVE  EventsOK(chan', hand', stored', shown', made', n)
<1> DEFINE c == "from_node"
           m == Head(chan[c])
           d == "node_master"
           o == [to |-> "from_reader", msg |-> m]
<1>1. /\ c \in Channels /\ d \in Tasks
      /\ hand[d] = <<>> /\ chan[c] # <<>> /\ Take(c)
      /\ hand' = [hand EXCEPT ![d] = <<o>>]
      /\ UNCHANGED <<made, stored, shown>>
  BY Names DEF MasterForwards, Free, Channels, history
<1>2. /\ chan[c] \in Seq(Messages) /\ chan'[c] = Tail(chan[c])
      /\ \A e \in Channels \ {c} : chan'[e] = chan[e]
  BY <1>1, TakeIs
<1>3. o.to = "from_reader" /\ o.msg = m
  OBVIOUS
<1> HIDE DEF o, m
<1>4. hand'[d] = <<o>> /\ \A u \in Tasks \ {d} : hand'[u] = hand[u]
  BY <1>1 DEF BusOK, HandOK
<1>5. TakesFrom(d, c)
  BY <1>1, <1>2, <1>4 DEF TakesFrom
<1>6. SendingOf(hand'[d], "from_reader") = <<m>>
  <2>1. SendingOf(<<o>>, "from_reader") = <<m>>
    BY <1>3, SendingSingle
  <2> QED
    BY <1>4, <2>1
<1>7. SendsOn(d, c, "from_reader", n, Measures) /\ SendsOn(d, c, "from_reader", n, Any)
  BY <1>6 DEF SendsOn, m
<1>8. HashersOK(chan', hand', stored', made', n)
  BY <1>1, <1>5, <1>7, TakesHashers DEF EventsOK
<1>9. BrowsersOK(chan', hand', shown', made', n)
  BY <1>1, <1>5, <1>7, TakesBrowsers DEF EventsOK
<1> QED
  BY <1>1, <1>8, <1>9 DEF EventsOK, Numbered

LEMMA MeasureMasterEvents ==
  ASSUME BusOK, MeasureMaster, NEW n \in Nodes, EventsOK(chan, hand, stored, shown, made, n)
  PROVE  EventsOK(chan', hand', stored', shown', made', n)
<1> DEFINE m == Head(chan["measure"])
<1>1. /\ "measure" \in Channels /\ chan["measure"] # <<>> /\ Take("measure")
      /\ IF m.kind = "GetMeasure"
           THEN UNCHANGED stored
           ELSE stored' = [stored EXCEPT ![m.node] = Append(@, m)]
      /\ UNCHANGED <<hand, made, shown>>
  BY DEF MeasureMaster, Channels
<1>2. /\ chan["measure"] \in Seq(Messages) /\ chan'["measure"] = Tail(chan["measure"])
      /\ \A e \in Channels \ {"measure"} : chan'[e] = chan[e]
      /\ m \in Carried("measure") /\ m \in Messages
  BY <1>1, TakeIs
<1>3. m \in Events \cup Requests
  BY <1>2, CarriedIs
<1> HIDE DEF m
<1>4. stored \in [Nodes -> Seq(Events)]
  BY DEF BusOK, RestOK
<1>5. stored[n] \in Seq(Messages)
  <2>1. stored[n] \in Seq(Events) /\ Events \subseteq Messages
    BY <1>4 DEF Messages
  <2> QED
    BY <2>1
<1>6. \/ stored'[n] = Append(stored[n], m)
      \/ stored'[n] = stored[n] /\ ~Belongs(m, n, Measures)
  <2>1. CASE m.kind = "GetMeasure"
    BY <1>1, <2>1 DEF Belongs, Measures
  <2>2. CASE m.kind # "GetMeasure" /\ m.node = n
    <3> DEFINE l == Append(stored[n], m)
    <3>1. stored' = [stored EXCEPT ![n] = l]
      BY <1>1, <2>2
    <3> HIDE DEF l
    <3>2. stored'[n] = l
      BY <1>4, <3>1
    <3> QED
      BY <3>2 DEF l
  <2>3. CASE m.kind # "GetMeasure" /\ m.node # n
    <3>1. stored'[n] = stored[n]
      BY <1>1, <1>4, <2>3
    <3> QED
      BY <2>3, <3>1 DEF Belongs
  <2> QED
    BY <2>1, <2>2, <2>3
<1>7. HashersOK(chan', hand', stored', made', n)
  <2>1. HashersOK(chan, hand, stored, made, n) /\ made'[n] = made[n] /\ hand' = hand
    BY <1>1 DEF EventsOK
  <2> QED
    BY <1>1, <1>2, <1>5, <1>6, <2>1, EndsHashers DEF m
<1>8. BrowsersOK(chan', hand', shown', made', n)
  <2>1. {"to_api", "from_reader", "from_node"} \subseteq Channels \ {"measure"} /\ n \in Tasks
    BY Names DEF Channels
  <2>2. \A c \in {"to_api", "from_reader", "from_node"} : SameEvents(chan[c], chan'[c], n, Any)
    BY <1>2, <2>1, SameSame
  <2>3. \A t \in Tasks : \A c \in {"to_api", "from_reader", "from_node"} :
          SameEvents(SendingOf(hand[t], c), SendingOf(hand'[t], c), n, Any)
    BY <1>1, SameSame
  <2> QED
    BY <1>1, <2>1, <2>2, <2>3, StillBrowsers DEF EventsOK
<1> QED
  BY <1>1, <1>7, <1>8 DEF EventsOK, Numbered

LEMMA CoordinatorEvents ==
  ASSUME BusOK, Coordinator, NEW n \in Nodes, EventsOK(chan, hand, stored, shown, made, n)
  PROVE  EventsOK(chan', hand', stored', shown', made', n)
<1> DEFINE m == Head(chan["to_api"])
<1>1. /\ "to_api" \in Channels /\ chan["to_api"] # <<>> /\ Take("to_api")
      /\ shown' = [shown EXCEPT ![m.node] = Append(@, m)]
      /\ UNCHANGED <<hand, made, stored>>
  BY DEF Coordinator, Channels
<1>2. /\ chan["to_api"] \in Seq(Messages) /\ chan'["to_api"] = Tail(chan["to_api"])
      /\ \A e \in Channels \ {"to_api"} : chan'[e] = chan[e]
      /\ m \in Messages
  BY <1>1, TakeIs
<1> HIDE DEF m
<1>3. shown \in [Nodes -> Seq(Events)]
  BY DEF BusOK, RestOK
<1>4. shown[n] \in Seq(Messages)
  <2>1. shown[n] \in Seq(Events) /\ Events \subseteq Messages
    BY <1>3 DEF Messages
  <2> QED
    BY <2>1
<1>5. \/ shown'[n] = Append(shown[n], m)
      \/ shown'[n] = shown[n] /\ ~Belongs(m, n, Any)
  <2>1. CASE m.node = n
    <3> DEFINE l == Append(shown[n], m)
    <3>1. shown' = [shown EXCEPT ![n] = l]
      BY <1>1, <2>1
    <3> HIDE DEF l
    <3>2. shown'[n] = l
      BY <1>3, <3>1
    <3> QED
      BY <3>2 DEF l
  <2>2. CASE m.node # n
    <3>1. shown'[n] = shown[n]
      BY <1>1, <1>3, <2>2
    <3> QED
      BY <2>2, <3>1 DEF Belongs
  <2> QED
    BY <2>1, <2>2
<1>6. BrowsersOK(chan', hand', shown', made', n)
  <2>1. BrowsersOK(chan, hand, shown, made, n) /\ made'[n] = made[n] /\ hand' = hand
    BY <1>1 DEF EventsOK
  <2> QED
    BY <1>1, <1>2, <1>4, <1>5, <2>1, EndsBrowsers DEF m
<1>7. HashersOK(chan', hand', stored', made', n)
  <2>1. /\ {"measure", "to_db", "from_reader", "from_node"} \subseteq Channels \ {"to_api"}
        /\ n \in Tasks
    BY Names DEF Channels
  <2>2. \A c \in {"measure", "to_db", "from_reader", "from_node"} :
          SameEvents(chan[c], chan'[c], n, Measures)
    BY <1>2, <2>1, SameSame
  <2>3. \A t \in Tasks : \A c \in {"measure", "to_db", "from_reader", "from_node"} :
          SameEvents(SendingOf(hand[t], c), SendingOf(hand'[t], c), n, Measures)
    BY <1>1, SameSame
  <2> QED
    BY <1>1, <2>1, <2>2, <2>3, StillHashers DEF EventsOK
<1> QED
  BY <1>1, <1>6, <1>7 DEF EventsOK, Numbered

LEMMA PollEvents ==
  ASSUME BusOK, NEW k \in Nodes, NodePolls(k), NEW n \in Nodes,
         EventsOK(chan, hand, stored, shown, made, n)
  PROVE  EventsOK(chan', hand', stored', shown', made', n)
<1>1. PICK kind \in {"DeviceEvent", "NodeEvent"} :
        /\ hand' = [hand EXCEPT ![k] = <<[to |-> "from_node", msg |-> Event(kind, k)]>>]
        /\ made' = [made EXCEPT ![k] = Append(@, Event(kind, k))]
  BY DEF NodePolls
<1> DEFINE m == Event(kind, k)
           o == [to |-> "from_node", msg |-> m]
           md == Append(made[k], m)
           x == Len(made[k]) + 1
<1>2. /\ hand[k] = <<>> /\ Len(made[k]) < MaxEvents /\ UNCHANGED <<chan, stored, shown>>
  BY DEF NodePolls, Free
<1>3. /\ k \in Tasks /\ n \in Tasks /\ MaxEvents \in Nat /\ HandOK(hand)
      /\ made \in [Nodes -> Seq(Events)] /\ Events \subseteq Messages
      /\ {"db_master", "data_master", "node_master"} \subseteq Tasks \ {n}
  BY Names DEF BusOK, RestOK, Messages
<1>4. m \in Events /\ m.node = k /\ m.no = x
  <2>1. Len(made[k]) \in Nat
    BY <1>3
  <2>2. x \in 1 .. MaxEvents
    BY <1>2, <1>3, <2>1
  <2> QED
    BY <2>2 DEF Event, Events
<1>5. hand' = [hand EXCEPT ![k] = <<o>>] /\ made' = [made EXCEPT ![k] = md]
  BY <1>1
<1>6. o.to = "from_node" /\ o.msg = m
  OBVIOUS
<1>7. made[k] \in Seq(Messages)
  BY <1>3
<1>8. /\ DOMAIN made[k] = 1 .. x - 1 /\ x \in Nat \ {0} /\ DOMAIN md = 1 .. x
      /\ md[x] = m /\ \A i \in 1 .. x - 1 : md[i] = made[k][i]
  BY <1>7, Enqueue
<1> HIDE DEF o, m, x
<1>9. md = Append(made[k], m)
  OBVIOUS
<1> HIDE DEF md
<1>10. /\ hand'[k] = <<o>> /\ \A u \in Tasks \ {k} : hand'[u] = hand[u]
       /\ made'[k] = md /\ \A u \in Nodes \ {k} : made'[u] = made[u]
  BY <1>3, <1>5 DEF HandOK
<1>11. CASE k # n
  <2>1. \A t \in Tasks : HandStill(hand[t], hand'[t], n)
    BY <1>2, <1>3, <1>4, <1>6, <1>10, <1>11 DEF HandStill
  <2> QED
    BY <1>2, <1>10, <1>11, <2>1, Quiet
<1>12. CASE k = n
  <2>1. Numbered(made', n)
    <3>1. \A i \in DOMAIN made[n] : made[n][i].no = i /\ made[n][i].node = n
      BY DEF EventsOK, Numbered
    <3>2. \A i \in 1 .. x : i = x \/ i \in 1 .. x - 1
      BY <1>8
    <3> QED
      BY <1>4, <1>8, <1>10, <1>12, <3>1, <3>2 DEF Numbered
  <2>2. ASSUME NEW kinds
        PROVE  \A y \in EventsIn(made[n], n, kinds) : y.no < m.no
    <3> SUFFICES ASSUME NEW i \in DOMAIN made[n] PROVE made[n][i].no < m.no
      BY DEF EventsIn
    <3>1. made[n][i].no = i
      BY DEF EventsOK, Numbered
    <3>2. i \in 1 .. x - 1
      BY <1>8, <1>12
    <3> QED
      BY <1>4, <1>8, <3>1, <3>2
  <2>3. SendingOf(hand[n], "from_node") = <<>>
    BY <1>2, <1>12, SendingEmpty
  <2>4. SendingOf(hand'[n], "from_node") = <<m>>
    <3>1. SendingOf(<<o>>, "from_node") = <<m>>
      BY <1>6, SendingSingle
    <3> QED
      BY <1>10, <1>12, <3>1
  <2>5. made[n] \in Seq(Messages) /\ m \in Messages /\ made'[n] = Append(made[n], m)
    BY <1>3, <1>4, <1>7, <1>9, <1>10, <1>12
  <2>6. HashersOK(chan', hand', stored', made', n)
    <3> DEFINE old == HashersLine(chan, hand, stored[n], n)
               new == HashersLine(chan', hand', stored'[n], n)
    <3>1. /\ DOMAIN old = 1 .. 9 /\ old[1] = stored[n]
          /\ old[2] = chan["measure"] /\ old[3] = SendingOf(hand["db_master"], "measure")
          /\ old[4] = chan["to_db"] /\ old[5] = SendingOf(hand["data_master"], "to_db")
          /\ old[6] = chan["from_reader"] /\ old[7] = SendingOf(hand["node_master"], "from_reader")
          /\ old[8] = chan["from_node"] /\ old[9] = SendingOf(hand[n], "from_node")
      BY HashersStages
    <3>2. /\ DOMAIN new = 1 .. 9 /\ new[1] = stored'[n]
          /\ new[2] = chan'["measure"] /\ new[3] = SendingOf(hand'["db_master"], "measure")
          /\ new[4] = chan'["to_db"] /\ new[5] = SendingOf(hand'["data_master"], "to_db")
          /\ new[6] = chan'["from_reader"]
          /\ new[7] = SendingOf(hand'["node_master"], "from_reader")
          /\ new[8] = chan'["from_node"] /\ new[9] = SendingOf(hand'[n], "from_node")
      BY HashersStages
    <3>3. LineOK(old, made[n], n, Measures)
      BY DEF EventsOK, HashersOK
    <3> HIDE DEF old, new
    <3>4. /\ new[1] = old[1] /\ new[2] = old[2] /\ new[3] = old[3] /\ new[4] = old[4]
          /\ new[5] = old[5] /\ new[6] = old[6] /\ new[7] = old[7] /\ new[8] = old[8]
      BY <1>2, <1>3, <1>10, <1>12, <3>1, <3>2
    <3>5. \A q \in 1 .. 9 : q # 9 => new[q] = old[q]
      BY <3>4, Nine
    <3>6. 9 \in Nat \ {0} /\ old[9] = <<>> /\ new[9] = <<m>>
      BY <2>3, <2>4, <3>1, <3>2
    <3>7. LineOK(new, Append(made[n], m), n, Measures)
      BY <2>2, <2>5, <3>1, <3>2, <3>3, <3>5, <3>6, EnterLine
    <3> QED
      BY <2>5, <3>7 DEF HashersOK, new
  <2>7. BrowsersOK(chan', hand', shown', made', n)
    <3> DEFINE old == BrowsersLine(chan, hand, shown[n], n)
               new == BrowsersLine(chan', hand', shown'[n], n)
    <3>1. /\ DOMAIN old = 1 .. 7 /\ old[1] = shown[n]
          /\ old[2] = chan["to_api"] /\ old[3] = SendingOf(hand["data_master"], "to_api")
          /\ old[4] = chan["from_reader"] /\ old[5] = SendingOf(hand["node_master"], "from_reader")
          /\ old[6] = chan["from_node"] /\ old[7] = SendingOf(hand[n], "from_node")
      BY BrowsersStages
    <3>2. /\ DOMAIN new = 1 .. 7 /\ new[1] = shown'[n]
          /\ new[2] = chan'["to_api"] /\ new[3] = SendingOf(hand'["data_master"], "to_api")
          /\ new[4] = chan'["from_reader"]
          /\ new[5] = SendingOf(hand'["node_master"], "from_reader")
          /\ new[6] = chan'["from_node"] /\ new[7] = SendingOf(hand'[n], "from_node")
      BY BrowsersStages
    <3>3. LineOK(old, made[n], n, Any)
      BY DEF EventsOK, BrowsersOK
    <3> HIDE DEF old, new
    <3>4. /\ new[1] = old[1] /\ new[2] = old[2] /\ new[3] = old[3] /\ new[4] = old[4]
          /\ new[5] = old[5] /\ new[6] = old[6]
      BY <1>2, <1>3, <1>10, <1>12, <3>1, <3>2
    <3>5. \A q \in 1 .. 7 : q # 7 => new[q] = old[q]
      BY <3>4, Nine
    <3>6. 7 \in Nat \ {0} /\ old[7] = <<>> /\ new[7] = <<m>>
      BY <2>3, <2>4, <3>1, <3>2
    <3>7. LineOK(new, Append(made[n], m), n, Any)
      BY <2>2, <2>5, <3>1, <3>2, <3>3, <3>5, <3>6, EnterLine
    <3> QED
      BY <2>5, <3>7 DEF BrowsersOK, new
  <2> QED
    BY <2>1, <2>6, <2>7 DEF EventsOK
<1> QED
  BY <1>11, <1>12

LEMMA InitEvents == Init => EventsInOrder
<1> SUFFICES ASSUME Init, NEW n \in Nodes
             PROVE  EventsOK(chan, hand, stored, shown, made, n)
  BY EventsSplit DEF EventsOK
<1> DEFINE e == <<>>
           h == Lookup
<1>1. /\ chan = [c \in Channels |-> e]
      /\ hand = [t \in Tasks |-> IF t = "node_master" THEN h ELSE e]
      /\ made = [k \in Nodes |-> e] /\ stored = made /\ shown = made
  BY DEF Init
<1>2. DOMAIN e = {}
  OBVIOUS
<1>3. \A c : SendingOf(e, c) = e
  BY SendingEmpty
<1> DEFINE o == [to |-> "from_reader", msg |-> Request("node_master")]
           s == <<Request("node_master")>>
<1>4. /\ SendingOf(h, "from_reader") = s /\ DOMAIN s = {1} /\ s[1] = o.msg
      /\ o.msg \in Requests
  <2>1. h = <<o>> /\ o.msg \in Requests
    BY LookupIs
  <2>2. o.to = "from_reader" /\ <<o.msg>> = s
    OBVIOUS
  <2>3. SendingOf(<<o>>, "from_reader") = <<o.msg>>
    BY <2>2, SendingSingle
  <2> QED
    BY <2>1, <2>2, <2>3
<1> HIDE DEF e, h, s, o
<1>5. ASSUME NEW kinds, kinds \subseteq Any
      PROVE  /\ EventsIn(e, n, kinds) = {} /\ Sorted(e, n, kinds)
             /\ EventsIn(s, n, kinds) = {} /\ Sorted(s, n, kinds)
  <2>1. ~Belongs(s[1], n, kinds)
    BY <1>4, <1>5, Kinds DEF Belongs, Any
  <2> QED
    BY <1>2, <1>4, <2>1 DEF EventsIn, Sorted
<1>6. /\ {"measure", "to_db", "to_api", "from_reader", "from_node"} \subseteq Channels
      /\ {"db_master", "data_master", "node_master", n} \subseteq Tasks /\ n # "node_master"
  BY Names DEF Channels
<1>7. /\ \A c \in {"measure", "to_db", "to_api", "from_reader", "from_node"} : chan[c] = e
      /\ hand["db_master"] = e /\ hand["data_master"] = e /\ hand[n] = e /\ hand["node_master"] = h
      /\ made[n] = e /\ stored[n] = e /\ shown[n] = e
  BY <1>1, <1>6
<1>8. HashersOK(chan, hand, stored, made, n)
  <2> DEFINE l == HashersLine(chan, hand, stored[n], n)
  <2>1. /\ DOMAIN l = 1 .. 9 /\ l[1] = stored[n]
        /\ l[2] = chan["measure"] /\ l[3] = SendingOf(hand["db_master"], "measure")
        /\ l[4] = chan["to_db"] /\ l[5] = SendingOf(hand["data_master"], "to_db")
        /\ l[6] = chan["from_reader"] /\ l[7] = SendingOf(hand["node_master"], "from_reader")
        /\ l[8] = chan["from_node"] /\ l[9] = SendingOf(hand[n], "from_node")
    BY HashersStages
  <2> HIDE DEF l
  <2>2. \A p \in 1 .. 9 : l[p] = e \/ l[p] = s
    BY <1>3, <1>4, <1>7, <2>1, Nine
  <2>3. \A p \in 1 .. 9 : EventsIn(l[p], n, Measures) = {} /\ Sorted(l[p], n, Measures)
    BY <1>5, <2>2, Kindly
  <2>4. EventsIn(made[n], n, Measures) = {}
    BY <1>5, <1>7, Kindly
  <2>5. LineOK(l, made[n], n, Measures)
    BY <2>1, <2>3, <2>4 DEF LineOK
  <2> QED
    BY <2>5 DEF HashersOK, l
<1>9. BrowsersOK(chan, hand, shown, made, n)
  <2> DEFINE l == BrowsersLine(chan, hand, shown[n], n)
  <2>1. /\ DOMAIN l = 1 .. 7 /\ l[1] = shown[n]
        /\ l[2] = chan["to_api"] /\ l[3] = SendingOf(hand["data_master"], "to_api")
        /\ l[4] = chan["from_reader"] /\ l[5] = SendingOf(hand["node_master"], "from_reader")
        /\ l[6] = chan["from_node"] /\ l[7] = SendingOf(hand[n], "from_node")
    BY BrowsersStages
  <2> HIDE DEF l
  <2>2. \A p \in 1 .. 7 : l[p] = e \/ l[p] = s
    BY <1>3, <1>4, <1>7, <2>1, Nine
  <2>3. \A p \in 1 .. 7 : EventsIn(l[p], n, Any) = {} /\ Sorted(l[p], n, Any)
    BY <1>5, <2>2, Kindly
  <2>4. EventsIn(made[n], n, Any) = {}
    BY <1>5, <1>7, Kindly
  <2>5. LineOK(l, made[n], n, Any)
    BY <2>1, <2>3, <2>4 DEF LineOK
  <2> QED
    BY <2>5 DEF BrowsersOK, l
<1>10. Numbered(made, n)
  BY <1>2, <1>7 DEF Numbered
<1> QED
  BY <1>8, <1>9, <1>10 DEF EventsOK

LEMMA StepEvents == BusOK /\ EventsInOrder /\ [Next]_vars => EventsInOrder'
<1> SUFFICES ASSUME BusOK, EventsInOrder, [Next]_vars, NEW n \in Nodes
             PROVE  EventsOK(chan', hand', stored', shown', made', n)
  BY EventsNext DEF EventsOK
<1>1. EventsOK(chan, hand, stored, shown, made, n)
  BY EventsSplit DEF EventsOK
<1>2. ASSUME NEW t \in Tasks, Send(t)
      PROVE  EventsOK(chan', hand', stored', shown', made', n)
  BY <1>1, <1>2, SendEvents
<1>3. ASSUME NEW c \in Clients, ClientAsks(c) \/ ClientCommands(c)
      PROVE  EventsOK(chan', hand', stored', shown', made', n)
  BY <1>1, <1>3, ClientEvents
<1>4. ASSUME NEW c \in Clients, ClientAnswered(c)
      PROVE  EventsOK(chan', hand', stored', shown', made', n)
  <2>1. UNCHANGED <<chan, hand, made, stored, shown>>
    BY <1>4 DEF ClientAnswered, history
  <2> QED
    BY <1>1, <2>1, QuietStep
<1>5. ASSUME NEW c \in {"from_api", "from_reader", "from_db"}, Forward(c)
      PROVE  EventsOK(chan', hand', stored', shown', made', n)
  BY <1>1, <1>5, ForwardEvents
<1>6. CASE Dispatch
  BY <1>1, <1>6, DispatchEvents
<1>7. ASSUME NEW w \in workers,
             WorkerAnswers(w) \/ WorkerCommits(w) \/ WorkerTells(w) \/ WorkerTimesOut(w)
      PROVE  EventsOK(chan', hand', stored', shown', made', n)
  BY <1>1, <1>7, WorkEvents
<1>8. CASE MeasureMaster
  BY <1>1, <1>8, MeasureMasterEvents
<1>9. CASE Coordinator
  BY <1>1, <1>9, CoordinatorEvents
<1>10. ASSUME NEW k \in Nodes, NodePolls(k)
      PROVE  EventsOK(chan', hand', stored', shown', made', n)
  BY <1>1, <1>10, PollEvents
<1>11. ASSUME NEW k \in Nodes, NodeFetches(k) \/ NodeAnswered(k) \/ NodeHears(k)
      PROVE  EventsOK(chan', hand', stored', shown', made', n)
  BY <1>1, <1>11, NodeEvents
<1>12. CASE NodesRead
  <2>1. UNCHANGED <<chan, hand, made, stored, shown>>
    BY <1>12 DEF NodesRead, history
  <2> QED
    BY <1>1, <2>1, QuietStep
<1>13. CASE MasterConfigures \/ LookedUp
  BY <1>1, <1>13, MasterEvents
<1>14. CASE MasterForwards
  BY <1>1, <1>14, MasterForwardsEvents
<1>15. CASE UNCHANGED vars
  <2>1. UNCHANGED <<chan, hand, made, stored, shown>>
    BY <1>15 DEF vars
  <2> QED
    BY <1>1, <2>1, QuietStep
<1>16. CASE Next
  BY <1>2, <1>3, <1>4, <1>5, <1>6, <1>7, <1>8, <1>9, <1>10, <1>11, <1>12, <1>13, <1>14, <1>16
     DEF Next
<1> QED
  BY <1>15, <1>16

(***************************************************************************)
(* In every state the queues between a node and the hashers, and between a *)
(* node and the browsers, hold its events once each and in the order of    *)
(* the polls, whatever the capacity of the channels and however the tasks  *)
(* that forward them wait for room.                                        *)
(***************************************************************************)
THEOREM EventsInOrderHolds == Spec => []EventsInOrder
<1>1. Init => EventsInOrder
  BY InitEvents
<1>2. BusOK /\ EventsInOrder /\ [Next]_vars => EventsInOrder'
  BY StepEvents
<1>3. Spec => []BusOK
  BY BusInvariant, PTL
<1> QED
  BY <1>1, <1>2, <1>3, PTL DEF Spec
=============================================================================
