--------------------------- MODULE ConsoleProofs ---------------------------
(***************************************************************************)
(* What the dashboards show, proved for every number of threats, pages,    *)
(* requests, sockets and messages a socket takes.                          *)
(*                                                                         *)
(* CardsTellTruth speaks of a page that has read everything.  Its          *)
(* inductive form says what reading on would do to a page's card, of every *)
(* state: Truth relates the card, the messages of its threat in the        *)
(* page's socket, and the messages handlers have still to send.  It leaves *)
(* a threat alone while a message that was overtaken is still to be sent,  *)
(* for then a card can be wrong and its page not yet know that it missed   *)
(* the order.  A page that waits for a full load stands for two cards, the *)
(* one it shows and the one the load will bring.                           *)
(*                                                                         *)
(* Two facts carry it.  NewsIsTrue: of the messages of one threat still to *)
(* be sent, at most one was not overtaken, and it says what the table      *)
(* says.  Closed: a message that tells a verdict is about a threat that is *)
(* decided, whose row no batch writes any more, so its version is the      *)
(* table's wherever the message is.  Closed alone gives                    *)
(* ClosedCardsAreRight.                                                    *)
(***************************************************************************)
EXTENDS Console, FiniteSetTheorems, FunctionTheorems, SequenceTheorems, TLAPS

Written == [version : Nat \ {0}, status : {"open", "blocked", "dismissed"}]
Rows == Written \cup {NoCard}
Told == [type : {"threat", "feedback"}, id : Threats, card : Written, late : BOOLEAN]
Messages == Told \cup {PolicyUpdate}

Request == [kind : {"batch", "verdict", "policy"}, about : SUBSET Threats,
            status : {"open", "blocked", "dismissed", "none"},
            step : {"queued", "working", "done"},
            todo : Seq(Messages), waiting : SUBSET Nat]
Requests == Request \cup {Answered}

Loading == [table : [Threats -> Rows], crossed : SUBSET Threats]

Typed ==
    /\ table \in [Threats -> Rows]
    /\ requests \in Seq(Requests)
    /\ clients \subseteq Nat
    /\ feed \in Seq(Seq(Messages))
    /\ conn \in [Dashboards -> 0 .. Len(feed)]
    /\ cards \in [Dashboards -> [Threats -> Rows]]
    /\ load \in [Dashboards -> {NoLoad} \cup Loading]
    /\ muddled \in [Dashboards -> SUBSET Threats]

(* How far a handler is says what it may still do.                         *)
Orderly(x) ==
    /\ x.step # "done" => x.todo = <<>>
    /\ x.step \in {"queued", "working"} /\ x.kind = "verdict" => x.status \in {"blocked", "dismissed"}
    /\ x.step \in {"queued", "working"} /\ x.kind = "policy" => x.about = {}
Handling == \A r \in Ids : Orderly(requests[r])

(* A page's socket is registered and its own.                              *)
Lines ==
    \A d \in Dashboards : conn[d] # 0 =>
        /\ conn[d] \in clients
        /\ \A e \in Dashboards : conn[e] = conn[d] => e = d

Shape == Typed /\ Handling /\ Lines

-----------------------------------------------------------------------------
(* What is still to be sent, by request, and still to be read, by page.    *)
Todo == [r \in Nat |-> IF r \in Ids THEN requests[r].todo ELSE <<>>]
Line == [d \in Dashboards |-> IF conn[d] = 0 THEN <<>> ELSE feed[conn[d]]]

Tells(m, i) == About(m, {i})
Verdict(m) == m.type = "feedback"

(* Some message of threat i is still to be sent: an overtaken one; one that*)
(* was not; one that was not and tells a verdict.                          *)
Overtaken(T, i) == \E r \in Nat : \E k \in DOMAIN T[r] : Tells(T[r][k], i) /\ T[r][k].late
Fresh(T, i) == \E r \in Nat : \E k \in DOMAIN T[r] : Tells(T[r][k], i) /\ ~T[r][k].late
FreshVerdict(T, i) ==
    \E r \in Nat : \E k \in DOMAIN T[r] : Tells(T[r][k], i) /\ ~T[r][k].late /\ Verdict(T[r][k])

NewsIsTrueOf(T, tbl) ==
    \A i \in Threats, r \in Nat : \A k \in DOMAIN T[r] :
        Tells(T[r][k], i) /\ ~T[r][k].late =>
            /\ T[r][k].card = tbl[i]
            /\ \A q \in Nat : \A l \in DOMAIN T[q] :
                  Tells(T[q][l], i) /\ ~T[q][l].late => q = r /\ l = k
NewsIsTrue == NewsIsTrueOf(Todo, table)

Mailboxes(T) == T \in [Nat -> Seq(Messages)]

(* What a message says of a verdict is so.                                 *)
Backed(m, tbl) ==
    \A i \in Threats : Tells(m, i) =>
        /\ Decided(m.card) => Decided(tbl[i])
        /\ Verdict(m) => Decided(m.card) /\ m.card.version = tbl[i].version
AllBacked(s, tbl) == \A k \in DOMAIN s : Backed(s[k], tbl)
BackedCards(c, tbl) == \A i \in Threats : Decided(c[i]) => Decided(tbl[i])

Closed ==
    /\ \A r \in Nat : AllBacked(Todo[r], table)
    /\ \A d \in Dashboards : AllBacked(Line[d], table)
    /\ \A d \in Dashboards : BackedCards(cards[d], table)
    /\ \A d \in Dashboards : load[d] # NoLoad => BackedCards(load[d].table, table)

-----------------------------------------------------------------------------
(* In f, no message of i from n on was overtaken; none is between j and k. *)
InOrder(f, i, n) == \A l \in DOMAIN f : n <= l /\ Tells(f[l], i) => ~f[l].late
NoneBetween(f, i, j, k) == \A l \in DOMAIN f : j < l /\ l < k => ~Tells(f[l], i)

(* How a card agrees with a row while a message, or a verdict, is due.     *)
Agrees(card, row, fresh, verdict) ==
    /\ ~fresh => card = row
    /\ verdict => card.version = row.version

(* The messages of i in f: one before a verdict has the row's version, the *)
(* last one agrees with the row.                                           *)
EndsRight(f, i, row, fresh, verdict) ==
    /\ \A j, k \in DOMAIN f :
          /\ j < k
          /\ Tells(f[j], i) /\ Tells(f[k], i) /\ Verdict(f[k])
          /\ InOrder(f, i, j)
          /\ NoneBetween(f, i, j, k)
          => f[j].card.version = row.version
    /\ \A k \in DOMAIN f :
          /\ Tells(f[k], i) /\ ~f[k].late
          /\ NoneBetween(f, i, k, Len(f) + 1)
          => Agrees(f[k].card, row, fresh, verdict)

(* The same of the card the page has before it reads f.                    *)
StartsRight(f, i, row, fresh, verdict, card, muddle) ==
    ~muddle =>
        /\ \A k \in DOMAIN f :
              /\ Tells(f[k], i) /\ Verdict(f[k])
              /\ InOrder(f, i, 0)
              /\ NoneBetween(f, i, 0, k)
              => card.version = row.version
        /\ NoneBetween(f, i, 0, Len(f) + 1) => Agrees(card, row, fresh, verdict)

TruthOf(d, i) ==
    ~Overtaken(Todo, i) =>
        /\ EndsRight(Line[d], i, table[i], Fresh(Todo, i), FreshVerdict(Todo, i))
        /\ StartsRight(Line[d], i, table[i], Fresh(Todo, i), FreshVerdict(Todo, i),
                       cards[d][i], i \in muddled[d])
        /\ load[d] # NoLoad =>
              StartsRight(Line[d], i, table[i], Fresh(Todo, i), FreshVerdict(Todo, i),
                          load[d].table[i], i \in load[d].crossed)
Truth == \A d \in Dashboards, i \in Threats : TruthOf(d, i)

-----------------------------------------------------------------------------
LEMMA TellsWhat ==
    ASSUME NEW m \in Messages
    PROVE  /\ \A i : Tells(m, i) <=> m \in Told /\ m.id = i
           /\ \A S : About(m, S) <=> m \in Told /\ m.id \in S
           /\ \A i \in Threats : Tells(m, i) => m.card \in Written /\ m.late \in BOOLEAN
<1>1. m \in Told => m.type \in {"threat", "feedback"}
  BY DEF Told
<1>2. m \notin Told => m.type = "policy_update"
  BY DEF Messages, PolicyUpdate
<1>3. \A S : About(m, S) <=> m \in Told /\ m.id \in S
  BY <1>1, <1>2 DEF About
<1>4. \A i : Tells(m, i) <=> m \in Told /\ m.id = i
  BY <1>3 DEF Tells
<1>5. m \in Told => m.card \in Written /\ m.late \in BOOLEAN
  BY DEF Told
<1>6. QED
  BY <1>3, <1>4, <1>5

(* A message is added at the end of a line.                                *)
LEMMA AddedAtEnd ==
    ASSUME NEW f \in Seq(Messages), NEW m \in Messages
    PROVE  /\ Append(f, m) \in Seq(Messages)
           /\ Len(f) \in Nat /\ Len(Append(f, m)) = Len(f) + 1
           /\ DOMAIN f = 1 .. Len(f) /\ DOMAIN Append(f, m) = 1 .. Len(f) + 1
           /\ \A k \in DOMAIN f : Append(f, m)[k] = f[k]
           /\ Append(f, m)[Len(f) + 1] = m
OBVIOUS

LEMMA AddedOther ==
    ASSUME NEW f \in Seq(Messages), NEW m \in Messages, NEW i \in Threats, ~Tells(m, i),
           NEW row, NEW fresh, NEW verdict
    PROVE  /\ EndsRight(f, i, row, fresh, verdict) => EndsRight(Append(f, m), i, row, fresh, verdict)
           /\ \A card, muddle : StartsRight(f, i, row, fresh, verdict, card, muddle) =>
                  StartsRight(Append(f, m), i, row, fresh, verdict, card, muddle)
<1> DEFINE g == Append(f, m)
<1>1. /\ Len(f) \in Nat /\ Len(g) = Len(f) + 1
      /\ DOMAIN f = 1 .. Len(f) /\ DOMAIN g = 1 .. Len(f) + 1
      /\ \A k \in DOMAIN f : g[k] = f[k]
      /\ g[Len(f) + 1] = m
  BY AddedAtEnd
<1>2. \A k \in DOMAIN g : Tells(g[k], i) => k \in DOMAIN f /\ g[k] = f[k]
  BY <1>1
<1> HIDE DEF g
<1>3. \A n : InOrder(g, i, n) => InOrder(f, i, n)
  BY <1>1 DEF InOrder
<1>4. \A j, k : NoneBetween(g, i, j, k) => NoneBetween(f, i, j, k)
  BY <1>1 DEF NoneBetween
<1>5. \A k : NoneBetween(g, i, k, Len(g) + 1) => NoneBetween(f, i, k, Len(f) + 1)
  BY <1>1 DEF NoneBetween
<1>6. EndsRight(f, i, row, fresh, verdict) => EndsRight(g, i, row, fresh, verdict)
  BY <1>2, <1>3, <1>4, <1>5 DEF EndsRight
<1>7. ASSUME NEW card, NEW muddle, StartsRight(f, i, row, fresh, verdict, card, muddle)
      PROVE  StartsRight(g, i, row, fresh, verdict, card, muddle)
  BY <1>2, <1>3, <1>4, <1>5, <1>7 DEF StartsRight
<1>8. QED
  BY <1>6, <1>7 DEF g

(* An overtaken message at the end makes the page distrust its card.       *)
LEMMA AddedLate ==
    ASSUME NEW f \in Seq(Messages), NEW m \in Messages, NEW i \in Threats,
           Tells(m, i), m.late,
           NEW row, NEW fresh, NEW verdict
    PROVE  /\ EndsRight(Append(f, m), i, row, fresh, verdict)
           /\ \A card, muddle : StartsRight(Append(f, m), i, row, fresh, verdict, card, muddle)
<1> DEFINE g == Append(f, m)
           e == Len(f) + 1
<1>1. /\ Len(f) \in Nat /\ Len(g) = e
      /\ DOMAIN g = 1 .. e
      /\ g[e] = m
  BY AddedAtEnd
<1>2. e \in DOMAIN g /\ \A k \in DOMAIN g : k <= e /\ 0 < k /\ k < Len(g) + 1
  BY <1>1
<1> HIDE DEF g, e
<1>3. \A n \in DOMAIN g : ~InOrder(g, i, n)
  BY <1>1, <1>2 DEF InOrder
<1>4. ~InOrder(g, i, 0)
  BY <1>1, <1>2 DEF InOrder
<1>5. \A k \in DOMAIN g : ~g[k].late => ~NoneBetween(g, i, k, Len(g) + 1)
  <2> SUFFICES ASSUME NEW k \in DOMAIN g, ~g[k].late
               PROVE  k < e /\ e < Len(g) + 1
    BY <1>1, <1>2 DEF NoneBetween
  <2>1. k # e
    BY <1>1
  <2>2. k \in Nat /\ e \in Nat
    BY <1>1 DEF e
  <2>3. QED
    BY <1>2, <2>1, <2>2
<1>6. ~NoneBetween(g, i, 0, Len(g) + 1)
  BY <1>1, <1>2 DEF NoneBetween
<1>7. QED
  BY <1>3, <1>4, <1>5, <1>6 DEF EndsRight, StartsRight, g

(* News at the end: with it nothing of the threat is due any more.         *)
LEMMA AddedFresh ==
    ASSUME NEW f \in Seq(Messages), NEW m \in Messages, NEW i \in Threats,
           Tells(m, i), ~m.late,
           NEW row, m.card = row, NEW fresh, NEW verdict,
           Verdict(m) => verdict,
           EndsRight(f, i, row, fresh, verdict)
    PROVE  /\ EndsRight(Append(f, m), i, row, FALSE, FALSE)
           /\ \A card, muddle : StartsRight(f, i, row, fresh, verdict, card, muddle) =>
                  StartsRight(Append(f, m), i, row, FALSE, FALSE, card, muddle)
<1> DEFINE g == Append(f, m)
           e == Len(f) + 1
<1>1. /\ Len(f) \in Nat /\ Len(g) = e
      /\ DOMAIN f = 1 .. Len(f) /\ DOMAIN g = 1 .. e
      /\ \A k \in DOMAIN f : g[k] = f[k]
      /\ g[e] = m
  BY AddedAtEnd
<1>2. /\ e \in DOMAIN g /\ \A k \in DOMAIN g : k = e \/ k \in DOMAIN f
      /\ \A k \in DOMAIN f : k \in DOMAIN g /\ 0 < k /\ k < e
      /\ e < Len(g) + 1 /\ 0 < e
  BY <1>1
<1> HIDE DEF g, e
<1>3. \A n : InOrder(g, i, n) => InOrder(f, i, n)
  BY <1>1, <1>2 DEF InOrder
<1>4. \A j, k : NoneBetween(g, i, j, k) => NoneBetween(f, i, j, k)
  BY <1>1, <1>2 DEF NoneBetween
<1>5. \A k : NoneBetween(g, i, k, e) => NoneBetween(f, i, k, Len(f) + 1)
  BY <1>1, <1>2 DEF NoneBetween, e
<1>6. \A k \in DOMAIN g : NoneBetween(g, i, k, Len(g) + 1) => k = e
  BY <1>1, <1>2 DEF NoneBetween
<1>7. ~NoneBetween(g, i, 0, Len(g) + 1)
  BY <1>1, <1>2 DEF NoneBetween
<1>8. \A j, k \in DOMAIN g : j < k => j \in DOMAIN f /\ g[j] = f[j]
  <2>1. \A k \in DOMAIN g : k <= e /\ k \in Nat
    BY <1>1
  <2>2. e \in Nat
    BY <1>1 DEF e
  <2>3. QED
    BY <1>1, <1>2, <2>1, <2>2
<1>9. ASSUME NEW j \in DOMAIN g, NEW k \in DOMAIN g, j < k,
             Tells(g[j], i), Tells(g[k], i), Verdict(g[k]),
             InOrder(g, i, j), NoneBetween(g, i, j, k)
      PROVE  g[j].card.version = row.version
  <2>1. j \in DOMAIN f /\ g[j] = f[j]
    BY <1>8, <1>9
  <2>2. CASE k \in DOMAIN f
    BY <1>1, <1>3, <1>4, <1>9, <2>1, <2>2 DEF EndsRight
  <2>3. CASE k = e
    <3>1. verdict
      BY <1>1, <1>9, <2>3
    <3>2. ~f[j].late
      BY <1>9, <2>1, <1>1 DEF InOrder
    <3>3. NoneBetween(f, i, j, Len(f) + 1)
      BY <1>5, <1>9, <2>3
    <3>4. Agrees(f[j].card, row, fresh, verdict)
      BY <1>9, <2>1, <3>2, <3>3 DEF EndsRight
    <3>5. QED
      BY <2>1, <3>1, <3>4 DEF Agrees
  <2>4. QED
    BY <1>2, <2>2, <2>3
<1>10. EndsRight(g, i, row, FALSE, FALSE)
  BY <1>1, <1>6, <1>9 DEF EndsRight, Agrees
<1>11. ASSUME NEW card, NEW muddle, StartsRight(f, i, row, fresh, verdict, card, muddle), ~muddle,
              NEW k \in DOMAIN g, Tells(g[k], i), Verdict(g[k]),
              InOrder(g, i, 0), NoneBetween(g, i, 0, k)
       PROVE  card.version = row.version
  <2>1. CASE k \in DOMAIN f
    BY <1>1, <1>3, <1>4, <1>11, <2>1 DEF StartsRight
  <2>2. CASE k = e
    <3>1. verdict
      BY <1>1, <1>11, <2>2
    <3>2. NoneBetween(f, i, 0, Len(f) + 1)
      BY <1>5, <1>11, <2>2
    <3>3. Agrees(card, row, fresh, verdict)
      BY <1>11, <3>2 DEF StartsRight
    <3>4. QED
      BY <3>1, <3>3 DEF Agrees
  <2>3. QED
    BY <1>2, <2>1, <2>2
<1>12. ASSUME NEW card, NEW muddle, StartsRight(f, i, row, fresh, verdict, card, muddle)
       PROVE  StartsRight(g, i, row, FALSE, FALSE, card, muddle)
  BY <1>7, <1>11, <1>12 DEF StartsRight
<1>13. QED
  BY <1>10, <1>12 DEF g

(* The page reads the first message of its line.                           *)
LEMMA TakenFirst ==
    ASSUME NEW f \in Seq(Messages), f # <<>>
    PROVE  /\ Tail(f) \in Seq(Messages)
           /\ Head(f) = f[1] /\ Head(f) \in Messages
           /\ Len(f) \in Nat \ {0} /\ Len(Tail(f)) = Len(f) - 1
           /\ DOMAIN f = 1 .. Len(f) /\ DOMAIN Tail(f) = 1 .. Len(f) - 1
           /\ \A k \in DOMAIN Tail(f) : k \in Nat /\ k + 1 \in DOMAIN f /\ Tail(f)[k] = f[k + 1]
           /\ \A k \in DOMAIN f : k \in Nat /\ k >= 1
           /\ \A k \in DOMAIN f : k # 1 => k - 1 \in DOMAIN Tail(f) /\ f[k] = Tail(f)[k - 1]
<1>1. /\ Len(f) \in Nat \ {0} /\ DOMAIN f = 1 .. Len(f)
      /\ Head(f) = f[1] /\ Head(f) \in Messages
  OBVIOUS
<1>2. /\ Tail(f) \in Seq(Messages) /\ Len(Tail(f)) = Len(f) - 1
      /\ \A k \in 1 .. Len(Tail(f)) : Tail(f)[k] = f[k + 1]
  BY HeadTailProperties
<1>3. DOMAIN Tail(f) = 1 .. Len(f) - 1
  BY <1>2, LenProperties
<1>4. \A k \in 1 .. Len(f) - 1 : k \in Nat /\ k + 1 \in 1 .. Len(f) /\ Tail(f)[k] = f[k + 1]
  BY <1>1, <1>2
<1>5. \A k \in 1 .. Len(f) :
         k \in Nat /\ k >= 1 /\ (k # 1 => k - 1 \in 1 .. Len(f) - 1 /\ (k - 1) + 1 = k)
  BY <1>1
<1>6. \A k \in 1 .. Len(f) : k # 1 => f[k] = Tail(f)[k - 1]
  BY <1>4, <1>5
<1>7. QED
  BY <1>1, <1>2, <1>3, <1>4, <1>5, <1>6

(* How positions in the rest of the line correspond to those in the line.  *)
LEMMA Shifted ==
    ASSUME NEW f \in Seq(Messages), f # <<>>, NEW i
    PROVE  /\ \A n \in DOMAIN Tail(f) : InOrder(Tail(f), i, n) => InOrder(f, i, n + 1)
           /\ InOrder(Tail(f), i, 0) /\ (Tells(Head(f), i) => ~Head(f).late) => InOrder(f, i, 0)
           /\ InOrder(Tail(f), i, 0) /\ (Tells(Head(f), i) => ~Head(f).late) => InOrder(f, i, 1)
           /\ \A j \in DOMAIN Tail(f), k \in Nat :
                 NoneBetween(Tail(f), i, j, k) => NoneBetween(f, i, j + 1, k + 1)
           /\ \A k \in Nat : NoneBetween(Tail(f), i, 0, k) => NoneBetween(f, i, 1, k + 1)
           /\ \A k \in Nat : NoneBetween(Tail(f), i, 0, k) /\ ~Tells(Head(f), i)
                  => NoneBetween(f, i, 0, k + 1)
<1> DEFINE g == Tail(f)
<1>1. /\ Head(f) = f[1]
      /\ \A k \in DOMAIN f : k \in Nat /\ k >= 1
      /\ \A k \in DOMAIN f : k # 1 => k - 1 \in DOMAIN g /\ f[k] = g[k - 1]
      /\ \A k \in DOMAIN g : k \in Nat
  BY TakenFirst
<1> HIDE DEF g
<1>2. ASSUME NEW n \in DOMAIN g, InOrder(g, i, n)
      PROVE  InOrder(f, i, n + 1)
  <2> SUFFICES ASSUME NEW l \in DOMAIN f, n + 1 <= l, Tells(f[l], i)
               PROVE  ~f[l].late
    BY DEF InOrder
  <2>1. n \in Nat /\ l \in Nat /\ l # 1 => l - 1 \in DOMAIN g /\ f[l] = g[l - 1]
    BY <1>1
  <2>2. n \in Nat /\ l \in Nat /\ n >= 0 /\ n # 0
    <3>1. n \in DOMAIN Tail(f)
      BY DEF g
    <3>2. \A k \in DOMAIN Tail(f) : k >= 1 /\ k \in Nat
      BY TakenFirst
    <3>3. QED
      BY <1>1, <3>1, <3>2
  <2>3. l # 1 /\ n <= l - 1
    BY <2>2
  <2>4. QED
    BY <1>1, <1>2, <2>3 DEF InOrder
<1>3. ASSUME InOrder(g, i, 0), Tells(Head(f), i) => ~Head(f).late
      PROVE  InOrder(f, i, 0) /\ InOrder(f, i, 1)
  <2> SUFFICES ASSUME NEW l \in DOMAIN f, Tells(f[l], i)
               PROVE  ~f[l].late
    BY DEF InOrder
  <2>1. CASE l = 1
    BY <1>1, <1>3, <2>1
  <2>2. CASE l # 1
    <3>1. l - 1 \in DOMAIN g /\ f[l] = g[l - 1] /\ 0 <= l - 1
      BY <1>1, <2>2
    <3>2. QED
      BY <1>3, <3>1 DEF InOrder
  <2>3. QED
    BY <2>1, <2>2
<1>4. ASSUME NEW j \in Nat, NEW k \in Nat, NoneBetween(g, i, j, k)
      PROVE  NoneBetween(f, i, j + 1, k + 1)
  <2> SUFFICES ASSUME NEW l \in DOMAIN f, j + 1 < l, l < k + 1
               PROVE  ~Tells(f[l], i)
    BY DEF NoneBetween
  <2>1. l \in Nat /\ l # 1
    BY <1>1
  <2>2. l - 1 \in DOMAIN g /\ f[l] = g[l - 1] /\ j < l - 1 /\ l - 1 < k
    BY <1>1, <2>1
  <2>3. QED
    BY <1>4, <2>2 DEF NoneBetween
<1>5. ASSUME NEW k \in Nat, NoneBetween(g, i, 0, k)
      PROVE  /\ NoneBetween(f, i, 1, k + 1)
             /\ ~Tells(Head(f), i) => NoneBetween(f, i, 0, k + 1)
  <2>1. ASSUME NEW l \in DOMAIN f, l # 1, l < k + 1
        PROVE  ~Tells(f[l], i)
    <3>1. l - 1 \in DOMAIN g /\ f[l] = g[l - 1] /\ 0 < l - 1 /\ l - 1 < k
      BY <1>1, <2>1
    <3>2. QED
      BY <1>5, <3>1 DEF NoneBetween
  <2>2. NoneBetween(f, i, 1, k + 1)
    BY <2>1 DEF NoneBetween
  <2>3. ASSUME ~Tells(Head(f), i)
        PROVE  NoneBetween(f, i, 0, k + 1)
    BY <1>1, <2>1, <2>3 DEF NoneBetween
  <2>4. QED
    BY <2>2, <2>3
<1>6. \A j \in DOMAIN g, k \in Nat : NoneBetween(g, i, j, k) => NoneBetween(f, i, j + 1, k + 1)
  BY <1>1, <1>4
<1>7. QED
  BY <1>2, <1>3, <1>5, <1>6 DEF g

LEMMA RestEndsRight ==
    ASSUME NEW f \in Seq(Messages), f # <<>>, NEW i, NEW row, NEW fresh, NEW verdict,
           EndsRight(f, i, row, fresh, verdict)
    PROVE  EndsRight(Tail(f), i, row, fresh, verdict)
<1> DEFINE g == Tail(f)
<1>1. /\ Len(f) \in Nat \ {0} /\ Len(g) = Len(f) - 1
      /\ \A k \in DOMAIN g : k \in Nat /\ k + 1 \in DOMAIN f /\ g[k] = f[k + 1]
  BY TakenFirst
<1>2. /\ \A n \in DOMAIN g : InOrder(g, i, n) => InOrder(f, i, n + 1)
      /\ \A j \in DOMAIN g, k \in Nat :
            NoneBetween(g, i, j, k) => NoneBetween(f, i, j + 1, k + 1)
  BY Shifted
<1> HIDE DEF g
<1>3. ASSUME NEW j \in DOMAIN g, NEW k \in DOMAIN g, j < k,
             Tells(g[j], i), Tells(g[k], i), Verdict(g[k]),
             InOrder(g, i, j), NoneBetween(g, i, j, k)
      PROVE  g[j].card.version = row.version
  <2>1. j + 1 < k + 1
    BY <1>1, <1>3
  <2>2. InOrder(f, i, j + 1) /\ NoneBetween(f, i, j + 1, k + 1)
    BY <1>1, <1>2, <1>3
  <2>3. QED
    BY <1>1, <1>3, <2>1, <2>2 DEF EndsRight
<1>4. ASSUME NEW k \in DOMAIN g, Tells(g[k], i), ~g[k].late, NoneBetween(g, i, k, Len(g) + 1)
      PROVE  Agrees(g[k].card, row, fresh, verdict)
  <2>1. Len(g) + 1 \in Nat /\ (Len(g) + 1) + 1 = Len(f) + 1
    BY <1>1
  <2>2. NoneBetween(f, i, k + 1, Len(f) + 1)
    BY <1>2, <1>4, <2>1
  <2>3. QED
    BY <1>1, <1>4, <2>2 DEF EndsRight
<1>5. QED
  BY <1>3, <1>4 DEF EndsRight, g

(* The message read is not about the threat ...                            *)
LEMMA RestStartsRight ==
    ASSUME NEW f \in Seq(Messages), f # <<>>, NEW i, ~Tells(Head(f), i),
           NEW row, NEW fresh, NEW verdict, NEW card, NEW muddle,
           StartsRight(f, i, row, fresh, verdict, card, muddle)
    PROVE  StartsRight(Tail(f), i, row, fresh, verdict, card, muddle)
<1> DEFINE g == Tail(f)
<1>1. /\ Len(f) \in Nat \ {0} /\ Len(g) = Len(f) - 1
      /\ \A k \in DOMAIN g : k \in Nat /\ k + 1 \in DOMAIN f /\ g[k] = f[k + 1]
  BY TakenFirst
<1>2. /\ InOrder(g, i, 0) => InOrder(f, i, 0)
      /\ \A k \in Nat : NoneBetween(g, i, 0, k) => NoneBetween(f, i, 0, k + 1)
  BY Shifted
<1> HIDE DEF g
<1>3. ASSUME ~muddle, NEW k \in DOMAIN g, Tells(g[k], i), Verdict(g[k]),
             InOrder(g, i, 0), NoneBetween(g, i, 0, k)
      PROVE  card.version = row.version
  BY <1>1, <1>2, <1>3 DEF StartsRight
<1>4. ASSUME ~muddle, NoneBetween(g, i, 0, Len(g) + 1)
      PROVE  Agrees(card, row, fresh, verdict)
  <2>1. Len(g) + 1 \in Nat /\ (Len(g) + 1) + 1 = Len(f) + 1
    BY <1>1
  <2>2. NoneBetween(f, i, 0, Len(f) + 1)
    BY <1>2, <1>4, <2>1
  <2>3. QED
    BY <1>4, <2>2 DEF StartsRight
<1>5. QED
  BY <1>3, <1>4 DEF StartsRight, g

(* ... or it is, and the page shows it.                                    *)
LEMMA ShownStartsRight ==
    ASSUME NEW f \in Seq(Messages), f # <<>>, NEW i \in Threats, Tells(Head(f), i),
           ~Head(f).late,
           NEW row, NEW fresh, NEW verdict, NEW card \in Rows, NEW muddle,
           Verdict(Head(f)) => ~muddle /\ Head(f).card.version = row.version,
           EndsRight(f, i, row, fresh, verdict),
           StartsRight(f, i, row, fresh, verdict, card, muddle)
    PROVE  StartsRight(Tail(f), i, row, fresh, verdict, Shown(card, Head(f)), FALSE)
<1> DEFINE g == Tail(f)
           m == Head(f)
           c == Shown(card, m)
<1>1. /\ Len(f) \in Nat \ {0} /\ Len(g) = Len(f) - 1
      /\ \A k \in DOMAIN g : k \in Nat /\ k + 1 \in DOMAIN f /\ g[k] = f[k + 1]
      /\ m = f[1] /\ m \in Messages
      /\ DOMAIN f = 1 .. Len(f)
  BY TakenFirst
<1>2. /\ InOrder(g, i, 0) => InOrder(f, i, 0)
      /\ InOrder(g, i, 0) => InOrder(f, i, 1)
      /\ \A k \in Nat : NoneBetween(g, i, 0, k) => NoneBetween(f, i, 1, k + 1)
  BY Shifted
<1>3. m \in Told /\ m.card \in Written /\ 1 \in DOMAIN f
  BY <1>1, TellsWhat
<1>4. NoneBetween(f, i, 0, 1)
  <2>1. \A l \in DOMAIN f : ~(0 < l /\ l < 1)
    BY <1>1
  <2>2. QED
    BY <2>1 DEF NoneBetween
<1> HIDE DEF g, m
<1>5. ASSUME InOrder(f, i, 0)
      PROVE  c = m.card
  <2>1. CASE Verdict(m)
    <3>1. card.version = row.version /\ m.card.version = row.version
      BY <1>1, <1>3, <1>4, <1>5, <2>1 DEF StartsRight, m
    <3>2. card \in Written
      BY <1>3, <3>1 DEF Rows, NoCard, Written
    <3>3. c = [card EXCEPT !.status = m.card.status]
      BY <2>1, <3>2 DEF Shown, Verdict, Written, NoCard
    <3>4. c = m.card
      BY <1>3, <3>1, <3>2, <3>3 DEF Written
    <3>5. QED
      BY <3>4
  <2>2. CASE ~Verdict(m)
    <3>1. m.type = "threat"
      BY <1>3, <2>2 DEF Told, Verdict
    <3>2. QED
      BY <3>1 DEF Shown, Replaced
  <2>3. QED
    BY <2>1, <2>2
<1>6. ASSUME NEW k \in DOMAIN g, Tells(g[k], i), Verdict(g[k]),
             InOrder(g, i, 0), NoneBetween(g, i, 0, k)
      PROVE  c.version = row.version
  <2>1. InOrder(f, i, 0) /\ InOrder(f, i, 1) /\ NoneBetween(f, i, 1, k + 1)
    BY <1>1, <1>2, <1>6
  <2>2. k + 1 \in DOMAIN f /\ 1 < k + 1 /\ f[k + 1] = g[k]
    <3>1. k + 1 \in DOMAIN f /\ f[k + 1] = g[k] /\ k \in Nat
      BY <1>1, <1>6
    <3>2. k # 0
      BY TakenFirst, <1>6 DEF g
    <3>3. QED
      BY <3>1, <3>2
  <2>3. f[1].card.version = row.version
    BY <1>1, <1>3, <1>6, <2>1, <2>2 DEF EndsRight, m
  <2>4. QED
    BY <1>1, <1>5, <2>1, <2>3
<1>7. ASSUME NoneBetween(g, i, 0, Len(g) + 1)
      PROVE  Agrees(c, row, fresh, verdict)
  <2>1. Len(g) + 1 \in Nat /\ (Len(g) + 1) + 1 = Len(f) + 1
    BY <1>1
  <2>2. NoneBetween(f, i, 1, Len(f) + 1)
    BY <1>2, <1>7, <2>1
  <2>3. Agrees(m.card, row, fresh, verdict)
    BY <1>1, <1>3, <2>2 DEF EndsRight, m
  <2>4. InOrder(f, i, 0)
    <3> SUFFICES ASSUME NEW l \in DOMAIN f, Tells(f[l], i)
                 PROVE  ~f[l].late
      BY DEF InOrder
    <3>1. l \in Nat /\ l >= 1 /\ l < Len(f) + 1
      BY <1>1
    <3>2. l = 1
      BY <2>2, <3>1 DEF NoneBetween
    <3>3. QED
      BY <1>1, <3>2 DEF m
  <2>5. QED
    BY <1>5, <2>3, <2>4
<1>8. QED
  BY <1>6, <1>7 DEF StartsRight, g, m

(* Nothing is on the way.                                                  *)
LEMMA NothingQueued ==
    ASSUME NEW i, NEW row, NEW fresh, NEW verdict
    PROVE  /\ EndsRight(<<>>, i, row, fresh, verdict)
           /\ \A card, muddle : StartsRight(<<>>, i, row, fresh, verdict, card, muddle)
                  <=> (~muddle => Agrees(card, row, fresh, verdict))
BY DEF EndsRight, StartsRight, NoneBetween

(* What is lost with a line is on record as missed.                        *)
LEMMA LineCut ==
    ASSUME NEW f \in Seq(Messages), NEW i, NEW row, NEW fresh, NEW verdict, NEW card, NEW muddle,
           NEW after,
           ~after => ~muddle /\ \A k \in DOMAIN f : ~Tells(f[k], i),
           StartsRight(f, i, row, fresh, verdict, card, muddle)
    PROVE  StartsRight(<<>>, i, row, fresh, verdict, card, after)
BY NothingQueued DEF StartsRight, NoneBetween

-----------------------------------------------------------------------------
(* A handler sends its next message: the other ones stay to be sent.       *)
LEMMA SentFirst ==
    ASSUME NEW T \in [Nat -> Seq(Messages)], NEW r \in Nat, T[r] # <<>>,
           NEW i \in Threats
    PROVE  LET m == Head(T[r])
               U == [T EXCEPT ![r] = Tail(T[r])]
           IN /\ Overtaken(U, i) => Overtaken(T, i)
              /\ Fresh(U, i) => Fresh(T, i)
              /\ FreshVerdict(U, i) => FreshVerdict(T, i)
              /\ Overtaken(T, i) => Overtaken(U, i) \/ (Tells(m, i) /\ m.late)
              /\ Fresh(T, i) => Fresh(U, i) \/ (Tells(m, i) /\ ~m.late)
              /\ FreshVerdict(T, i) => FreshVerdict(U, i) \/ (Tells(m, i) /\ ~m.late)
              /\ Tells(m, i) /\ ~m.late /\ Verdict(m) => FreshVerdict(T, i)
<1> DEFINE m == Head(T[r])
           U == [T EXCEPT ![r] = Tail(T[r])]
<1>0. T[r] \in Seq(Messages)
  OBVIOUS
<1>1. /\ m = T[r][1] /\ 1 \in DOMAIN T[r]
      /\ \A k \in DOMAIN U[r] : k + 1 \in DOMAIN T[r] /\ U[r][k] = T[r][k + 1]
      /\ \A k \in DOMAIN T[r] : k # 1 => k - 1 \in DOMAIN U[r] /\ T[r][k] = U[r][k - 1]
  <2>1. U[r] = Tail(T[r])
    OBVIOUS
  <2>2. 1 \in 1 .. Len(T[r])
    BY <1>0, TakenFirst
  <2>3. QED
    BY <1>0, <2>1, <2>2, TakenFirst
<1>2. \A q \in Nat : q # r => U[q] = T[q]
  OBVIOUS
<1> HIDE DEF m, U
<1>3. ASSUME NEW q \in Nat, NEW k \in DOMAIN U[q]
      PROVE  \E l \in DOMAIN T[q] : U[q][k] = T[q][l]
  <2>1. CASE q = r
    BY <1>1, <1>3, <2>1
  <2>2. CASE q # r
    BY <1>2, <1>3, <2>2
  <2>3. QED
    BY <2>1, <2>2
<1>4. ASSUME NEW q \in Nat, NEW l \in DOMAIN T[q]
      PROVE  T[q][l] = m \/ \E k \in DOMAIN U[q] : U[q][k] = T[q][l]
  <2>1. CASE q = r
    BY <1>1, <1>4, <2>1
  <2>2. CASE q # r
    BY <1>2, <1>4, <2>2
  <2>3. QED
    BY <2>1, <2>2
<1>5. /\ Overtaken(U, i) => Overtaken(T, i)
      /\ Fresh(U, i) => Fresh(T, i)
      /\ FreshVerdict(U, i) => FreshVerdict(T, i)
  <2>1. ASSUME Overtaken(U, i)
        PROVE  Overtaken(T, i)
    <3>1. PICK q \in Nat : \E k \in DOMAIN U[q] : Tells(U[q][k], i) /\ U[q][k].late
      BY <2>1 DEF Overtaken
    <3>2. PICK k \in DOMAIN U[q] : Tells(U[q][k], i) /\ U[q][k].late
      BY <3>1
    <3>3. PICK l \in DOMAIN T[q] : U[q][k] = T[q][l]
      BY <1>3
    <3>4. Tells(T[q][l], i) /\ T[q][l].late
      BY <3>2, <3>3
    <3>5. QED
      BY <3>4 DEF Overtaken
  <2>2. Fresh(U, i) => Fresh(T, i)
    BY <1>3 DEF Fresh
  <2>3. FreshVerdict(U, i) => FreshVerdict(T, i)
    BY <1>3 DEF FreshVerdict
  <2>4. QED
    BY <2>1, <2>2, <2>3
<1>6. Overtaken(T, i) => Overtaken(U, i) \/ (Tells(m, i) /\ m.late)
  <2> SUFFICES ASSUME Overtaken(T, i), ~(Tells(m, i) /\ m.late)
               PROVE  Overtaken(U, i)
    OBVIOUS
  <2>1. PICK q \in Nat : \E l \in DOMAIN T[q] : Tells(T[q][l], i) /\ T[q][l].late
    BY DEF Overtaken
  <2>2. PICK l \in DOMAIN T[q] : Tells(T[q][l], i) /\ T[q][l].late
    BY <2>1
  <2>3. PICK k \in DOMAIN U[q] : U[q][k] = T[q][l]
    BY <1>4, <2>2
  <2>4. Tells(U[q][k], i) /\ U[q][k].late
    BY <2>2, <2>3
  <2>5. QED
    BY <2>4 DEF Overtaken
<1>7. Fresh(T, i) => Fresh(U, i) \/ (Tells(m, i) /\ ~m.late)
  <2> SUFFICES ASSUME Fresh(T, i), ~(Tells(m, i) /\ ~m.late)
               PROVE  Fresh(U, i)
    OBVIOUS
  <2>1. PICK q \in Nat : \E l \in DOMAIN T[q] : Tells(T[q][l], i) /\ ~T[q][l].late
    BY DEF Fresh
  <2>2. PICK l \in DOMAIN T[q] : Tells(T[q][l], i) /\ ~T[q][l].late
    BY <2>1
  <2>3. PICK k \in DOMAIN U[q] : U[q][k] = T[q][l]
    BY <1>4, <2>2
  <2>4. Tells(U[q][k], i) /\ ~U[q][k].late
    BY <2>2, <2>3
  <2>5. QED
    BY <2>4 DEF Fresh
<1>8. FreshVerdict(T, i) => FreshVerdict(U, i) \/ (Tells(m, i) /\ ~m.late)
  <2> SUFFICES ASSUME FreshVerdict(T, i), ~(Tells(m, i) /\ ~m.late)
               PROVE  FreshVerdict(U, i)
    OBVIOUS
  <2>1. PICK q \in Nat : \E l \in DOMAIN T[q] : Tells(T[q][l], i) /\ ~T[q][l].late /\ Verdict(T[q][l])
    BY DEF FreshVerdict
  <2>2. PICK l \in DOMAIN T[q] : Tells(T[q][l], i) /\ ~T[q][l].late /\ Verdict(T[q][l])
    BY <2>1
  <2>3. PICK k \in DOMAIN U[q] : U[q][k] = T[q][l]
    BY <1>4, <2>2
  <2>4. Tells(U[q][k], i) /\ ~U[q][k].late /\ Verdict(U[q][k])
    BY <2>2, <2>3
  <2>5. QED
    BY <2>4 DEF FreshVerdict
<1>9. Tells(m, i) /\ ~m.late /\ Verdict(m) => FreshVerdict(T, i)
  BY <1>1 DEF FreshVerdict
<1>10. QED
  BY <1>5, <1>6, <1>7, <1>8, <1>9 DEF m, U

LEMMA NewsUsed ==
    ASSUME NEW T, NEW tbl, NEW i \in Threats, NEW r \in Nat, NEW k \in DOMAIN T[r],
           NewsIsTrueOf(T, tbl), Tells(T[r][k], i), ~T[r][k].late
    PROVE  /\ T[r][k].card = tbl[i]
           /\ \A q \in Nat : \A l \in DOMAIN T[q] :
                  Tells(T[q][l], i) /\ ~T[q][l].late => q = r /\ l = k
BY DEF NewsIsTrueOf

(* What it sends is the truth if it was not overtaken, and the last of it. *)
LEMMA SentTruth ==
    ASSUME NEW T \in [Nat -> Seq(Messages)], NEW r \in Nat, T[r] # <<>>,
           NEW tbl, NewsIsTrueOf(T, tbl)
    PROVE  LET m == Head(T[r])
               U == [T EXCEPT ![r] = Tail(T[r])]
           IN /\ NewsIsTrueOf(U, tbl)
              /\ \A i \in Threats : Tells(m, i) /\ ~m.late =>
                    m.card = tbl[i] /\ ~Fresh(U, i) /\ ~FreshVerdict(U, i)
<1> DEFINE m == Head(T[r])
           U == [T EXCEPT ![r] = Tail(T[r])]
           place(q, k) == IF q = r THEN k + 1 ELSE k
<1>0. T[r] \in Seq(Messages)
  OBVIOUS
<1>1. /\ m = T[r][1] /\ 1 \in DOMAIN T[r]
      /\ \A k \in DOMAIN U[r] : k \in Nat /\ k # 0 /\ k + 1 \in DOMAIN T[r] /\ U[r][k] = T[r][k + 1]
  <2>1. U[r] = Tail(T[r])
    OBVIOUS
  <2>2. 1 \in 1 .. Len(T[r])
    BY <1>0, TakenFirst
  <2>3. \A k \in DOMAIN Tail(T[r]) : k # 0
    BY <1>0, TakenFirst
  <2>4. QED
    BY <1>0, <2>1, <2>2, <2>3, TakenFirst
<1>2. \A q \in Nat : q # r => U[q] = T[q]
  OBVIOUS
<1> HIDE DEF m, U
<1>3. ASSUME NEW q \in Nat, NEW k \in DOMAIN U[q]
      PROVE  /\ place(q, k) \in DOMAIN T[q] /\ U[q][k] = T[q][place(q, k)]
             /\ q = r => place(q, k) # 1
  <2>1. CASE q = r
    BY <1>1, <1>3, <2>1
  <2>2. CASE q # r
    BY <1>2, <1>3, <2>2
  <2>3. QED
    BY <2>1, <2>2
<1>4. \A q, p \in Nat : \A k \in DOMAIN U[q], l \in DOMAIN U[p] :
         q = p /\ place(q, k) = place(p, l) => k = l
  <2> SUFFICES ASSUME NEW q \in Nat, NEW k \in DOMAIN U[q], NEW l \in DOMAIN U[q],
                      place(q, k) = place(q, l)
               PROVE  k = l
    OBVIOUS
  <2>1. CASE q = r
    <3>1. k \in Nat /\ l \in Nat /\ k + 1 = l + 1
      BY <1>1, <2>1
    <3>2. QED
      BY <3>1
  <2>2. CASE q # r
    BY <2>2
  <2>3. QED
    BY <2>1, <2>2
<1> HIDE DEF place
<1>5. ASSUME NEW i \in Threats, NEW q \in Nat, NEW k \in DOMAIN U[q],
             Tells(U[q][k], i), ~U[q][k].late
      PROVE  /\ U[q][k].card = tbl[i]
             /\ \A p \in Nat : \A l \in DOMAIN U[p] :
                   Tells(U[p][l], i) /\ ~U[p][l].late => p = q /\ l = k
  <2> DEFINE a == place(q, k)
  <2>a. a \in DOMAIN T[q] /\ U[q][k] = T[q][a]
    BY <1>3
  <2>b. Tells(T[q][a], i) /\ ~T[q][a].late
    BY <1>5, <2>a
  <2> HIDE DEF a
  <2>c. T[q][a].card = tbl[i]
    BY <2>a, <2>b DEF NewsIsTrueOf
  <2>1. U[q][k].card = tbl[i]
    BY <2>a, <2>c
  <2>2. ASSUME NEW p \in Nat, NEW l \in DOMAIN U[p], Tells(U[p][l], i), ~U[p][l].late
        PROVE  p = q /\ l = k
    <3> DEFINE b == place(p, l)
    <3>b. b \in DOMAIN T[p] /\ Tells(T[p][b], i) /\ ~T[p][b].late
      BY <1>3, <2>2
    <3> HIDE DEF b
    <3>c. p = q /\ b = a
      BY <2>a, <2>b, <3>b DEF NewsIsTrueOf
    <3>1. p = q /\ place(p, l) = place(q, k)
      BY <3>c DEF a, b
    <3>2. QED
      BY <1>4, <3>1
  <2>3. QED
    BY <2>1, <2>2
<1>6. NewsIsTrueOf(U, tbl)
  <2> DEFINE TrueAndOnly(i, q, k) ==
                /\ U[q][k].card = tbl[i]
                /\ \A p \in Nat : \A l \in DOMAIN U[p] :
                      Tells(U[p][l], i) /\ ~U[p][l].late => p = q /\ l = k
  <2>1. ASSUME NEW i \in Threats, NEW q \in Nat, NEW k \in DOMAIN U[q],
               Tells(U[q][k], i), ~U[q][k].late
        PROVE  TrueAndOnly(i, q, k)
    BY <1>5, <2>1
  <2> HIDE DEF TrueAndOnly
  <2>2. \A i \in Threats, q \in Nat : \A k \in DOMAIN U[q] :
           Tells(U[q][k], i) /\ ~U[q][k].late => TrueAndOnly(i, q, k)
    BY <2>1
  <2>3. QED
    BY <2>2 DEF NewsIsTrueOf, TrueAndOnly
<1>7. ASSUME NEW i \in Threats, Tells(m, i), ~m.late
      PROVE  m.card = tbl[i] /\ ~Fresh(U, i) /\ ~FreshVerdict(U, i)
  <2>1. m.card = tbl[i]
    BY <1>1, <1>7 DEF NewsIsTrueOf
  <2>2. ASSUME NEW q \in Nat, NEW k \in DOMAIN U[q], Tells(U[q][k], i), ~U[q][k].late
        PROVE  FALSE
    <3> DEFINE b == place(q, k)
    <3>a. b \in DOMAIN T[q] /\ Tells(T[q][b], i) /\ ~T[q][b].late
      BY <1>3, <2>2
    <3> HIDE DEF b
    <3>b. 1 \in DOMAIN T[r] /\ Tells(T[r][1], i) /\ ~T[r][1].late
      BY <1>1, <1>7
    <3>c. q = r /\ b = 1
      BY <3>a, <3>b DEF NewsIsTrueOf
    <3>1. q = r /\ place(q, k) = 1
      BY <3>c DEF b
    <3>2. QED
      BY <1>3, <2>2, <3>1
  <2>3. QED
    BY <2>1, <2>2 DEF Fresh, FreshVerdict
<1>8. QED
  BY <1>6, <1>7 DEF m, U

-----------------------------------------------------------------------------
(* What a commit does to the messages still to be sent.                    *)
Marked(s, ids) == [k \in DOMAIN s |-> IF About(s[k], ids) THEN [s[k] EXCEPT !.late = TRUE] ELSE s[k]]

LEMMA MarkedMessages ==
    ASSUME NEW s \in Seq(Messages), NEW ids \in SUBSET Threats, NEW t, t = Marked(s, ids)
    PROVE  /\ t \in Seq(Messages)
           /\ DOMAIN t = DOMAIN s
           /\ s = <<>> => t = <<>>
           /\ \A k \in DOMAIN s :
                 /\ \A i \in Threats : Tells(t[k], i) <=> Tells(s[k], i)
                 /\ Verdict(t[k]) <=> Verdict(s[k])
                 /\ \A i \in Threats : Tells(s[k], i) =>
                       /\ t[k].card = s[k].card
                       /\ i \in ids => t[k].late
                       /\ i \notin ids => t[k].late = s[k].late
<1>1. DOMAIN t = DOMAIN s /\ DOMAIN s = 1 .. Len(s) /\ Len(s) \in Nat
  BY DEF Marked
<1>2. ASSUME NEW k \in DOMAIN s
      PROVE  /\ t[k] \in Messages
             /\ t[k] \in Told <=> s[k] \in Told
             /\ Verdict(t[k]) <=> Verdict(s[k])
             /\ s[k] \in Told => /\ t[k].id = s[k].id
                                 /\ t[k].card = s[k].card
                                 /\ s[k].id \in ids => t[k].late
                                 /\ s[k].id \notin ids => t[k].late = s[k].late
  <2>1. s[k] \in Messages
    BY <1>1
  <2>2. t[k] = IF About(s[k], ids) THEN [s[k] EXCEPT !.late = TRUE] ELSE s[k]
    BY DEF Marked
  <2>3. About(s[k], ids) <=> s[k] \in Told /\ s[k].id \in ids
    BY <2>1, TellsWhat
  <2>4. CASE About(s[k], ids)
    <3>1. t[k] = [s[k] EXCEPT !.late = TRUE] /\ s[k] \in Told
      BY <2>2, <2>3, <2>4
    <3>2. /\ t[k] \in Told /\ t[k].id = s[k].id /\ t[k].card = s[k].card /\ t[k].late
          /\ t[k].type = s[k].type
      BY <3>1 DEF Told
    <3>3. QED
      BY <2>3, <2>4, <3>1, <3>2 DEF Messages, Verdict
  <2>5. CASE ~About(s[k], ids)
    BY <2>1, <2>2, <2>3, <2>5
  <2>6. QED
    BY <2>4, <2>5
<1>3. t \in Seq(Messages)
  <2>1. t = [k \in 1 .. Len(s) |-> t[k]]
    BY <1>1 DEF Marked
  <2>2. t \in [1 .. Len(s) -> Messages]
    BY <1>1, <1>2, <2>1
  <2>3. QED
    BY <1>1, <2>2, SeqDef
<1>4. \A k \in DOMAIN s : \A i \in Threats :
         /\ Tells(t[k], i) <=> Tells(s[k], i)
         /\ Tells(s[k], i) => s[k] \in Told /\ s[k].id = i
  BY <1>1, <1>2, TellsWhat
<1>5. s = <<>> => t = <<>>
  <2>1. s = <<>> => DOMAIN t = {} /\ Len(t) = 0
    BY <1>1, <1>3
  <2>2. QED
    BY <1>3, <2>1
<1>6. QED
  BY <1>1, <1>2, <1>3, <1>4, <1>5

(* s tells the truth of ids, each once.                                    *)
Announces(s, ids, tbl) ==
    /\ s \in Seq(Messages)
    /\ \A k \in DOMAIN s : \A i \in Threats : Tells(s[k], i) =>
          i \in ids /\ s[k].card = tbl[i] /\ ~s[k].late
    /\ \A k, l \in DOMAIN s : \A i \in Threats : Tells(s[k], i) /\ Tells(s[l], i) => k = l
    /\ \A i \in ids : \E k \in DOMAIN s : Tells(s[k], i)

Committed(T, r, ids, s) == [q \in Nat |-> IF q = r THEN s ELSE Marked(T[q], ids)]

TellsVerdict(s, i) == \E k \in DOMAIN s : Tells(s[k], i) /\ Verdict(s[k])

LEMMA CommitTells ==
    ASSUME NEW T, Mailboxes(T), NEW r \in Nat, T[r] = <<>>,
           NEW ids \in SUBSET Threats, NEW s, NEW old, NEW new,
           Announces(s, ids, new),
           \A i \in Threats \ ids : new[i] = old[i],
           NewsIsTrueOf(T, old)
    PROVE  /\ NewsIsTrueOf(Committed(T, r, ids, s), new)
           /\ \A i \in Threats \ ids :
                 /\ Overtaken(Committed(T, r, ids, s), i) <=> Overtaken(T, i)
                 /\ Fresh(Committed(T, r, ids, s), i) <=> Fresh(T, i)
                 /\ FreshVerdict(Committed(T, r, ids, s), i) <=> FreshVerdict(T, i)
           /\ \A i \in ids :
                 /\ Overtaken(T, i) \/ Fresh(T, i) => Overtaken(Committed(T, r, ids, s), i)
                 /\ Fresh(Committed(T, r, ids, s), i)
                 /\ FreshVerdict(Committed(T, r, ids, s), i) => TellsVerdict(s, i)
<1> DEFINE U == Committed(T, r, ids, s)
<1>1. /\ U[r] = s
      /\ \A q \in Nat : q # r => U[q] = Marked(T[q], ids)
      /\ DOMAIN T[r] = {}
  BY DEF Committed
<1>2. ASSUME NEW q \in Nat, q # r
      PROVE
         /\ DOMAIN U[q] = DOMAIN T[q]
         /\ \A k \in DOMAIN T[q] :
               /\ \A i \in Threats : Tells(U[q][k], i) <=> Tells(T[q][k], i)
               /\ Verdict(U[q][k]) <=> Verdict(T[q][k])
               /\ \A i \in Threats : Tells(T[q][k], i) =>
                     /\ U[q][k].card = T[q][k].card
                     /\ i \in ids => U[q][k].late
                     /\ i \notin ids => U[q][k].late = T[q][k].late
  <2>1. U[q] = Marked(T[q], ids) /\ T[q] \in Seq(Messages)
    BY <1>1, <1>2 DEF Mailboxes
  <2>2. QED
    BY <2>1, MarkedMessages
<1>3. /\ \A k \in DOMAIN U[r] : \A i \in Threats : Tells(U[r][k], i) =>
            i \in ids /\ U[r][k].card = new[i] /\ ~U[r][k].late
      /\ \A k, l \in DOMAIN U[r] : \A i \in Threats : Tells(U[r][k], i) /\ Tells(U[r][l], i) => k = l
      /\ \A i \in ids : \E k \in DOMAIN U[r] : Tells(U[r][k], i)
  BY <1>1 DEF Announces
<1> HIDE DEF U
<1>4. ASSUME NEW i \in Threats, i \notin ids
      PROVE  /\ Overtaken(U, i) <=> Overtaken(T, i)
             /\ Fresh(U, i) <=> Fresh(T, i)
             /\ FreshVerdict(U, i) <=> FreshVerdict(T, i)
  <2>1. Overtaken(U, i) <=> Overtaken(T, i)
    BY <1>1, <1>2, <1>3, <1>4 DEF Overtaken
  <2>2. Fresh(U, i) <=> Fresh(T, i)
    <3>1. ASSUME Fresh(U, i)
          PROVE  Fresh(T, i)
      <4>1. PICK q \in Nat : \E k \in DOMAIN U[q] : Tells(U[q][k], i) /\ ~U[q][k].late
        BY <3>1 DEF Fresh
      <4>2. q # r
        BY <1>1, <1>3, <1>4, <4>1
      <4>3. \E k \in DOMAIN T[q] : Tells(T[q][k], i) /\ ~T[q][k].late
        BY <1>2, <1>4, <4>1, <4>2
      <4>4. QED
        BY <4>3 DEF Fresh
    <3>2. ASSUME Fresh(T, i)
          PROVE  Fresh(U, i)
      <4>1. PICK q \in Nat : \E k \in DOMAIN T[q] : Tells(T[q][k], i) /\ ~T[q][k].late
        BY <3>2 DEF Fresh
      <4>2. q # r
        BY <1>1, <1>3, <1>4, <4>1
      <4>3. \E k \in DOMAIN U[q] : Tells(U[q][k], i) /\ ~U[q][k].late
        BY <1>2, <1>4, <4>1, <4>2
      <4>4. QED
        BY <4>3 DEF Fresh
    <3>3. QED
      BY <3>1, <3>2
  <2>3. FreshVerdict(U, i) <=> FreshVerdict(T, i)
    <3>1. ASSUME FreshVerdict(U, i)
          PROVE  FreshVerdict(T, i)
      <4>1. PICK q \in Nat : \E k \in DOMAIN U[q] : Tells(U[q][k], i) /\ ~U[q][k].late /\ Verdict(U[q][k])
        BY <3>1 DEF FreshVerdict
      <4>2. q # r
        BY <1>1, <1>3, <1>4, <4>1
      <4>3. \E k \in DOMAIN T[q] : Tells(T[q][k], i) /\ ~T[q][k].late /\ Verdict(T[q][k])
        BY <1>2, <1>4, <4>1, <4>2
      <4>4. QED
        BY <4>3 DEF FreshVerdict
    <3>2. ASSUME FreshVerdict(T, i)
          PROVE  FreshVerdict(U, i)
      <4>1. PICK q \in Nat : \E k \in DOMAIN T[q] : Tells(T[q][k], i) /\ ~T[q][k].late /\ Verdict(T[q][k])
        BY <3>2 DEF FreshVerdict
      <4>2. q # r
        BY <1>1, <1>3, <1>4, <4>1
      <4>3. \E k \in DOMAIN U[q] : Tells(U[q][k], i) /\ ~U[q][k].late /\ Verdict(U[q][k])
        BY <1>2, <1>4, <4>1, <4>2
      <4>4. QED
        BY <4>3 DEF FreshVerdict
    <3>3. QED
      BY <3>1, <3>2
  <2>4. QED
    BY <2>1, <2>2, <2>3
<1>5. ASSUME NEW i \in ids
      PROVE  /\ Overtaken(T, i) \/ Fresh(T, i) => Overtaken(U, i)
             /\ Fresh(U, i)
             /\ FreshVerdict(U, i) => \E k \in DOMAIN U[r] : Tells(U[r][k], i) /\ Verdict(U[r][k])
  <2>1. Overtaken(T, i) \/ Fresh(T, i) => Overtaken(U, i)
    BY <1>1, <1>2, <1>5 DEF Overtaken, Fresh
  <2>2. Fresh(U, i)
    BY <1>3, <1>5 DEF Fresh
  <2>3. FreshVerdict(U, i) => \E k \in DOMAIN U[r] : Tells(U[r][k], i) /\ Verdict(U[r][k])
    BY <1>2, <1>5 DEF FreshVerdict
  <2>4. QED
    BY <2>1, <2>2, <2>3
<1>6. ASSUME NEW i \in Threats, NEW q \in Nat, NEW k \in DOMAIN U[q],
             Tells(U[q][k], i), ~U[q][k].late
      PROVE  /\ U[q][k].card = new[i]
             /\ \A p \in Nat : \A l \in DOMAIN U[p] :
                   Tells(U[p][l], i) /\ ~U[p][l].late => p = q /\ l = k
  <2>1. CASE i \in ids
    <3>1. \A p \in Nat : \A l \in DOMAIN U[p] : Tells(U[p][l], i) /\ ~U[p][l].late => p = r
      BY <1>2, <2>1
    <3>2. QED
      BY <1>3, <1>6, <3>1
  <2>2. CASE i \notin ids
    <3>1. \A p \in Nat : \A l \in DOMAIN U[p] : Tells(U[p][l], i) /\ ~U[p][l].late =>
             /\ p # r /\ l \in DOMAIN T[p] /\ Tells(T[p][l], i) /\ ~T[p][l].late
             /\ U[p][l].card = T[p][l].card
      BY <1>2, <1>3, <2>2
    <3>2. new[i] = old[i]
      BY <2>2
    <3>3. /\ k \in DOMAIN T[q] /\ Tells(T[q][k], i) /\ ~T[q][k].late
          /\ U[q][k].card = T[q][k].card
      BY <1>6, <3>1
    <3>4. /\ T[q][k].card = old[i]
          /\ \A p \in Nat : \A l \in DOMAIN T[p] :
                Tells(T[p][l], i) /\ ~T[p][l].late => p = q /\ l = k
      BY <3>3 DEF NewsIsTrueOf
    <3>5. QED
      BY <3>1, <3>2, <3>3, <3>4
  <2>3. QED
    BY <2>1, <2>2
<1>7. NewsIsTrueOf(U, new)
  BY <1>6 DEF NewsIsTrueOf
<1>8. QED
  BY <1>1, <1>4, <1>5, <1>7 DEF U, TellsVerdict

-----------------------------------------------------------------------------
(* The records handlers keep.                                              *)
LEMMA RequestParts ==
    ASSUME NEW x \in Requests
    PROVE  /\ x.todo \in Seq(Messages)
           /\ x.step \in {"queued", "working", "done", "answered"}
           /\ x.step # "answered" => x \in Request
           /\ x.step = "answered" => x = Answered
<1>1. CASE x = Answered
  BY <1>1 DEF Answered
<1>2. CASE x \in Request
  BY <1>2 DEF Request
<1>3. QED
  BY <1>1, <1>2 DEF Requests

LEMMA RequestStep ==
    ASSUME NEW x \in Request
    PROVE  /\ [x EXCEPT !.step = "working"] \in Request
           /\ [x EXCEPT !.step = "working"].step = "working"
           /\ [x EXCEPT !.step = "working"].todo = x.todo
           /\ [x EXCEPT !.step = "working"].kind = x.kind
           /\ [x EXCEPT !.step = "working"].status = x.status
           /\ [x EXCEPT !.step = "working"].about = x.about
BY DEF Request

LEMMA RequestWaits ==
    ASSUME NEW x \in Requests, NEW ws, ws \subseteq x.waiting, NEW y, y = [x EXCEPT !.waiting = ws]
    PROVE  /\ y \in Requests /\ y.todo = x.todo
           /\ Orderly(x) => Orderly(y)
<1>1. CASE x = Answered
  <2>1. x.waiting = {} /\ ws = {}
    BY <1>1 DEF Answered
  <2>2. y = x
    BY <1>1, <2>1 DEF Answered
  <2>3. QED
    BY <2>2
<1>2. CASE x \in Request
  <2>1. ws \in SUBSET Nat
    BY <1>2 DEF Request
  <2>2. /\ y \in Request /\ y.todo = x.todo /\ y.step = x.step /\ y.kind = x.kind
        /\ y.status = x.status /\ y.about = x.about
    BY <1>2, <2>1 DEF Request
  <2>3. QED
    BY <2>2 DEF Orderly, Requests
<1>3. QED
  BY <1>1, <1>2 DEF Requests

LEMMA RequestSends ==
    ASSUME NEW x \in Request, NEW s \in Seq(Messages), NEW ws \in SUBSET Nat
    PROVE  /\ [x EXCEPT !.todo = s, !.waiting = ws] \in Request
           /\ [x EXCEPT !.todo = s, !.waiting = ws].todo = s
           /\ [x EXCEPT !.todo = s, !.waiting = ws].step = x.step
           /\ [x EXCEPT !.todo = s, !.waiting = ws].kind = x.kind
           /\ [x EXCEPT !.todo = s, !.waiting = ws].status = x.status
           /\ [x EXCEPT !.todo = s, !.waiting = ws].about = x.about
BY DEF Request

(* The views of the state are mailboxes and lines of messages.             *)
LEMMA Views ==
    ASSUME Typed
    PROVE  /\ Mailboxes(Todo)
           /\ Ids = 1 .. Len(requests) /\ Ids \subseteq Nat
           /\ \A r \in Ids : requests[r] \in Requests /\ Todo[r] = requests[r].todo
           /\ \A r \in Nat \ Ids : Todo[r] = <<>>
           /\ \A d \in Dashboards : Line[d] \in Seq(Messages)
           /\ \A d \in Dashboards : conn[d] # 0 => Line[d] = feed[conn[d]]
           /\ \A d \in Dashboards : conn[d] = 0 => Line[d] = <<>>
<1>1. Ids = 1 .. Len(requests) /\ Ids \subseteq Nat
  BY DEF Ids, Typed
<1>2. \A r \in Ids : requests[r] \in Requests
  BY <1>1 DEF Typed
<1>3. \A r \in Ids : requests[r].todo \in Seq(Messages)
  BY <1>2, RequestParts
<1>4. <<>> \in Seq(Messages)
  OBVIOUS
<1>5. Mailboxes(Todo)
  BY <1>3, <1>4 DEF Mailboxes, Todo
<1>6. \A d \in Dashboards : conn[d] # 0 => feed[conn[d]] \in Seq(Messages)
  <2> SUFFICES ASSUME NEW d \in Dashboards, conn[d] # 0
               PROVE  feed[conn[d]] \in Seq(Messages)
    OBVIOUS
  <2>1. conn[d] \in 1 .. Len(feed) /\ feed \in Seq(Seq(Messages))
    BY DEF Typed
  <2>2. QED
    BY <2>1, ElementOfSeq
<1>7. QED
  BY <1>1, <1>2, <1>4, <1>5, <1>6 DEF Todo, Line

(* The steps that leave the messages to be sent alone.                     *)
LEMMA SameTodo ==
    ASSUME Typed, Typed', Len(requests') = Len(requests),
           \A q \in Ids : requests'[q].todo = requests[q].todo
    PROVE  Todo' = Todo
<1>1. Ids' = Ids
  BY DEF Ids, Typed
<1>2. QED
  BY <1>1 DEF Todo

(* ... and the steps that leave the lines alone.                           *)
LEMMA SameLines ==
    ASSUME conn' = conn, feed' = feed
    PROVE  Line' = Line
BY DEF Line

-----------------------------------------------------------------------------
(* Which messages there are, step by step.  Shape is kept.                 *)
LEMMA ShapeInit == Init => Shape
<1> SUFFICES ASSUME Init PROVE Shape
  OBVIOUS
<1>1. [version |-> 1, status |-> "open"] \in Rows /\ NoCard \in Rows
  BY DEF Rows, Written
<1>2. table \in [Threats -> Rows]
  BY <1>1 DEF Init
<1>3. feed \in Seq(Seq(Messages)) /\ Len(feed) = 0 /\ requests \in Seq(Requests) /\ Ids = {}
  BY DEF Init, Ids
<1>4. conn \in [Dashboards -> 0 .. Len(feed)]
  BY <1>3 DEF Init
<1>5. load \in [Dashboards -> {NoLoad} \cup Loading]
  BY DEF Init
<1>6. Typed
  BY <1>2, <1>3, <1>4, <1>5 DEF Init, Typed
<1>7. QED
  BY <1>3, <1>6 DEF Init, Shape, Handling, Lines

LEMMA ArriveShape ==
    ASSUME Shape, NEW x \in Request, x.step = "queued", Orderly(x), Arrive(x)
    PROVE  Shape' /\ Todo' = Todo /\ Line' = Line
<1>1. requests \in Seq(Requests) /\ x \in Requests
  BY DEF Shape, Typed, Requests
<1>2. requests' = Append(requests, x)
  BY DEF Arrive
<1>3. requests' \in Seq(Requests) /\ Len(requests') = Len(requests) + 1 /\ Len(requests) \in Nat
  BY <1>1, <1>2
<1>4. /\ \A r \in 1 .. Len(requests) : requests'[r] = requests[r]
      /\ requests'[Len(requests) + 1] = x
  BY <1>1, <1>2
<1>5. Typed'
  BY <1>3 DEF Arrive, pageVars, Shape, Typed
<1>6. Ids = 1 .. Len(requests) /\ Ids' = 1 .. Len(requests) + 1
  BY <1>1, <1>3 DEF Ids
<1>7. \A r \in Ids' : r \in Ids \/ r = Len(requests) + 1
  BY <1>3, <1>6
<1>8. Handling'
  BY <1>4, <1>6, <1>7 DEF Shape, Handling
<1>9. x.todo = <<>>
  BY DEF Orderly
<1>10. Todo' = Todo
  <2>1. \A r \in Nat : (IF r \in Ids' THEN requests'[r].todo ELSE <<>>)
                          = (IF r \in Ids THEN requests[r].todo ELSE <<>>)
    BY <1>3, <1>4, <1>6, <1>7, <1>9
  <2>2. QED
    BY <2>1 DEF Todo
<1>11. Lines' /\ Line' = Line
  BY SameLines DEF Arrive, Shape, Lines
<1>12. QED
  BY <1>5, <1>8, <1>10, <1>11 DEF Shape

LEMMA ArrivalsShape ==
    ASSUME Shape, Arrivals
    PROVE  /\ Shape' /\ Todo' = Todo /\ Line' = Line
           /\ UNCHANGED <<table, pageVars>>
<1>1. ASSUME NEW about \in SUBSET Threats, PostEvents(about)
      PROVE  Shape' /\ Todo' = Todo /\ Line' = Line
  <2> DEFINE x == NewRequest("batch", about, "open")
  <2>1. x \in Request /\ x.step = "queued" /\ Orderly(x)
    BY DEF NewRequest, Request, Orderly
  <2>2. Arrive(x)
    BY <1>1 DEF PostEvents
  <2> HIDE DEF x
  <2>3. QED
    BY <2>1, <2>2, ArriveShape
<1>2. ASSUME NEW d \in Dashboards, NEW i \in Threats, NEW v \in {"blocked", "dismissed"},
             PostFeedback(d, i, v)
      PROVE  Shape' /\ Todo' = Todo /\ Line' = Line
  <2> DEFINE x == NewRequest("verdict", {i}, v)
  <2>1. x \in Request /\ x.step = "queued" /\ Orderly(x)
    BY DEF NewRequest, Request, Orderly
  <2>2. Arrive(x)
    BY <1>2 DEF PostFeedback
  <2> HIDE DEF x
  <2>3. QED
    BY <2>1, <2>2, ArriveShape
<1>3. ASSUME PutPolicy
      PROVE  Shape' /\ Todo' = Todo /\ Line' = Line
  <2> DEFINE x == NewRequest("policy", {}, "none")
  <2>1. x \in Request /\ x.step = "queued" /\ Orderly(x)
    BY DEF NewRequest, Request, Orderly
  <2>2. Arrive(x)
    BY <1>3 DEF PutPolicy
  <2> HIDE DEF x
  <2>3. QED
    BY <2>1, <2>2, ArriveShape
<1>4. UNCHANGED <<table, pageVars>>
  BY DEF Arrivals, PostEvents, PostFeedback, PutPolicy, Arrive
<1>5. QED
  BY <1>1, <1>2, <1>3, <1>4 DEF Arrivals

(* A step that rewrites one request, or all, and touches nothing else that *)
(* the types mention.                                                      *)
LEMMA RewrittenShape ==
    ASSUME Shape,
           requests' \in Seq(Requests), Len(requests') = Len(requests),
           \A q \in Ids : requests'[q].todo = requests[q].todo /\ Orderly(requests'[q]),
           UNCHANGED <<table, clients, feed, conn, pageVars>>
    PROVE  Shape' /\ Todo' = Todo /\ Line' = Line
<1>1. Typed'
  BY DEF Shape, Typed, pageVars
<1>2. Typed /\ Ids' = Ids
  BY DEF Shape, Typed, Ids
<1>3. Todo' = Todo
  BY <1>1, <1>2, SameTodo
<1>4. Handling'
  BY <1>2 DEF Handling
<1>5. Lines' /\ Line' = Line
  BY SameLines DEF Shape, Lines
<1>6. QED
  BY <1>1, <1>3, <1>4, <1>5 DEF Shape

LEMMA AcquireShape ==
    ASSUME Shape, NEW r \in Ids, Acquire(r)
    PROVE  /\ Shape' /\ Todo' = Todo /\ Line' = Line
           /\ UNCHANGED <<table, pageVars>>
<1> DEFINE y == [requests[r] EXCEPT !.step = "working"]
<1>1. Ids = 1 .. Len(requests) /\ requests \in Seq(Requests)
  BY Views DEF Shape, Typed
<1>2. requests[r] \in Request /\ requests[r].step = "queued" /\ Orderly(requests[r])
  <2>1. requests[r] \in Requests
    BY <1>1
  <2>2. QED
    BY <2>1, RequestParts DEF Acquire, Shape, Handling
<1>3. /\ y \in Requests /\ y.todo = requests[r].todo
      /\ Orderly(y)
  BY <1>2, RequestStep DEF Orderly, Requests
<1>4. requests' = [requests EXCEPT ![r] = y]
  BY DEF Acquire
<1> HIDE DEF y
<1>5. /\ requests' \in Seq(Requests) /\ Len(requests') = Len(requests)
      /\ \A q \in 1 .. Len(requests) : requests'[q] = IF q = r THEN y ELSE requests[q]
  BY <1>1, <1>3, <1>4, ExceptSeq
<1>6. \A q \in Ids : requests'[q].todo = requests[q].todo /\ Orderly(requests'[q])
  BY <1>1, <1>3, <1>5 DEF Shape, Handling
<1>7. UNCHANGED <<table, clients, feed, conn, pageVars>>
  BY DEF Acquire
<1>8. QED
  BY <1>5, <1>6, <1>7, RewrittenShape

LEMMA AnswerShape ==
    ASSUME Shape, NEW r \in Ids, Answer(r)
    PROVE  /\ Shape' /\ Todo' = Todo /\ Line' = Line
           /\ UNCHANGED <<table, pageVars>>
<1>1. Ids = 1 .. Len(requests) /\ requests \in Seq(Requests)
  BY Views DEF Shape, Typed
<1>2. /\ Answered \in Requests /\ Answered.todo = requests[r].todo
      /\ Orderly(Answered)
  BY DEF Answer, Answered, Orderly, Requests
<1>3. requests' = [requests EXCEPT ![r] = Answered]
  BY DEF Answer
<1>4. /\ requests' \in Seq(Requests) /\ Len(requests') = Len(requests)
      /\ \A q \in 1 .. Len(requests) : requests'[q] = IF q = r THEN Answered ELSE requests[q]
  BY <1>1, <1>2, <1>3, ExceptSeq
<1>5. \A q \in Ids : requests'[q].todo = requests[q].todo /\ Orderly(requests'[q])
  BY <1>1, <1>2, <1>4 DEF Shape, Handling
<1>6. UNCHANGED <<table, clients, feed, conn, pageVars>>
  BY DEF Answer
<1>7. QED
  BY <1>4, <1>5, <1>6, RewrittenShape

LEMMA NoticeShape ==
    ASSUME Shape, NEW s \in Sockets, NoticeClosed(s)
    PROVE  /\ Shape' /\ Todo' = Todo /\ Line' = Line
           /\ UNCHANGED <<table, pageVars>>
<1>1. UNCHANGED <<table, requests, feed, conn, cards, load, muddled>> /\ clients' = clients \ {s}
  BY DEF NoticeClosed, pageVars
<1>2. Typed'
  BY <1>1 DEF Shape, Typed
<1>3. Handling' /\ Todo' = Todo
  BY <1>1 DEF Shape, Handling, Ids, Todo
<1>4. \A d \in Dashboards : conn[d] # s
  BY DEF NoticeClosed, Listening
<1>5. Lines'
  BY <1>1, <1>4 DEF Shape, Lines
<1>6. Line' = Line
  BY <1>1, SameLines
<1>7. QED
  BY <1>2, <1>3, <1>5, <1>6 DEF Shape, NoticeClosed

LEMMA SocketOpensShape ==
    ASSUME Shape, NEW d \in Dashboards, SocketOpens(d)
    PROVE  /\ Shape' /\ Todo' = Todo /\ \A e \in Dashboards : Line'[e] = Line[e]
           /\ UNCHANGED <<table, pageVars>>
<1> DEFINE n == Len(feed) + 1
<1>1. /\ feed \in Seq(Seq(Messages)) /\ Len(feed) \in Nat
      /\ conn \in [Dashboards -> 0 .. Len(feed)]
  BY DEF Shape, Typed
<1>2. /\ feed' = Append(feed, <<>>) /\ conn' = [conn EXCEPT ![d] = n]
      /\ clients' = clients \cup {n} /\ conn[d] = 0
      /\ UNCHANGED <<table, requests, cards, load, muddled>>
  BY DEF SocketOpens, pageVars
<1>3. /\ feed' \in Seq(Seq(Messages)) /\ Len(feed') = n
      /\ feed'[n] = <<>>
      /\ \A s \in 1 .. Len(feed) : feed'[s] = feed[s]
  <2>1. <<>> \in Seq(Messages)
    OBVIOUS
  <2>2. QED
    BY <1>1, <1>2, <2>1
<1>4. /\ n \in Nat /\ n # 0 /\ \A e \in Dashboards : conn[e] # n
      /\ conn' \in [Dashboards -> 0 .. n]
      /\ conn'[d] = n /\ \A e \in Dashboards : e # d => conn'[e] = conn[e]
  BY <1>1, <1>2
<1> HIDE DEF n
<1>5. Typed'
  BY <1>2, <1>3, <1>4 DEF Shape, Typed
<1>6. Handling' /\ Todo' = Todo
  BY <1>2 DEF Shape, Handling, Ids, Todo
<1>7. Lines'
  BY <1>2, <1>4 DEF Shape, Lines
<1>8. ASSUME NEW e \in Dashboards
      PROVE  Line'[e] = Line[e]
  <2>1. CASE e = d
    BY <1>2, <1>3, <1>4, <2>1 DEF Line
  <2>2. CASE e # d
    <3>1. conn'[e] = conn[e] /\ (conn[e] # 0 => conn[e] \in 1 .. Len(feed))
      BY <1>1, <1>4, <2>2
    <3>2. QED
      BY <1>3, <3>1 DEF Line
  <2>3. QED
    BY <2>1, <2>2
<1>9. QED
  BY <1>5, <1>6, <1>7, <1>8 DEF Shape, SocketOpens

(* A page waits for a load, or shows it.                                   *)
LEMMA LoadShape ==
    ASSUME Shape, NEW d \in Dashboards, BeginLoad(d) \/ EndLoad(d)
    PROVE  Shape' /\ Todo' = Todo /\ Line' = Line /\ UNCHANGED table
<1>1. UNCHANGED <<table, requests, clients, feed, conn>>
  BY DEF BeginLoad, EndLoad, serverVars
<1>2. Typed'
  <2>1. CASE BeginLoad(d)
    <3>1. [table |-> table, crossed |-> {}] \in Loading
      BY DEF Loading, Shape, Typed
    <3>2. load' = [load EXCEPT ![d] = [table |-> table, crossed |-> {}]] /\ UNCHANGED <<cards, muddled>>
      BY <2>1 DEF BeginLoad
    <3>3. load' \in [Dashboards -> {NoLoad} \cup Loading]
      BY <3>1, <3>2 DEF Shape, Typed
    <3>4. QED
      BY <1>1, <3>2, <3>3 DEF Shape, Typed
  <2>2. CASE EndLoad(d)
    <3>1. load[d] \in Loading
      BY <2>2 DEF EndLoad, Shape, Typed
    <3>2. load[d].table \in [Threats -> Rows] /\ load[d].crossed \in SUBSET Threats
      BY <3>1 DEF Loading
    <3>3. QED
      BY <1>1, <2>2, <3>2 DEF EndLoad, Shape, Typed
  <2>3. QED
    BY <2>1, <2>2
<1>3. Handling' /\ Todo' = Todo
  BY <1>1 DEF Shape, Handling, Ids, Todo
<1>4. Lines' /\ Line' = Line
  BY <1>1, SameLines DEF Shape, Lines
<1>5. QED
  BY <1>1, <1>2, <1>3, <1>4 DEF Shape

(* All requests wait for fewer sockets.                                    *)
LEMMA WaitsShape ==
    ASSUME Shape, NEW R, R = [q \in Ids |-> [requests[q] EXCEPT !.waiting = R[q].waiting]],
           \A q \in Ids : R[q].waiting \subseteq requests[q].waiting
    PROVE  /\ R \in Seq(Requests) /\ Len(R) = Len(requests)
           /\ \A q \in Ids : R[q].todo = requests[q].todo /\ Orderly(R[q])
<1>1. /\ Ids = 1 .. Len(requests) /\ Len(requests) \in Nat
      /\ \A q \in Ids : requests[q] \in Requests /\ Orderly(requests[q])
  BY Views DEF Shape, Typed, Handling
<1>2. ASSUME NEW q \in Ids
      PROVE  R[q] \in Requests /\ R[q].todo = requests[q].todo /\ Orderly(R[q])
  <2> DEFINE ws == R[q].waiting
  <2>1. ws \subseteq requests[q].waiting
    OBVIOUS
  <2>2. R[q] = [requests[q] EXCEPT !.waiting = ws]
    OBVIOUS
  <2> HIDE DEF ws
  <2>3. requests[q] \in Requests /\ Orderly(requests[q])
    BY <1>1
  <2> DEFINE x == requests[q]
             y == R[q]
  <2>4. x \in Requests /\ ws \subseteq x.waiting /\ y = [x EXCEPT !.waiting = ws]
    BY <2>1, <2>2, <2>3
  <2> HIDE DEF x, y
  <2>5. y \in Requests /\ y.todo = x.todo /\ (Orderly(x) => Orderly(y))
    BY <2>4, RequestWaits
  <2>6. QED
    BY <2>3, <2>5 DEF x, y
<1>3. DOMAIN R = 1 .. Len(requests)
  BY <1>1
<1>4. R \in [1 .. Len(requests) -> Requests]
  BY <1>1, <1>2, <1>3
<1>5. R \in Seq(Requests) /\ Len(R) = Len(requests)
  BY <1>1, <1>4
<1>6. QED
  BY <1>2, <1>5

LEMMA MuddleTyped ==
    ASSUME Shape, NEW ds, NEW ids \in SUBSET Threats, Muddle(ds, ids)
    PROVE  /\ muddled' \in [Dashboards -> SUBSET Threats]
           /\ load' \in [Dashboards -> {NoLoad} \cup Loading]
           /\ \A e \in Dashboards :
                 /\ muddled'[e] = IF e \in ds THEN muddled[e] \cup ids ELSE muddled[e]
                 /\ load'[e] # NoLoad => load[e] # NoLoad
                 /\ load'[e] # NoLoad =>
                       /\ load'[e].table = load[e].table
                       /\ load'[e].crossed = IF e \in ds THEN load[e].crossed \cup ids ELSE load[e].crossed
<1>1. \A e \in Dashboards : muddled[e] \in SUBSET Threats /\ load[e] \in {NoLoad} \cup Loading
  BY DEF Shape, Typed
<1>2. /\ muddled' = [d \in Dashboards |-> IF d \in ds THEN muddled[d] \cup ids ELSE muddled[d]]
      /\ load' = [d \in Dashboards |->
                     IF d \in ds /\ load[d] # NoLoad
                     THEN [load[d] EXCEPT !.crossed = load[d].crossed \cup ids] ELSE load[d]]
  BY DEF Muddle, Crosses
<1>3. muddled' \in [Dashboards -> SUBSET Threats]
  BY <1>1, <1>2
<1>4. ASSUME NEW e \in Dashboards
      PROVE  /\ load'[e] \in {NoLoad} \cup Loading
             /\ load'[e] # NoLoad =>
                   /\ load[e] # NoLoad
                   /\ load'[e].table = load[e].table
                   /\ load'[e].crossed = IF e \in ds THEN load[e].crossed \cup ids ELSE load[e].crossed
  <2>1. CASE e \in ds /\ load[e] # NoLoad
    <3>1. load[e] \in Loading /\ load'[e] = [load[e] EXCEPT !.crossed = load[e].crossed \cup ids]
      BY <1>1, <1>2, <2>1
    <3>2. load'[e] \in Loading /\ load'[e].table = load[e].table
          /\ load'[e].crossed = load[e].crossed \cup ids
      BY <3>1 DEF Loading
    <3>3. QED
      BY <2>1, <3>2
  <2>2. CASE ~(e \in ds /\ load[e] # NoLoad)
    BY <1>1, <1>2, <2>2
  <2>3. QED
    BY <2>1, <2>2
<1>5. load' \in [Dashboards -> {NoLoad} \cup Loading]
  BY <1>2, <1>4
<1>6. QED
  BY <1>2, <1>3, <1>4, <1>5

LEMMA SubjectsOf ==
    ASSUME NEW s \in Seq(Messages)
    PROVE  /\ Subjects(s) \in SUBSET Threats
           /\ \A i \in Threats : i \in Subjects(s) <=> \E k \in DOMAIN s : Tells(s[k], i)
<1>1. \A k \in DOMAIN s : s[k] \in Messages
  OBVIOUS
<1>2. \A k \in DOMAIN s : About(s[k], Threats) <=> s[k] \in Told /\ s[k].id \in Threats
  BY <1>1, TellsWhat
<1>3. \A k \in DOMAIN s : \A i \in Threats : Tells(s[k], i) <=> s[k] \in Told /\ s[k].id = i
  BY <1>1, TellsWhat
<1>4. \A x : x \in Subjects(s) <=> \E k \in DOMAIN s : About(s[k], Threats) /\ x = s[k].id
  BY DEF Subjects
<1>5. QED
  BY <1>2, <1>3, <1>4

LEMMA SubjectOfOne ==
    ASSUME NEW m \in Messages
    PROVE  /\ Subjects(<<m>>) \in SUBSET Threats
           /\ \A i \in Threats : i \in Subjects(<<m>>) <=> Tells(m, i)
<1>1. <<m>> \in Seq(Messages) /\ DOMAIN <<m>> = {1} /\ <<m>>[1] = m
  OBVIOUS
<1>2. QED
  BY <1>1, SubjectsOf

(* A page's line is cut: by the network, or the web server.                *)
LEMMA ClosesShape ==
    ASSUME Shape, NEW d \in Dashboards, conn[d] # 0, Closes(d)
    PROVE  /\ Shape' /\ Todo' = Todo
           /\ \A e \in Dashboards : Line'[e] = IF e = d THEN <<>> ELSE Line[e]
           /\ UNCHANGED <<table, cards>>
           /\ Subjects(Line[d]) \in SUBSET Threats
           /\ Muddle({d}, Subjects(Line[d]))
<1> DEFINE s == conn[d]
<1>0. Typed
  BY DEF Shape
<1>1. /\ feed \in Seq(Seq(Messages)) /\ s \in 1 .. Len(feed)
      /\ conn \in [Dashboards -> 0 .. Len(feed)]
      /\ Line[d] = feed[s] /\ Line[d] \in Seq(Messages)
  BY <1>0, Views DEF Typed
<1>2. /\ conn' = [conn EXCEPT ![d] = 0] /\ feed' = [feed EXCEPT ![s] = <<>>]
      /\ UNCHANGED <<table, clients, cards>>
      /\ Muddle({d}, Subjects(Line[d]))
      /\ requests' = [q \in Ids |-> [requests[q] EXCEPT
                         !.waiting = StillWaiting(requests[q].waiting \ {s}, feed)]]
  BY <1>1 DEF Closes
<1>3. Subjects(Line[d]) \in SUBSET Threats
  BY <1>1, SubjectsOf
<1>4. /\ muddled' \in [Dashboards -> SUBSET Threats]
      /\ load' \in [Dashboards -> {NoLoad} \cup Loading]
  BY <1>2, <1>3, MuddleTyped
<1>5. /\ feed' \in Seq(Seq(Messages)) /\ Len(feed') = Len(feed)
      /\ \A t \in 1 .. Len(feed) : feed'[t] = IF t = s THEN <<>> ELSE feed[t]
  <2>1. <<>> \in Seq(Messages)
    OBVIOUS
  <2>2. QED
    BY <1>1, <1>2, <2>1, ExceptSeq
<1>6. /\ requests' \in Seq(Requests) /\ Len(requests') = Len(requests)
      /\ \A q \in Ids : requests'[q].todo = requests[q].todo /\ Orderly(requests'[q])
  <2>1. \A q \in Ids : requests[q] \in Requests /\ "waiting" \in DOMAIN requests[q]
    <3>1. \A x \in Requests : "waiting" \in DOMAIN x
      BY DEF Requests, Request, Answered
    <3>2. QED
      BY <1>0, <3>1, Views
  <2>2. \A q \in Ids : requests'[q].waiting = StillWaiting(requests[q].waiting \ {s}, feed)
    BY <1>2, <2>1
  <2>3. \A q \in Ids : requests'[q].waiting \subseteq requests[q].waiting
    BY <2>2 DEF StillWaiting
  <2>4. requests' = [q \in Ids |-> [requests[q] EXCEPT !.waiting = requests'[q].waiting]]
    BY <1>2, <2>2
  <2>5. QED
    BY <2>3, <2>4, WaitsShape
<1>7. /\ conn' \in [Dashboards -> 0 .. Len(feed)]
      /\ conn'[d] = 0 /\ \A e \in Dashboards : e # d => conn'[e] = conn[e] /\ conn[e] # s
  BY <1>1, <1>2 DEF Shape, Lines
<1>8. Typed'
  BY <1>2, <1>4, <1>5, <1>6, <1>7 DEF Shape, Typed
<1>9. Ids' = Ids
  BY <1>0, <1>8, <1>6 DEF Ids, Typed
<1>10. Handling'
  BY <1>6, <1>9 DEF Handling
<1>11. Todo' = Todo
  BY <1>0, <1>6, <1>8, SameTodo
<1>12. Lines'
  BY <1>2, <1>7 DEF Shape, Lines
<1>13. ASSUME NEW e \in Dashboards
       PROVE  Line'[e] = IF e = d THEN <<>> ELSE Line[e]
  <2>1. CASE e = d
    BY <1>7, <2>1 DEF Line
  <2>2. CASE e # d
    <3>1. conn'[e] = conn[e] /\ conn[e] # s /\ (conn[e] # 0 => conn[e] \in 1 .. Len(feed))
      BY <1>1, <1>7, <2>2
    <3>2. QED
      BY <1>5, <2>2, <3>1 DEF Line
  <2>3. QED
    BY <2>1, <2>2
<1>14. QED
  BY <1>2, <1>3, <1>8, <1>10, <1>11, <1>12, <1>13 DEF Shape

(* A card that is shown is a row.                                          *)
LEMMA ShownRow ==
    ASSUME NEW card \in Rows, NEW m \in Told
    PROVE  /\ Shown(card, m) \in Rows
           /\ Decided(Shown(card, m)) => Decided(m.card)
<1>1. m.card \in Written
  BY DEF Told
<1>2. CASE m.type = "threat"
  BY <1>1, <1>2 DEF Shown, Replaced, Rows
<1>3. CASE m.type # "threat" /\ card = NoCard
  BY <1>3 DEF Shown, Rows, NoCard, Decided
<1>4. CASE m.type # "threat" /\ card # NoCard
  <2>1. card \in Written /\ Shown(card, m) = [card EXCEPT !.status = m.card.status]
    BY <1>4 DEF Shown, Rows
  <2>2. Shown(card, m) \in Written /\ Shown(card, m).status = m.card.status
    BY <1>1, <2>1 DEF Written
  <2>3. QED
    BY <2>2 DEF Rows, Decided
<1>5. QED
  BY <1>2, <1>3, <1>4

(* What a page makes of the message m it reads.                            *)
Reads(d, m) ==
    IF m \in Told
    THEN /\ cards' = [cards EXCEPT ![d][m.id] = Shown(cards[d][m.id], m)]
         /\ muddled' = [muddled EXCEPT ![d] =
                IF m.late THEN muddled[d] \cup {m.id}
                ELSE IF m.type = "threat" THEN muddled[d] \ {m.id} ELSE muddled[d]]
         /\ load' = [load EXCEPT ![d] = Crosses(load[d], {m.id})]
    ELSE UNCHANGED <<cards, muddled, load>>

LEMMA ReadsTyped ==
    ASSUME Shape, NEW d \in Dashboards, NEW m \in Messages, Reads(d, m)
    PROVE  /\ cards' \in [Dashboards -> [Threats -> Rows]]
           /\ muddled' \in [Dashboards -> SUBSET Threats]
           /\ load' \in [Dashboards -> {NoLoad} \cup Loading]
           /\ \A e \in Dashboards : e # d =>
                 cards'[e] = cards[e] /\ muddled'[e] = muddled[e] /\ load'[e] = load[e]
           /\ m \notin Told => UNCHANGED <<cards, muddled, load>>
           /\ \A i \in Threats :
                 cards'[d][i] = IF Tells(m, i) THEN Shown(cards[d][i], m) ELSE cards[d][i]
           /\ \A i \in Threats : ~Tells(m, i) => (i \in muddled'[d] <=> i \in muddled[d])
           /\ \A i \in Threats : Tells(m, i) =>
                 (i \in muddled'[d] <=> m.late \/ (Verdict(m) /\ i \in muddled[d]))
           /\ load'[d] # NoLoad =>
                 /\ load[d] # NoLoad
                 /\ load'[d].table = load[d].table
                 /\ \A i \in Threats : i \in load'[d].crossed <=> i \in load[d].crossed \/ Tells(m, i)
<1>1. /\ cards \in [Dashboards -> [Threats -> Rows]]
      /\ muddled \in [Dashboards -> SUBSET Threats]
      /\ load \in [Dashboards -> {NoLoad} \cup Loading]
  BY DEF Shape, Typed
<1>2. CASE m \notin Told
  <2>1. UNCHANGED <<cards, muddled, load>> /\ \A i : ~Tells(m, i)
    BY <1>2, TellsWhat DEF Reads
  <2>2. QED
    BY <1>1, <1>2, <2>1
<1>3. CASE m \in Told
  <2>1. /\ m.id \in Threats /\ m.type \in {"threat", "feedback"} /\ m.late \in BOOLEAN
        /\ \A i : Tells(m, i) <=> m.id = i
        /\ Verdict(m) <=> m.type # "threat"
    BY <1>3, TellsWhat DEF Told, Verdict
  <2>2. Shown(cards[d][m.id], m) \in Rows
    BY <1>1, <1>3, <2>1, ShownRow
  <2>3. cards' = [cards EXCEPT ![d] = [cards[d] EXCEPT ![m.id] = Shown(cards[d][m.id], m)]]
    BY <1>3 DEF Reads
  <2>4. /\ cards' \in [Dashboards -> [Threats -> Rows]]
        /\ \A e \in Dashboards : e # d => cards'[e] = cards[e]
        /\ \A i \in Threats :
                 cards'[d][i] = IF Tells(m, i) THEN Shown(cards[d][i], m) ELSE cards[d][i]
    BY <1>1, <2>1, <2>2, <2>3
  <2>5. /\ muddled' = [muddled EXCEPT ![d] = muddled'[d]]
        /\ muddled'[d] = IF m.late THEN muddled[d] \cup {m.id}
                ELSE IF m.type = "threat" THEN muddled[d] \ {m.id} ELSE muddled[d]
    BY <1>1, <1>3 DEF Reads
  <2>6. /\ muddled' \in [Dashboards -> SUBSET Threats]
        /\ \A e \in Dashboards : e # d => muddled'[e] = muddled[e]
    BY <1>1, <2>1, <2>5
  <2>7. \A i \in Threats :
           /\ ~Tells(m, i) => (i \in muddled'[d] <=> i \in muddled[d])
           /\ Tells(m, i) => (i \in muddled'[d] <=> m.late \/ (Verdict(m) /\ i \in muddled[d]))
    BY <2>1, <2>5
  <2>8. load' = [load EXCEPT ![d] = IF load[d] = NoLoad THEN load[d]
                ELSE [load[d] EXCEPT !.crossed = load[d].crossed \cup {m.id}]]
    BY <1>3 DEF Reads, Crosses
  <2>9. \A e \in Dashboards : e # d => load'[e] = load[e]
    BY <1>1, <2>8
  <2>10. CASE load[d] = NoLoad
    <3>1. load' = load
      BY <1>1, <2>8, <2>10
    <3>2. QED
      BY <1>1, <1>3, <2>4, <2>6, <2>7, <2>10, <3>1
  <2>11. CASE load[d] # NoLoad
    <3>1. load[d] \in Loading
      BY <1>1, <2>11
    <3>2. load'[d] = [load[d] EXCEPT !.crossed = load[d].crossed \cup {m.id}]
      BY <1>1, <2>8, <2>11
    <3>3. /\ load'[d] \in Loading /\ load'[d].table = load[d].table
          /\ load'[d].crossed = load[d].crossed \cup {m.id}
      BY <2>1, <3>1, <3>2 DEF Loading
    <3>4. load' = [load EXCEPT ![d] = load'[d]]
      BY <1>1, <2>8, <2>11
    <3>5. load' \in [Dashboards -> {NoLoad} \cup Loading]
      BY <1>1, <3>3, <3>4
    <3>6. QED
      BY <1>3, <2>1, <2>4, <2>6, <2>7, <2>9, <2>11, <3>3, <3>5
  <2>12. QED
    BY <2>10, <2>11
<1>4. QED
  BY <1>2, <1>3

LEMMA ReceiveShape ==
    ASSUME Shape, NEW d \in Dashboards, Receive(d)
    PROVE  /\ Shape' /\ Todo' = Todo
           /\ Line[d] # <<>> /\ Line[d] \in Seq(Messages)
           /\ \A e \in Dashboards : Line'[e] = IF e = d THEN Tail(Line[d]) ELSE Line[e]
           /\ UNCHANGED table
           /\ Reads(d, Head(Line[d]))
<1> DEFINE s == conn[d]
<1>0. Typed
  BY DEF Shape
<1>1. /\ feed \in Seq(Seq(Messages)) /\ s \in 1 .. Len(feed) /\ s # 0
      /\ conn \in [Dashboards -> 0 .. Len(feed)]
      /\ Line[d] = feed[s] /\ Line[d] \in Seq(Messages)
      /\ Line[d] # <<>>
  BY <1>0, Views DEF Typed, Receive
<1>2. Head(Line[d]) \in Messages /\ Tail(Line[d]) \in Seq(Messages)
  BY <1>1, TakenFirst
<1>3. /\ feed' = [feed EXCEPT ![s] = Tail(Line[d])]
      /\ UNCHANGED <<table, clients, conn>>
      /\ requests' = [q \in Ids |-> [requests[q] EXCEPT
                         !.waiting = StillWaiting(requests[q].waiting, feed')]]
  BY <1>1 DEF Receive
<1>4. Reads(d, Head(Line[d]))
  <2> DEFINE m == Head(Line[d])
  <2>1. About(m, Threats) <=> m \in Told
    <3>1. m \in Told => m.id \in Threats
      BY DEF Told
    <3>2. QED
      BY <1>2, <3>1, TellsWhat
  <2>2. m = Head(feed[s])
    BY <1>1
  <2>3. CASE m \in Told
    <3>1. cards' = [cards EXCEPT ![d][m.id] = Shown(cards[d][m.id], m)]
      BY <2>1, <2>2, <2>3 DEF Receive
    <3>2. muddled' = [muddled EXCEPT ![d] =
              IF m.late THEN muddled[d] \cup {m.id}
              ELSE IF m.type = "threat" THEN muddled[d] \ {m.id} ELSE muddled[d]]
      <4>1. muddled' = [muddled EXCEPT ![d] =
                IF m.late THEN @ \cup {m.id} ELSE IF m.type = "threat" THEN @ \ {m.id} ELSE @]
        BY <2>1, <2>2, <2>3 DEF Receive
      <4>2. QED
        BY <4>1
    <3>3. load' = [load EXCEPT ![d] = Crosses(load[d], {m.id})]
      BY <2>1, <2>2, <2>3 DEF Receive
    <3>4. QED
      BY <2>3, <3>1, <3>2, <3>3 DEF Reads
  <2>4. CASE m \notin Told
    BY <2>1, <2>2, <2>4 DEF Receive, Reads
  <2>5. QED
    BY <2>3, <2>4
<1>5. /\ cards' \in [Dashboards -> [Threats -> Rows]]
      /\ muddled' \in [Dashboards -> SUBSET Threats]
      /\ load' \in [Dashboards -> {NoLoad} \cup Loading]
  BY <1>2, <1>4, ReadsTyped
<1>6. /\ feed' \in Seq(Seq(Messages)) /\ Len(feed') = Len(feed)
      /\ \A t \in 1 .. Len(feed) : feed'[t] = IF t = s THEN Tail(Line[d]) ELSE feed[t]
  BY <1>1, <1>2, <1>3, ExceptSeq
<1>7. /\ requests' \in Seq(Requests) /\ Len(requests') = Len(requests)
      /\ \A q \in Ids : requests'[q].todo = requests[q].todo /\ Orderly(requests'[q])
  <2>1. \A q \in Ids : requests[q] \in Requests /\ "waiting" \in DOMAIN requests[q]
    <3>1. \A x \in Requests : "waiting" \in DOMAIN x
      BY DEF Requests, Request, Answered
    <3>2. QED
      BY <1>0, <3>1, Views
  <2>2. \A q \in Ids : requests'[q].waiting = StillWaiting(requests[q].waiting, feed')
    BY <1>3, <2>1
  <2>3. \A q \in Ids : requests'[q].waiting \subseteq requests[q].waiting
    BY <2>2 DEF StillWaiting
  <2>4. requests' = [q \in Ids |-> [requests[q] EXCEPT !.waiting = requests'[q].waiting]]
    BY <1>3, <2>2
  <2>5. QED
    BY <2>3, <2>4, WaitsShape
<1>8. Typed'
  BY <1>3, <1>5, <1>6, <1>7, <1>1 DEF Shape, Typed
<1>9. Ids' = Ids
  BY <1>0, <1>8, <1>7 DEF Ids, Typed
<1>10. Handling'
  BY <1>7, <1>9 DEF Handling
<1>11. Todo' = Todo
  BY <1>0, <1>7, <1>8, SameTodo
<1>12. Lines'
  BY <1>3 DEF Shape, Lines
<1>13. ASSUME NEW e \in Dashboards
       PROVE  Line'[e] = IF e = d THEN Tail(Line[d]) ELSE Line[e]
  <2>1. CASE e = d
    BY <1>1, <1>3, <1>6, <2>1 DEF Line
  <2>2. CASE e # d
    <3>1. conn'[e] = conn[e] /\ conn[e] # s /\ (conn[e] # 0 => conn[e] \in 1 .. Len(feed))
      BY <1>1, <1>3, <2>2 DEF Shape, Lines
    <3>2. QED
      BY <1>6, <2>2, <3>1 DEF Line
  <2>3. QED
    BY <2>1, <2>2
<1>14. QED
  BY <1>1, <1>3, <1>4, <1>8, <1>10, <1>11, <1>12, <1>13 DEF Shape

(* The event loop sends the next message of a request to every page that is*)
(* connected; the others miss it.                                          *)
LEMMA BroadcastShape ==
    ASSUME Shape, NEW r \in Ids, Broadcast(r)
    PROVE  /\ Shape'
           /\ r \in Nat /\ Todo[r] \in Seq(Messages) /\ Todo[r] # <<>>
           /\ Head(Todo[r]) \in Messages
           /\ Todo' = [Todo EXCEPT ![r] = Tail(Todo[r])]
           /\ \A e \in Dashboards :
                 Line'[e] = IF conn[e] = 0 THEN <<>> ELSE Append(Line[e], Head(Todo[r]))
           /\ UNCHANGED <<table, cards>>
           /\ Subjects(<<Head(Todo[r])>>) \in SUBSET Threats
           /\ Muddle({d \in Dashboards : conn[d] = 0}, Subjects(<<Head(Todo[r])>>))
<1> DEFINE m == Head(Todo[r])
           sent == [s \in Sockets |-> IF s \in clients /\ Listening(s)
                                      THEN Append(feed[s], m) ELSE feed[s]]
           ws == StillWaiting(clients, sent)
           x == requests[r]
           y == [x EXCEPT !.todo = Tail(x.todo), !.waiting = ws]
<1>0. Typed
  BY DEF Shape
<1>1. /\ Ids = 1 .. Len(requests) /\ r \in Nat /\ x \in Requests /\ Todo[r] = x.todo
      /\ requests \in Seq(Requests) /\ Len(requests) \in Nat
      /\ Mailboxes(Todo)
  BY <1>0, Views DEF Typed
<1>2. x \in Request /\ x.step = "done" /\ x.todo # <<>> /\ x.todo \in Seq(Messages)
  BY <1>1, RequestParts DEF Broadcast
<1>3. m \in Messages /\ Tail(x.todo) \in Seq(Messages)
  BY <1>1, <1>2, TakenFirst
<1>4. /\ feed' = sent
      /\ clients' = {s \in clients : Listening(s)}
      /\ Muddle({d \in Dashboards : conn[d] = 0}, Subjects(<<m>>))
      /\ UNCHANGED <<table, conn, cards>>
      /\ requests' = [requests EXCEPT ![r] = y]
  BY <1>1 DEF Broadcast
<1>5. ws \in SUBSET Nat
  BY <1>0 DEF StillWaiting, Typed
<1>6. /\ y \in Request /\ y.todo = Tail(x.todo) /\ y.step = x.step
      /\ Orderly(y)
  <2> DEFINE rest == Tail(x.todo)
  <2>1. rest \in Seq(Messages) /\ y = [x EXCEPT !.todo = rest, !.waiting = ws]
    BY <1>3
  <2> HIDE DEF x, y, ws, rest
  <2>2. /\ y \in Request /\ y.todo = rest /\ y.step = x.step
        /\ y.kind = x.kind /\ y.status = x.status /\ y.about = x.about
    BY <1>2, <1>5, <2>1 DEF Request
  <2>3. QED
    BY <1>2, <2>2 DEF Orderly, rest
<1>7. Subjects(<<m>>) \in SUBSET Threats
  BY <1>3, SubjectOfOne
<1>8. /\ muddled' \in [Dashboards -> SUBSET Threats]
      /\ load' \in [Dashboards -> {NoLoad} \cup Loading]
  BY <1>4, <1>7, MuddleTyped
<1>9. /\ feed \in Seq(Seq(Messages)) /\ Len(feed) \in Nat /\ Sockets = 1 .. Len(feed)
      /\ conn \in [Dashboards -> 0 .. Len(feed)]
  BY <1>0 DEF Typed, Sockets
<1>10. /\ sent \in Seq(Seq(Messages)) /\ Len(sent) = Len(feed)
       /\ \A s \in 1 .. Len(feed) : sent[s] = IF s \in clients /\ Listening(s)
                                              THEN Append(feed[s], m) ELSE feed[s]
  <2>1. \A s \in 1 .. Len(feed) : feed[s] \in Seq(Messages) /\ Append(feed[s], m) \in Seq(Messages)
    BY <1>3, <1>9
  <2>2. sent \in [1 .. Len(feed) -> Seq(Messages)]
    BY <1>9, <2>1
  <2>3. QED
    BY <1>9, <2>2
<1>11. /\ requests' \in Seq(Requests) /\ Len(requests') = Len(requests)
       /\ \A q \in 1 .. Len(requests) : requests'[q] = IF q = r THEN y ELSE requests[q]
  <2>1. y \in Requests
    BY <1>6 DEF Requests
  <2> HIDE DEF y
  <2>2. QED
    BY <1>1, <1>4, <2>1, ExceptSeq
<1> HIDE DEF m, sent, ws, x, y
<1>12. Typed'
  BY <1>0, <1>4, <1>8, <1>9, <1>10, <1>11 DEF Typed
<1>13. Ids' = Ids
  BY <1>1, <1>11 DEF Ids
<1>14. Handling'
  BY <1>1, <1>6, <1>11, <1>13 DEF Shape, Handling
<1>15. Lines'
  BY <1>4 DEF Shape, Lines, Listening
<1>16. Todo' = [Todo EXCEPT ![r] = Tail(Todo[r])]
  <2>1. \A q \in Nat : (IF q \in Ids' THEN requests'[q].todo ELSE <<>>)
                          = IF q = r THEN Tail(Todo[r]) ELSE Todo[q]
    <3> SUFFICES ASSUME NEW q \in Nat
                 PROVE  (IF q \in Ids' THEN requests'[q].todo ELSE <<>>)
                          = IF q = r THEN Tail(Todo[r]) ELSE Todo[q]
      OBVIOUS
    <3>1. CASE q = r
      BY <1>1, <1>6, <1>11, <1>13, <3>1 DEF x
    <3>2. CASE q # r /\ q \in Ids
      <4>1. requests'[q] = requests[q]
        BY <1>1, <1>11, <3>2
      <4>2. Todo[q] = requests[q].todo
        BY <1>0, <3>2, Views
      <4>3. QED
        BY <1>13, <3>2, <4>1, <4>2
    <3>3. CASE q # r /\ q \notin Ids
      <4>1. Todo[q] = <<>>
        BY <3>3 DEF Todo
      <4>2. QED
        BY <1>13, <3>3, <4>1
    <3>4. QED
      BY <3>1, <3>2, <3>3
  <2>2. Todo' = [q \in Nat |-> IF q = r THEN Tail(Todo[r]) ELSE Todo[q]]
    BY <2>1 DEF Todo
  <2>3. [Todo EXCEPT ![r] = Tail(Todo[r])] = [q \in Nat |-> IF q = r THEN Tail(Todo[r]) ELSE Todo[q]]
    BY <1>1 DEF Mailboxes
  <2>4. QED
    BY <2>2, <2>3
<1>17. ASSUME NEW e \in Dashboards
       PROVE  Line'[e] = IF conn[e] = 0 THEN <<>> ELSE Append(Line[e], m)
  <2>1. CASE conn[e] = 0
    BY <1>4, <2>1 DEF Line
  <2>2. CASE conn[e] # 0
    <3>1. conn[e] \in 1 .. Len(feed) /\ conn[e] \in clients /\ Listening(conn[e])
      BY <1>9, <2>2 DEF Shape, Lines, Listening
    <3>2. Line[e] = feed[conn[e]] /\ Line'[e] = feed'[conn[e]]
      BY <1>4, <2>2 DEF Line
    <3>3. QED
      BY <1>4, <1>10, <2>2, <3>1, <3>2
  <2>3. QED
    BY <2>1, <2>2
<1>18. QED
  BY <1>1, <1>2, <1>3, <1>4, <1>7, <1>12, <1>14, <1>15, <1>16, <1>17 DEF Shape, m

-----------------------------------------------------------------------------
LEMMA RequestMarked ==
    ASSUME NEW x \in Requests, NEW ids \in SUBSET Threats,
           NEW y, y = [x EXCEPT !.todo = Marked(x.todo, ids)]
    PROVE  /\ y \in Requests /\ y.todo = Marked(x.todo, ids) /\ y.step = x.step
           /\ Orderly(x) => Orderly(y)
           /\ x \in Request => y \in Request
<1>1. x.todo \in Seq(Messages)
  BY RequestParts
<1>2. Marked(x.todo, ids) \in Seq(Messages) /\ (x.todo = <<>> => Marked(x.todo, ids) = <<>>)
  BY <1>1, MarkedMessages
<1>3. CASE x = Answered
  <2>1. x.todo = <<>> /\ Marked(x.todo, ids) = <<>>
    BY <1>2, <1>3 DEF Answered
  <2>2. y = x
    BY <1>3, <2>1 DEF Answered
  <2>3. QED
    BY <2>1, <2>2
<1>4. CASE x \in Request
  <2>1. /\ y \in Request /\ y.todo = Marked(x.todo, ids) /\ y.step = x.step /\ y.kind = x.kind
        /\ y.status = x.status /\ y.about = x.about
    BY <1>2, <1>4 DEF Request
  <2>2. QED
    BY <1>2, <2>1 DEF Orderly, Requests
<1>5. QED
  BY <1>3, <1>4 DEF Requests

(* What a handler has to tell of a row that it wrote.                      *)
LEMMA EnvelopeTold ==
    ASSUME Shape, NEW r \in Ids, requests[r].step = "working", NEW i \in Writes(requests[r])
    PROVE  /\ i \in Threats
           /\ requests[r].kind # "policy"
           /\ Row(requests[r], i) \in Written
           /\ Envelope(requests[r], i) \in Told
           /\ Envelope(requests[r], i).id = i
           /\ Envelope(requests[r], i).card = Row(requests[r], i)
           /\ ~Envelope(requests[r], i).late
           /\ Verdict(Envelope(requests[r], i)) => requests[r].kind = "verdict"
           /\ Decided(table[i]) => requests[r].kind = "verdict"
           /\ requests[r].kind = "verdict" =>
                 /\ Decided(Row(requests[r], i))
                 /\ Row(requests[r], i).version = table[i].version
<1> DEFINE x == requests[r]
<1>1. x \in Request /\ Orderly(x)
  BY Views, RequestParts DEF Shape, Handling
<1>2. i \in x.about /\ x.about \in SUBSET Threats /\ x.kind \in {"batch", "verdict", "policy"}
  BY <1>1 DEF Writes, Request
<1>3. i \in Threats /\ table[i] \in Rows
  BY <1>2 DEF Shape, Typed
<1>4. x.kind # "policy"
  BY <1>1, <1>2 DEF Orderly
<1> HIDE DEF x
<1>5. CASE x.kind = "batch"
  <2>1. ~Decided(table[i])
    BY <1>5 DEF Writes, x
  <2>2. table[i].version \in Nat
    BY <1>3 DEF Rows, Written, NoCard
  <2>3. Row(x, i) = [version |-> table[i].version + 1, status |-> "open"]
    BY <1>5 DEF Row
  <2>4. Row(x, i) \in Written
    BY <2>2, <2>3 DEF Written
  <2>5. Envelope(x, i) = [type |-> "threat", id |-> i, card |-> Row(x, i), late |-> FALSE]
    BY <1>5 DEF Envelope
  <2>6. QED
    BY <1>3, <1>4, <1>5, <2>1, <2>4, <2>5 DEF x, Told, Verdict
<1>6. CASE x.kind = "verdict"
  <2>1. table[i] \in Written
    BY <1>3, <1>6 DEF Writes, Rows, x
  <2>2. x.status \in {"blocked", "dismissed"}
    BY <1>1, <1>6 DEF Orderly, x
  <2>3. Row(x, i) = [table[i] EXCEPT !.status = x.status]
    BY <1>6 DEF Row
  <2>4. Row(x, i) \in Written /\ Row(x, i).version = table[i].version /\ Row(x, i).status = x.status
    BY <2>1, <2>2, <2>3 DEF Written
  <2>5. Envelope(x, i) = [type |-> "feedback", id |-> i, card |-> Row(x, i), late |-> FALSE]
    BY <1>6 DEF Envelope
  <2>6. QED
    BY <1>3, <1>4, <1>6, <2>2, <2>4, <2>5 DEF x, Told, Verdict, Decided
<1>7. QED
  BY <1>2, <1>4, <1>5, <1>6 DEF x

(* What a commit writes, and tells.                                        *)
LEMMA CommitShape ==
    ASSUME Shape, NEW r \in Ids, Commit(r)
    PROVE  /\ Shape'
           /\ Line' = Line
           /\ r \in Nat /\ Todo[r] = <<>>
           /\ UNCHANGED pageVars
           /\ \E ids \in SUBSET Threats : \E s :
                 /\ Todo' = Committed(Todo, r, ids, s)
                 /\ Announces(s, ids, table')
                 /\ \A i \in Threats \ ids : table'[i] = table[i]
                 /\ \A i \in ids : Decided(table[i]) =>
                       Decided(table'[i]) /\ table'[i].version = table[i].version
                 /\ \A k \in DOMAIN s : \A i \in Threats : Tells(s[k], i) /\ Verdict(s[k]) =>
                       Decided(table'[i]) /\ table'[i].version = table[i].version
<1> DEFINE x == requests[r]
           ids == Writes(x)
<1>0. Typed
  BY DEF Shape
<1>1. /\ Ids = 1 .. Len(requests) /\ r \in Nat /\ x \in Requests /\ Todo[r] = x.todo
      /\ requests \in Seq(Requests) /\ Len(requests) \in Nat
      /\ Mailboxes(Todo)
  BY <1>0, Views DEF Typed
<1>2. x \in Request /\ x.step = "working" /\ x.todo = <<>> /\ Orderly(x)
  BY <1>1, RequestParts DEF Commit, Shape, Handling, Orderly
<1>3. ids \in SUBSET Threats
  BY <1>2 DEF Writes, Request
<1>4. /\ table' = [i \in Threats |-> IF i \in ids THEN Row(x, i) ELSE table[i]]
      /\ UNCHANGED <<clients, feed, conn, pageVars>>
  BY DEF Commit
<1>5. PICK order \in SetToSeqs(ids) :
         requests' = [MadeLate(ids) EXCEPT
             ![r].step = "done",
             ![r].todo = IF x.kind = "policy" THEN <<PolicyUpdate>>
                         ELSE [k \in DOMAIN order |-> Envelope(x, order[k])]]
  BY DEF Commit
<1> DEFINE s == IF x.kind = "policy" THEN <<PolicyUpdate>>
                ELSE [k \in DOMAIN order |-> Envelope(x, order[k])]
           marked(q) == [requests[q] EXCEPT !.todo = Marked(requests[q].todo, ids)]
<1>6. \A i \in ids :
         /\ i \in Threats /\ x.kind # "policy"
         /\ Row(x, i) \in Written
         /\ Envelope(x, i) \in Told
         /\ Envelope(x, i).id = i
         /\ Envelope(x, i).card = Row(x, i)
         /\ ~Envelope(x, i).late
         /\ Verdict(Envelope(x, i)) => x.kind = "verdict"
         /\ Decided(table[i]) => x.kind = "verdict"
         /\ x.kind = "verdict" => Decided(Row(x, i)) /\ Row(x, i).version = table[i].version
  BY <1>2, EnvelopeTold
<1>7. table' \in [Threats -> Rows]
  <2>1. \A i \in Threats : (IF i \in ids THEN Row(x, i) ELSE table[i]) \in Rows
    BY <1>0, <1>6 DEF Rows, Typed
  <2>2. QED
    BY <1>4, <2>1
<1>8. /\ order \in [1 .. Cardinality(ids) -> ids] /\ Cardinality(ids) \in Nat
      /\ \A j, k \in 1 .. Cardinality(ids) : order[j] = order[k] => j = k
      /\ \A i \in ids : \E k \in 1 .. Cardinality(ids) : order[k] = i
  <2>1. IsFiniteSet(ids) /\ Cardinality(ids) \in Nat
    BY <1>3, ConsoleAssumption, FS_Subset, FS_CardinalityType
  <2>2. /\ order \in [1 .. Cardinality(ids) -> ids]
        /\ \A j, k \in 1 .. Cardinality(ids) : j # k => order[j] # order[k]
    BY DEF SetToSeqs
  <2>3. order \in Injection(1 .. Cardinality(ids), ids)
    BY <2>2, Fun_IsInj
  <2>4. Cardinality(1 .. Cardinality(ids)) = Cardinality(ids)
    BY <2>1, FS_Interval
  <2>5. order \in Surjection(1 .. Cardinality(ids), ids)
    BY <2>1, <2>3, <2>4, FS_Injection
  <2>6. QED
    BY <2>1, <2>2, <2>5, Fun_SurjectionProperties
<1>9. /\ s \in Seq(Messages)
      /\ \A k \in DOMAIN s : \A i \in Threats : Tells(s[k], i) =>
            /\ i \in ids /\ s[k].card = Row(x, i) /\ ~s[k].late
            /\ Verdict(s[k]) => x.kind = "verdict"
      /\ \A k, l \in DOMAIN s : \A i \in Threats : Tells(s[k], i) /\ Tells(s[l], i) => k = l
      /\ \A i \in ids : \E k \in DOMAIN s : Tells(s[k], i)
  <2>1. CASE x.kind = "policy"
    <3>1. s = <<PolicyUpdate>> /\ PolicyUpdate \in Messages /\ ids = {}
      BY <1>6, <2>1 DEF Messages
    <3>2. s \in Seq(Messages) /\ DOMAIN s = {1} /\ s[1] = PolicyUpdate
      BY <3>1
    <3>3. \A i : ~Tells(PolicyUpdate, i)
      BY DEF Tells, About, PolicyUpdate
    <3>4. QED
      BY <3>1, <3>2, <3>3
  <2>2. CASE x.kind # "policy"
    <3> DEFINE n == Cardinality(ids)
    <3>1. s = [k \in 1 .. n |-> Envelope(x, order[k])]
      BY <1>8, <2>2
    <3>2. \A k \in 1 .. n : order[k] \in ids /\ Envelope(x, order[k]) \in Messages
      BY <1>6, <1>8 DEF Messages
    <3> HIDE DEF n, s, x, ids
    <3>3. s \in [1 .. n -> Messages] /\ DOMAIN s = 1 .. n
      BY <3>1, <3>2
    <3>4. s \in Seq(Messages)
      BY <1>8, <3>3, SeqDef DEF n
    <3>5. \A k \in 1 .. n : \A i \in Threats : Tells(s[k], i) <=> i = order[k]
      <4> SUFFICES ASSUME NEW k \in 1 .. n, NEW i \in Threats
                   PROVE  Tells(s[k], i) <=> i = order[k]
        OBVIOUS
      <4>1. s[k] = Envelope(x, order[k]) /\ s[k] \in Told /\ s[k].id = order[k] /\ s[k] \in Messages
        BY <1>6, <3>1, <3>2
      <4>2. QED
        BY <4>1, TellsWhat
    <3>6. \A k \in 1 .. n : \A i \in Threats : Tells(s[k], i) =>
            /\ i \in ids /\ s[k].card = Row(x, i) /\ ~s[k].late
            /\ Verdict(s[k]) => x.kind = "verdict"
      <4> SUFFICES ASSUME NEW k \in 1 .. n, NEW i \in Threats, Tells(s[k], i)
                   PROVE  /\ i \in ids /\ s[k].card = Row(x, i) /\ ~s[k].late
                          /\ Verdict(s[k]) => x.kind = "verdict"
        OBVIOUS
      <4>1. i = order[k] /\ i \in ids /\ s[k] = Envelope(x, i)
        BY <3>1, <3>2, <3>5
      <4>2. QED
        BY <1>6, <4>1
    <3>7. \A k, l \in 1 .. n : \A i \in Threats : Tells(s[k], i) /\ Tells(s[l], i) => k = l
      BY <1>8, <3>5 DEF n
    <3>8. \A i \in ids : \E k \in 1 .. n : Tells(s[k], i)
      BY <1>6, <1>8, <3>5 DEF n
    <3>9. QED
      BY <3>3, <3>4, <3>6, <3>7, <3>8
  <2>3. QED
    BY <2>1, <2>2
<1>10. Announces(s, ids, table')
  <2>1. \A i \in ids : table'[i] = Row(x, i)
    BY <1>3, <1>4
  <2> HIDE DEF s, ids, x
  <2>2. QED
    BY <1>9, <2>1 DEF Announces
<1>11. ASSUME NEW q \in Ids
       PROVE  /\ marked(q) \in Requests
              /\ marked(q).todo = Marked(requests[q].todo, ids)
              /\ marked(q).step = requests[q].step
              /\ Orderly(marked(q))
              /\ requests[q] \in Request => marked(q) \in Request
  <2> DEFINE y == marked(q)
  <2>1. requests[q] \in Requests /\ Orderly(requests[q])
    BY <1>0, Views DEF Shape, Handling
  <2>2. y = [requests[q] EXCEPT !.todo = Marked(requests[q].todo, ids)]
    OBVIOUS
  <2> HIDE DEF y, ids
  <2>3. /\ y \in Requests
        /\ y.todo = Marked(requests[q].todo, ids)
        /\ y.step = requests[q].step
        /\ Orderly(y)
        /\ requests[q] \in Request => y \in Request
    BY <1>3, <2>1, <2>2, RequestMarked
  <2>4. QED
    BY <2>3 DEF y
<1>12. MadeLate(ids) = [q \in Ids |-> marked(q)]
  BY DEF MadeLate, Marked
<1> DEFINE z == [marked(r) EXCEPT !.step = "done", !.todo = s]
<1>13. z \in Requests /\ z.todo = s /\ Orderly(z)
  <2>1. marked(r) \in Request
    BY <1>2, <1>11
  <2> HIDE DEF s, marked
  <2>2. z \in Request /\ z.todo = s /\ z.step = "done"
    BY <1>9, <2>1 DEF Request
  <2> HIDE DEF z
  <2>3. QED
    BY <2>2 DEF Requests, Orderly
<1>14. requests' = [q \in Ids |-> IF q = r THEN z ELSE marked(q)]
  BY <1>5, <1>12
<1> HIDE DEF z, s, marked, ids, x
<1>15. /\ requests' \in Seq(Requests) /\ Len(requests') = Len(requests)
       /\ \A q \in Ids : requests'[q] = IF q = r THEN z ELSE marked(q)
  <2>1. requests' \in [1 .. Len(requests) -> Requests]
    BY <1>1, <1>11, <1>13, <1>14
  <2>2. QED
    BY <1>1, <1>14, <2>1
<1>16. Ids' = Ids
  BY <1>1, <1>15 DEF Ids
<1>17. Typed'
  BY <1>0, <1>4, <1>7, <1>15 DEF Typed, pageVars
<1>18. Handling'
  BY <1>11, <1>13, <1>15, <1>16 DEF Handling
<1>19. Lines' /\ Line' = Line
  BY <1>4, SameLines DEF Shape, Lines
<1>20. Todo' = Committed(Todo, r, ids, s)
  <2>1. ASSUME NEW q \in Nat
        PROVE  (IF q \in Ids' THEN requests'[q].todo ELSE <<>>)
                   = IF q = r THEN s ELSE Marked(Todo[q], ids)
    <3>1. CASE q = r
      BY <1>13, <1>15, <1>16, <3>1
    <3>2. CASE q # r /\ q \in Ids
      <4>1. Todo[q] = requests[q].todo
        BY <1>0, <3>2, Views
      <4>2. QED
        BY <1>11, <1>15, <1>16, <3>2, <4>1
    <3>3. CASE q # r /\ q \notin Ids
      <4>1. Todo[q] = <<>> /\ <<>> \in Seq(Messages)
        BY <3>3 DEF Todo
      <4>2. Marked(<<>>, ids) = <<>>
        BY DEF Marked
      <4>3. QED
        BY <1>16, <3>3, <4>1, <4>2
    <3>4. QED
      BY <3>1, <3>2, <3>3
  <2>2. QED
    BY <2>1 DEF Todo, Committed
<1>21. /\ \A i \in Threats \ ids : table'[i] = table[i]
       /\ \A i \in ids : table'[i] = Row(x, i)
  BY <1>3, <1>4 DEF ids, x
<1>22. \A i \in ids : Decided(table[i]) => Decided(table'[i]) /\ table'[i].version = table[i].version
  BY <1>6, <1>21 DEF ids, x
<1>23. \A k \in DOMAIN s : \A i \in Threats : Tells(s[k], i) /\ Verdict(s[k]) =>
          Decided(table'[i]) /\ table'[i].version = table[i].version
  <2> SUFFICES ASSUME NEW k \in DOMAIN s, NEW i \in Threats, Tells(s[k], i), Verdict(s[k])
               PROVE  Decided(table'[i]) /\ table'[i].version = table[i].version
    OBVIOUS
  <2>1. i \in ids /\ x.kind = "verdict"
    BY <1>9 DEF s, ids, x
  <2>2. QED
    BY <1>6, <1>21, <2>1 DEF ids, x
<1>24. QED
  BY <1>1, <1>2, <1>3, <1>4, <1>10, <1>17, <1>18, <1>19, <1>20, <1>21, <1>22, <1>23 DEF Shape, x

-----------------------------------------------------------------------------
(* The steps that change nothing of what is shown, told or to be told ...  *)
Quiet == /\ Todo' = Todo /\ Line' = Line
         /\ UNCHANGED <<table, cards, load, muddled>>

(* ... and the others.                                                     *)
Loud == \/ \E r \in Ids : Commit(r) \/ Broadcast(r)
        \/ \E d \in Dashboards : \/ conn[d] # 0 /\ Closes(d)
                                 \/ BeginLoad(d) \/ EndLoad(d) \/ Receive(d)

LEMMA ShapeNext ==
    ASSUME Shape, [Next]_vars
    PROVE  Shape' /\ (Quiet \/ Loud)
<1>1. ASSUME Arrivals
      PROVE  Shape' /\ Quiet
  BY <1>1, ArrivalsShape DEF Quiet, pageVars
<1>2. ASSUME NEW r \in Ids, Handler(r)
      PROVE  Shape' /\ (Quiet \/ Loud)
  <2>1. CASE Acquire(r)
    BY <2>1, AcquireShape DEF Quiet, pageVars
  <2>2. CASE Commit(r)
    BY <2>2, CommitShape DEF Loud
  <2>3. CASE Broadcast(r)
    BY <2>3, BroadcastShape DEF Loud
  <2>4. CASE Answer(r)
    BY <2>4, AnswerShape DEF Quiet, pageVars
  <2>5. QED
    BY <1>2, <2>1, <2>2, <2>3, <2>4 DEF Handler
<1>3. ASSUME NEW s \in Sockets, NoticeClosed(s)
      PROVE  Shape' /\ Quiet
  BY <1>3, NoticeShape DEF Quiet, pageVars
<1>4. ASSUME NEW d \in Dashboards, Page(d)
      PROVE  Shape' /\ (Quiet \/ Loud)
  <2>1. CASE SocketOpens(d)
    <3>1. /\ Shape' /\ Todo' = Todo /\ \A e \in Dashboards : Line'[e] = Line[e]
          /\ UNCHANGED <<table, pageVars>>
      BY <2>1, SocketOpensShape
    <3>2. Line' = Line
      BY <3>1 DEF Line
    <3>3. QED
      BY <3>1, <3>2 DEF Quiet, pageVars
  <2>2. CASE conn[d] # 0 /\ Closes(d)
    BY <2>2, ClosesShape DEF Loud
  <2>3. CASE BeginLoad(d) \/ EndLoad(d)
    BY <2>3, LoadShape DEF Loud
  <2>4. CASE Receive(d)
    BY <2>4, ReceiveShape DEF Loud
  <2>5. Closes(d) => conn[d] # 0
    BY DEF Closes
  <2>6. QED
    BY <1>4, <2>1, <2>2, <2>3, <2>4, <2>5 DEF Page, SocketBreaks, KeepAlive
<1>5. CASE UNCHANGED vars
  <2>1. UNCHANGED <<table, requests, clients, feed, conn, cards, load, muddled>>
    BY <1>5 DEF vars, serverVars, pageVars
  <2>2. Typed' /\ Handling' /\ Lines'
    BY <2>1 DEF Shape, Typed, Handling, Lines, Ids
  <2>3. Todo' = Todo /\ Line' = Line
    BY <2>1 DEF Todo, Line, Ids
  <2>4. QED
    BY <2>1, <2>2, <2>3 DEF Shape, Quiet
<1>6. QED
  BY <1>1, <1>2, <1>3, <1>4, <1>5 DEF Next

-----------------------------------------------------------------------------
(* A decided row is final: what a message or a card says of it stays so.   *)
Frozen(old, new) ==
    \A i \in Threats : Decided(old[i]) => Decided(new[i]) /\ new[i].version = old[i].version

LEMMA BackedStays ==
    ASSUME NEW old, NEW new, Frozen(old, new)
    PROVE  /\ \A m : Backed(m, old) => Backed(m, new)
           /\ \A s : AllBacked(s, old) => AllBacked(s, new)
           /\ \A c : BackedCards(c, old) => BackedCards(c, new)
<1>1. ASSUME NEW m, Backed(m, old)
      PROVE  Backed(m, new)
  BY <1>1 DEF Backed, Frozen
<1>2. \A s : AllBacked(s, old) => AllBacked(s, new)
  BY <1>1 DEF AllBacked
<1>3. \A c : BackedCards(c, old) => BackedCards(c, new)
  BY DEF BackedCards, Frozen
<1>4. QED
  BY <1>1, <1>2, <1>3

LEMMA BackedLine ==
    ASSUME NEW s \in Seq(Messages), NEW tbl, AllBacked(s, tbl)
    PROVE  /\ \A m \in Messages : Backed(m, tbl) => AllBacked(Append(s, m), tbl)
           /\ s # <<>> => AllBacked(Tail(s), tbl) /\ Backed(Head(s), tbl)
           /\ AllBacked(<<>>, tbl)
<1>1. ASSUME NEW m \in Messages, Backed(m, tbl)
      PROVE  AllBacked(Append(s, m), tbl)
  <2>1. \A k \in DOMAIN Append(s, m) :
           \/ k \in DOMAIN s /\ Append(s, m)[k] = s[k]
           \/ Append(s, m)[k] = m
    BY AddedAtEnd
  <2>2. QED
    BY <1>1, <2>1 DEF AllBacked
<1>2. ASSUME s # <<>>
      PROVE  AllBacked(Tail(s), tbl) /\ Backed(Head(s), tbl)
  <2>1. /\ Head(s) = s[1] /\ 1 \in DOMAIN s
        /\ \A k \in DOMAIN Tail(s) : k + 1 \in DOMAIN s /\ Tail(s)[k] = s[k + 1]
    <3>1. Len(s) \in Nat \ {0} /\ DOMAIN s = 1 .. Len(s)
      BY <1>2, TakenFirst
    <3>2. QED
      BY <1>2, <3>1, TakenFirst
  <2>2. QED
    BY <2>1 DEF AllBacked
<1>3. AllBacked(<<>>, tbl)
  BY DEF AllBacked
<1>4. QED
  BY <1>1, <1>2, <1>3

LEMMA ClosedInit == Init => Closed
<1> SUFFICES ASSUME Init PROVE Closed
  OBVIOUS
<1>1. Ids = {} /\ \A d \in Dashboards : conn[d] = 0
  BY DEF Init, Ids
<1>2. \A i \in Threats : ~Decided(table[i])
  BY DEF Init, Decided, NoCard
<1>3. (\A r \in Nat : Todo[r] = <<>>) /\ (\A d \in Dashboards : Line[d] = <<>>)
  BY <1>1 DEF Todo, Line
<1>4. \A d \in Dashboards : cards[d] = table /\ load[d] = NoLoad
  BY DEF Init
<1>5. QED
  BY <1>2, <1>3, <1>4 DEF Closed, AllBacked, BackedCards

LEMMA ClosedCommit ==
    ASSUME Shape, Closed, NEW r \in Ids, Commit(r)
    PROVE  Closed'
<1>1. /\ Line' = Line /\ r \in Nat
      /\ UNCHANGED <<cards, load>>
      /\ \E ids \in SUBSET Threats : \E s :
            /\ Todo' = Committed(Todo, r, ids, s)
            /\ Announces(s, ids, table')
            /\ \A i \in Threats \ ids : table'[i] = table[i]
            /\ \A i \in ids : Decided(table[i]) =>
                  Decided(table'[i]) /\ table'[i].version = table[i].version
            /\ \A k \in DOMAIN s : \A i \in Threats : Tells(s[k], i) /\ Verdict(s[k]) =>
                  Decided(table'[i]) /\ table'[i].version = table[i].version
  BY CommitShape DEF pageVars
<1>2. PICK ids \in SUBSET Threats :
         \E s : /\ Todo' = Committed(Todo, r, ids, s)
                /\ Announces(s, ids, table')
                /\ \A i \in Threats \ ids : table'[i] = table[i]
                /\ \A i \in ids : Decided(table[i]) =>
                      Decided(table'[i]) /\ table'[i].version = table[i].version
                /\ \A k \in DOMAIN s : \A i \in Threats : Tells(s[k], i) /\ Verdict(s[k]) =>
                      Decided(table'[i]) /\ table'[i].version = table[i].version
  BY <1>1
<1>3. PICK s : /\ Todo' = Committed(Todo, r, ids, s)
               /\ Announces(s, ids, table')
               /\ \A i \in Threats \ ids : table'[i] = table[i]
               /\ \A i \in ids : Decided(table[i]) =>
                     Decided(table'[i]) /\ table'[i].version = table[i].version
               /\ \A k \in DOMAIN s : \A i \in Threats : Tells(s[k], i) /\ Verdict(s[k]) =>
                     Decided(table'[i]) /\ table'[i].version = table[i].version
  BY <1>2
<1>4. Frozen(table, table')
  BY <1>3 DEF Frozen
<1>5. /\ \A m : Backed(m, table) => Backed(m, table')
      /\ \A t : AllBacked(t, table) => AllBacked(t, table')
      /\ \A c : BackedCards(c, table) => BackedCards(c, table')
  BY <1>4, BackedStays
<1>6. AllBacked(s, table')
  <2> SUFFICES ASSUME NEW k \in DOMAIN s, NEW i \in Threats, Tells(s[k], i)
               PROVE  /\ Decided(s[k].card) => Decided(table'[i])
                      /\ Verdict(s[k]) => /\ Decided(s[k].card)
                                          /\ s[k].card.version = table'[i].version
    BY DEF AllBacked, Backed
  <2>1. s[k].card = table'[i]
    BY <1>3 DEF Announces
  <2>2. QED
    BY <1>3, <2>1
<1>7. ASSUME NEW q \in Nat, q # r
      PROVE  AllBacked(Marked(Todo[q], ids), table')
  <2> DEFINE t == Marked(Todo[q], ids)
  <2>1. Todo[q] \in Seq(Messages)
    BY Views DEF Shape, Mailboxes
  <2>2. AllBacked(Todo[q], table')
    BY <1>5 DEF Closed
  <2> HIDE DEF t
  <2>3. /\ DOMAIN t = DOMAIN Todo[q]
        /\ \A k \in DOMAIN Todo[q] :
              /\ \A i \in Threats : Tells(t[k], i) <=> Tells(Todo[q][k], i)
              /\ Verdict(t[k]) <=> Verdict(Todo[q][k])
              /\ \A i \in Threats : Tells(Todo[q][k], i) => t[k].card = Todo[q][k].card
    BY <2>1, MarkedMessages DEF t
  <2>4. AllBacked(t, table')
    BY <2>2, <2>3 DEF AllBacked, Backed
  <2>5. QED
    BY <2>4 DEF t
<1>8. \A q \in Nat : AllBacked(Todo'[q], table')
  <2>1. \A q \in Nat : Todo'[q] = IF q = r THEN s ELSE Marked(Todo[q], ids)
    BY <1>3 DEF Committed
  <2>2. QED
    BY <1>6, <1>7, <2>1
<1>9. QED
  BY <1>1, <1>5, <1>8 DEF Closed

LEMMA ClosedBroadcast ==
    ASSUME Shape, Closed, NEW r \in Ids, Broadcast(r)
    PROVE  Closed'
<1> DEFINE m == Head(Todo[r])
           gone == {d \in Dashboards : conn[d] = 0}
<1>1. /\ r \in Nat /\ Todo[r] \in Seq(Messages) /\ Todo[r] # <<>>
      /\ m \in Messages
      /\ Todo' = [Todo EXCEPT ![r] = Tail(Todo[r])]
      /\ \A e \in Dashboards :
            Line'[e] = IF conn[e] = 0 THEN <<>> ELSE Append(Line[e], m)
      /\ UNCHANGED <<table, cards>>
      /\ Subjects(<<m>>) \in SUBSET Threats
      /\ Muddle(gone, Subjects(<<m>>))
  BY BroadcastShape
<1>2. \A e \in Dashboards : load'[e] # NoLoad => load[e] # NoLoad /\ load'[e].table = load[e].table
  BY <1>1, MuddleTyped
<1>3. AllBacked(Todo[r], table)
  BY <1>1 DEF Closed
<1>4. AllBacked(Tail(Todo[r]), table) /\ Backed(m, table) /\ AllBacked(<<>>, table)
  BY <1>1, <1>3, BackedLine
<1> HIDE DEF m, gone
<1>5. \A q \in Nat : AllBacked(Todo'[q], table)
  <2>1. \A q \in Nat : Todo'[q] = IF q = r THEN Tail(Todo[r]) ELSE Todo[q]
    BY <1>1 DEF Todo
  <2>2. QED
    BY <1>4, <2>1 DEF Closed
<1>6. \A e \in Dashboards : AllBacked(Line'[e], table)
  <2> SUFFICES ASSUME NEW e \in Dashboards
               PROVE  AllBacked(Line'[e], table)
    OBVIOUS
  <2>1. Line[e] \in Seq(Messages) /\ AllBacked(Line[e], table)
    BY Views DEF Shape, Closed
  <2>2. AllBacked(Append(Line[e], m), table)
    BY <1>1, <1>4, <2>1, BackedLine
  <2>3. QED
    BY <1>1, <1>4, <2>2
<1>7. QED
  BY <1>1, <1>2, <1>5, <1>6 DEF Closed

LEMMA ClosedReceive ==
    ASSUME Shape, Closed, NEW d \in Dashboards, Receive(d)
    PROVE  Closed'
<1> DEFINE m == Head(Line[d])
<1>1. /\ Todo' = Todo /\ UNCHANGED table
      /\ Line[d] # <<>> /\ Line[d] \in Seq(Messages)
      /\ \A e \in Dashboards : Line'[e] = IF e = d THEN Tail(Line[d]) ELSE Line[e]
      /\ Reads(d, m)
  BY ReceiveShape
<1>2. m \in Messages
  BY <1>1, TakenFirst
<1>3. AllBacked(Tail(Line[d]), table) /\ Backed(m, table)
  BY <1>1, BackedLine DEF Closed
<1> HIDE DEF m
<1>4. /\ \A e \in Dashboards : e # d => cards'[e] = cards[e] /\ load'[e] = load[e]
      /\ \A i \in Threats :
            cards'[d][i] = IF Tells(m, i) THEN Shown(cards[d][i], m) ELSE cards[d][i]
      /\ load'[d] # NoLoad => load[d] # NoLoad /\ load'[d].table = load[d].table
  BY <1>1, <1>2, ReadsTyped
<1>5. BackedCards(cards'[d], table)
  <2> SUFFICES ASSUME NEW i \in Threats, Decided(cards'[d][i])
               PROVE  Decided(table[i])
    BY DEF BackedCards
  <2>1. CASE Tells(m, i)
    <3>1. m \in Told /\ cards[d][i] \in Rows /\ Decided(Shown(cards[d][i], m))
      BY <1>2, <1>4, <2>1, TellsWhat DEF Shape, Typed
    <3>2. Decided(m.card)
      BY <3>1, ShownRow
    <3>3. QED
      BY <1>3, <2>1, <3>2 DEF Backed
  <2>2. CASE ~Tells(m, i)
    BY <1>4, <2>2 DEF Closed, BackedCards
  <2>3. QED
    BY <2>1, <2>2
<1>6. QED
  BY <1>1, <1>3, <1>4, <1>5 DEF Closed

LEMMA ClosedNext ==
    ASSUME Shape, Closed, [Next]_vars
    PROVE  Closed'
<1>1. CASE Quiet
  BY <1>1 DEF Quiet, Closed
<1>2. ASSUME NEW d \in Dashboards, conn[d] # 0, Closes(d)
      PROVE  Closed'
  <2>1. /\ Todo' = Todo /\ UNCHANGED <<table, cards>>
        /\ \A e \in Dashboards : Line'[e] = IF e = d THEN <<>> ELSE Line[e]
        /\ Subjects(Line[d]) \in SUBSET Threats
        /\ Muddle({d}, Subjects(Line[d]))
    BY <1>2, ClosesShape
  <2>2. \A e \in Dashboards : load'[e] # NoLoad => load[e] # NoLoad /\ load'[e].table = load[e].table
    BY <2>1, MuddleTyped
  <2>3. AllBacked(<<>>, table)
    BY DEF AllBacked
  <2>4. QED
    BY <2>1, <2>2, <2>3 DEF Closed
<1>3. ASSUME NEW d \in Dashboards, BeginLoad(d)
      PROVE  Closed'
  <2>1. Todo' = Todo /\ Line' = Line /\ UNCHANGED <<table, cards>>
    BY <1>3, LoadShape DEF BeginLoad
  <2>2. \A e \in Dashboards : load'[e] # NoLoad =>
           load'[e].table = table \/ (load[e] # NoLoad /\ load'[e] = load[e])
    BY <1>3 DEF BeginLoad, Shape, Typed
  <2>3. BackedCards(table, table)
    BY DEF BackedCards
  <2>4. QED
    BY <2>1, <2>2, <2>3 DEF Closed
<1>4. ASSUME NEW d \in Dashboards, EndLoad(d)
      PROVE  Closed'
  <2>1. Todo' = Todo /\ Line' = Line /\ UNCHANGED table
    BY <1>4, LoadShape
  <2>2. /\ load[d] # NoLoad
        /\ \A e \in Dashboards : /\ cards'[e] = IF e = d THEN load[d].table ELSE cards[e]
                                 /\ load'[e] # NoLoad => load'[e] = load[e]
    BY <1>4 DEF EndLoad, Shape, Typed
  <2>3. QED
    BY <2>1, <2>2 DEF Closed
<1>5. Quiet \/ Loud
  BY ShapeNext
<1>6. QED
  BY <1>1, <1>2, <1>3, <1>4, <1>5, ClosedCommit, ClosedBroadcast, ClosedReceive DEF Loud

-----------------------------------------------------------------------------
LEMMA NewsInit == Init => NewsIsTrue /\ Truth
<1> SUFFICES ASSUME Init PROVE NewsIsTrue /\ Truth
  OBVIOUS
<1>1. Ids = {} /\ \A d \in Dashboards : conn[d] = 0
  BY DEF Init, Ids
<1>2. (\A r \in Nat : Todo[r] = <<>>) /\ (\A d \in Dashboards : Line[d] = <<>>)
  BY <1>1 DEF Todo, Line
<1>3. NewsIsTrue
  BY <1>2 DEF NewsIsTrue, NewsIsTrueOf
<1>4. ASSUME NEW d \in Dashboards, NEW i \in Threats
      PROVE  TruthOf(d, i)
  <2>1. /\ ~Fresh(Todo, i) /\ ~FreshVerdict(Todo, i)
        /\ cards[d][i] = table[i] /\ load[d] = NoLoad
    BY <1>2 DEF Fresh, FreshVerdict, Init
  <2>2. QED
    BY <1>2, <2>1, NothingQueued DEF TruthOf, Agrees
<1>5. QED
  BY <1>3, <1>4 DEF Truth

LEMMA NewsNext ==
    ASSUME Shape, NewsIsTrue, [Next]_vars
    PROVE  NewsIsTrue'
<1>1. CASE Todo' = Todo /\ table' = table
  BY <1>1 DEF NewsIsTrue
<1>2. ASSUME NEW r \in Ids, Commit(r)
      PROVE  NewsIsTrue'
  <2>1. /\ r \in Nat /\ Todo[r] = <<>>
        /\ \E ids \in SUBSET Threats : \E s :
              /\ Todo' = Committed(Todo, r, ids, s)
              /\ Announces(s, ids, table')
              /\ \A i \in Threats \ ids : table'[i] = table[i]
    BY <1>2, CommitShape
  <2>2. PICK ids \in SUBSET Threats :
           \E s : /\ Todo' = Committed(Todo, r, ids, s)
                  /\ Announces(s, ids, table')
                  /\ \A i \in Threats \ ids : table'[i] = table[i]
    BY <2>1
  <2>3. PICK s : /\ Todo' = Committed(Todo, r, ids, s)
                 /\ Announces(s, ids, table')
                 /\ \A i \in Threats \ ids : table'[i] = table[i]
    BY <2>2
  <2>4. Mailboxes(Todo) /\ NewsIsTrueOf(Todo, table)
    BY Views DEF Shape, NewsIsTrue
  <2>5. NewsIsTrueOf(Committed(Todo, r, ids, s), table')
    BY <2>1, <2>3, <2>4, CommitTells
  <2>6. QED
    BY <2>3, <2>5 DEF NewsIsTrue
<1>3. ASSUME NEW r \in Ids, Broadcast(r)
      PROVE  NewsIsTrue'
  <2>1. /\ r \in Nat /\ Todo[r] # <<>>
        /\ Todo' = [Todo EXCEPT ![r] = Tail(Todo[r])]
        /\ table' = table
    BY <1>3, BroadcastShape
  <2>2. Todo \in [Nat -> Seq(Messages)] /\ NewsIsTrueOf(Todo, table)
    BY Views DEF Shape, NewsIsTrue, Mailboxes
  <2>3. NewsIsTrueOf([Todo EXCEPT ![r] = Tail(Todo[r])], table)
    BY <2>1, <2>2, SentTruth
  <2>4. QED
    BY <2>1, <2>3 DEF NewsIsTrue
<1>4. Quiet \/ Loud
  BY ShapeNext
<1>5. QED
  BY <1>1, <1>2, <1>3, <1>4, ClosesShape, LoadShape, ReceiveShape DEF Quiet, Loud

-----------------------------------------------------------------------------
(* What may be said when more is due, or the page distrusts its card more. *)
LEMMA Weaker ==
    ASSUME NEW f, NEW i, NEW row, NEW fresh, NEW verdict, NEW fresh2, NEW verdict2,
           ~fresh2 => ~fresh, verdict2 => verdict
    PROVE  /\ EndsRight(f, i, row, fresh, verdict) => EndsRight(f, i, row, fresh2, verdict2)
           /\ \A card, muddle, muddle2 :
                 StartsRight(f, i, row, fresh, verdict, card, muddle) /\ (~muddle2 => ~muddle)
                    => StartsRight(f, i, row, fresh2, verdict2, card, muddle2)
<1>1. \A card : Agrees(card, row, fresh, verdict) => Agrees(card, row, fresh2, verdict2)
  BY DEF Agrees
<1>2. EndsRight(f, i, row, fresh, verdict) => EndsRight(f, i, row, fresh2, verdict2)
  BY <1>1 DEF EndsRight
<1>3. ASSUME NEW card, NEW muddle, NEW muddle2, ~muddle2 => ~muddle,
             StartsRight(f, i, row, fresh, verdict, card, muddle)
      PROVE  StartsRight(f, i, row, fresh2, verdict2, card, muddle2)
  BY <1>1, <1>3 DEF StartsRight
<1>4. QED
  BY <1>2, <1>3

(* The row is written, and the news of it is due.                          *)
LEMMA RowWritten ==
    ASSUME NEW f, NEW i, NEW old, NEW new, NEW verdict, NEW verdict2,
           \A k \in DOMAIN f : Tells(f[k], i) /\ Verdict(f[k]) => new.version = old.version,
           verdict2 => new.version = old.version
    PROVE  /\ EndsRight(f, i, old, FALSE, verdict) => EndsRight(f, i, new, TRUE, verdict2)
           /\ \A card, muddle : StartsRight(f, i, old, FALSE, verdict, card, muddle)
                  => StartsRight(f, i, new, TRUE, verdict2, card, muddle)
<1>1. \A card : Agrees(card, old, FALSE, verdict) => Agrees(card, new, TRUE, verdict2)
  BY DEF Agrees
<1>2. EndsRight(f, i, old, FALSE, verdict) => EndsRight(f, i, new, TRUE, verdict2)
  BY <1>1 DEF EndsRight
<1>3. ASSUME NEW card, NEW muddle, StartsRight(f, i, old, FALSE, verdict, card, muddle)
      PROVE  StartsRight(f, i, new, TRUE, verdict2, card, muddle)
  BY <1>1, <1>3 DEF StartsRight
<1>4. QED
  BY <1>2, <1>3

(* A message goes from those to be sent to a page that is connected ...    *)
LEMMA SentOn ==
    ASSUME NEW T, Mailboxes(T), NEW r \in Nat, T[r] # <<>>, NEW tbl, NewsIsTrueOf(T, tbl),
           NEW m, m = Head(T[r]), NEW U, U = [T EXCEPT ![r] = Tail(T[r])],
           NEW i \in Threats, ~Overtaken(U, i), NEW f \in Seq(Messages),
           ~Overtaken(T, i) => EndsRight(f, i, tbl[i], Fresh(T, i), FreshVerdict(T, i))
    PROVE  /\ EndsRight(Append(f, m), i, tbl[i], Fresh(U, i), FreshVerdict(U, i))
           /\ \A card, muddle :
                 (~Overtaken(T, i) =>
                     StartsRight(f, i, tbl[i], Fresh(T, i), FreshVerdict(T, i), card, muddle))
                 => StartsRight(Append(f, m), i, tbl[i], Fresh(U, i), FreshVerdict(U, i), card, muddle)
<1>1. T \in [Nat -> Seq(Messages)] /\ T[r] \in Seq(Messages)
  BY DEF Mailboxes
<1>2. m \in Messages
  BY <1>1, TakenFirst
<1>3. /\ Overtaken(T, i) => Overtaken(U, i) \/ (Tells(m, i) /\ m.late)
      /\ Fresh(U, i) => Fresh(T, i)
      /\ Fresh(T, i) => Fresh(U, i) \/ (Tells(m, i) /\ ~m.late)
      /\ FreshVerdict(U, i) => FreshVerdict(T, i)
      /\ Tells(m, i) /\ ~m.late /\ Verdict(m) => FreshVerdict(T, i)
  BY <1>1, SentFirst
<1>4. Tells(m, i) /\ ~m.late => m.card = tbl[i] /\ ~Fresh(U, i) /\ ~FreshVerdict(U, i)
  BY <1>1, SentTruth
<1> DEFINE fT == Fresh(T, i)
           vT == FreshVerdict(T, i)
           fU == Fresh(U, i)
           vU == FreshVerdict(U, i)
           g == Append(f, m)
           row == tbl[i]
<1> HIDE DEF fT, vT, fU, vU, row
<1>5. CASE ~Tells(m, i)
  <2>1. ~Overtaken(T, i) /\ (~fU => ~fT) /\ (vU => vT)
    BY <1>3, <1>5 DEF fT, vT, fU, vU
  <2>2. EndsRight(f, i, row, fT, vT)
    BY <2>1 DEF fT, vT, row
  <2>3. /\ EndsRight(g, i, row, fT, vT)
        /\ \A card, muddle : StartsRight(f, i, row, fT, vT, card, muddle) =>
               StartsRight(g, i, row, fT, vT, card, muddle)
    BY <1>2, <1>5, <2>2, AddedOther
  <2> HIDE DEF g
  <2>4. /\ EndsRight(g, i, row, fU, vU)
        /\ \A card, muddle : StartsRight(f, i, row, fT, vT, card, muddle) =>
               StartsRight(g, i, row, fU, vU, card, muddle)
    BY <2>1, <2>3 DEF EndsRight, StartsRight, Agrees
  <2>5. QED
    BY <2>1, <2>4 DEF fT, vT, fU, vU, g, row
<1>6. CASE Tells(m, i) /\ m.late
  <2>1. /\ EndsRight(g, i, row, fU, vU)
        /\ \A card, muddle : StartsRight(g, i, row, fU, vU, card, muddle)
    BY <1>2, <1>6, AddedLate
  <2>2. QED
    BY <2>1 DEF fU, vU, row
<1>7. CASE Tells(m, i) /\ ~m.late
  <2>1. ~Overtaken(T, i) /\ m.card = row /\ ~fU /\ ~vU /\ (Verdict(m) => vT)
    BY <1>3, <1>4, <1>7 DEF fU, vU, vT, row
  <2>2. EndsRight(f, i, row, fT, vT)
    BY <2>1 DEF fT, vT, row
  <2>3. /\ EndsRight(g, i, row, FALSE, FALSE)
        /\ \A card, muddle : StartsRight(f, i, row, fT, vT, card, muddle) =>
               StartsRight(g, i, row, FALSE, FALSE, card, muddle)
    BY <1>2, <1>7, <2>1, <2>2, AddedFresh
  <2> HIDE DEF g
  <2>4. /\ EndsRight(g, i, row, fU, vU)
        /\ \A card, muddle : StartsRight(f, i, row, fT, vT, card, muddle) =>
               StartsRight(g, i, row, fU, vU, card, muddle)
    BY <2>1, <2>3 DEF EndsRight, StartsRight, Agrees
  <2>5. QED
    BY <2>1, <2>4 DEF fT, vT, fU, vU, g, row
<1>8. QED
  BY <1>5, <1>6, <1>7

LEMMA TruthBroadcast ==
    ASSUME Shape, NewsIsTrue, Truth, NEW r \in Ids, Broadcast(r)
    PROVE  Truth'
<1> DEFINE m == Head(Todo[r])
           gone == {d \in Dashboards : conn[d] = 0}
           U == [Todo EXCEPT ![r] = Tail(Todo[r])]
<1>1. /\ r \in Nat /\ Todo[r] \in Seq(Messages) /\ Todo[r] # <<>>
      /\ m \in Messages
      /\ Todo' = U
      /\ \A e \in Dashboards :
            Line'[e] = IF conn[e] = 0 THEN <<>> ELSE Append(Line[e], m)
      /\ UNCHANGED <<table, cards>>
      /\ Subjects(<<m>>) \in SUBSET Threats
      /\ Muddle(gone, Subjects(<<m>>))
  BY BroadcastShape
<1>2. \A i \in Threats : i \in Subjects(<<m>>) <=> Tells(m, i)
  BY <1>1, SubjectOfOne
<1>3. \A e \in Dashboards :
         /\ muddled'[e] = IF e \in gone THEN muddled[e] \cup Subjects(<<m>>) ELSE muddled[e]
         /\ load'[e] # NoLoad =>
               /\ load[e] # NoLoad
               /\ load'[e].table = load[e].table
               /\ load'[e].crossed = IF e \in gone THEN load[e].crossed \cup Subjects(<<m>>)
                                                   ELSE load[e].crossed
  <2> DEFINE ids == Subjects(<<m>>)
  <2>1. ids \in SUBSET Threats /\ Muddle(gone, ids)
    BY <1>1
  <2> HIDE DEF gone, ids
  <2>2. \A e \in Dashboards :
           /\ muddled'[e] = IF e \in gone THEN muddled[e] \cup ids ELSE muddled[e]
           /\ load'[e] # NoLoad =>
                 /\ load[e] # NoLoad
                 /\ load'[e].table = load[e].table
                 /\ load'[e].crossed = IF e \in gone THEN load[e].crossed \cup ids ELSE load[e].crossed
    BY <2>1, MuddleTyped
  <2>3. QED
    BY <2>2 DEF ids
<1>4. Mailboxes(Todo) /\ NewsIsTrueOf(Todo, table)
  BY Views DEF Shape, NewsIsTrue
<1> DEFINE a == m
           V == U
<1>5. a = Head(Todo[r]) /\ V = [Todo EXCEPT ![r] = Tail(Todo[r])] /\ a = m /\ V = U
  OBVIOUS
<1> HIDE DEF a, V, m, U
<1>6. SUFFICES ASSUME NEW d \in Dashboards, NEW i \in Threats, ~Overtaken(V, i)
               PROVE  /\ EndsRight(Line'[d], i, table[i], Fresh(V, i), FreshVerdict(V, i))
                      /\ StartsRight(Line'[d], i, table[i], Fresh(V, i), FreshVerdict(V, i),
                                     cards[d][i], i \in muddled'[d])
                      /\ load'[d] # NoLoad =>
                            StartsRight(Line'[d], i, table[i], Fresh(V, i), FreshVerdict(V, i),
                                        load'[d].table[i], i \in load'[d].crossed)
  BY <1>1, <1>5 DEF Truth, TruthOf
<1>7. ~Overtaken(Todo, i) =>
         /\ EndsRight(Line[d], i, table[i], Fresh(Todo, i), FreshVerdict(Todo, i))
         /\ StartsRight(Line[d], i, table[i], Fresh(Todo, i), FreshVerdict(Todo, i),
                        cards[d][i], i \in muddled[d])
         /\ load[d] # NoLoad =>
               StartsRight(Line[d], i, table[i], Fresh(Todo, i), FreshVerdict(Todo, i),
                           load[d].table[i], i \in load[d].crossed)
  BY DEF Truth, TruthOf
<1>8. CASE d \notin gone
  <2>1. Line'[d] = Append(Line[d], a) /\ Line[d] \in Seq(Messages)
    BY <1>1, <1>5, <1>8, Views DEF Shape
  <2>2. /\ EndsRight(Append(Line[d], a), i, table[i], Fresh(V, i), FreshVerdict(V, i))
        /\ \A card, muddle :
             (~Overtaken(Todo, i) =>
                 StartsRight(Line[d], i, table[i], Fresh(Todo, i), FreshVerdict(Todo, i), card, muddle))
             => StartsRight(Append(Line[d], a), i, table[i], Fresh(V, i), FreshVerdict(V, i), card, muddle)
    BY <1>1, <1>4, <1>5, <1>6, <1>7, <2>1, SentOn
  <2>3. StartsRight(Line'[d], i, table[i], Fresh(V, i), FreshVerdict(V, i),
                    cards[d][i], i \in muddled[d])
    BY <1>7, <2>1, <2>2
  <2>4. ASSUME load'[d] # NoLoad
        PROVE  StartsRight(Line'[d], i, table[i], Fresh(V, i), FreshVerdict(V, i),
                           load[d].table[i], i \in load[d].crossed)
    BY <1>3, <1>7, <2>1, <2>2, <2>4
  <2>5. muddled'[d] = muddled[d]
    BY <1>3, <1>8
  <2>6. load'[d] # NoLoad => load'[d].table = load[d].table /\ load'[d].crossed = load[d].crossed
    BY <1>3, <1>8
  <2>7. QED
    BY <2>1, <2>2, <2>3, <2>4, <2>5, <2>6
<1>9. CASE d \in gone
  <2>1. Line'[d] = <<>> /\ Line[d] = <<>>
    BY <1>1, <1>9 DEF Line
  <2>2. i \notin muddled'[d] => i \notin muddled[d] /\ ~Tells(a, i)
    BY <1>2, <1>3, <1>5, <1>9
  <2>3. load'[d] # NoLoad =>
           /\ load[d] # NoLoad /\ load'[d].table = load[d].table
           /\ i \notin load'[d].crossed => i \notin load[d].crossed /\ ~Tells(a, i)
    BY <1>2, <1>3, <1>5, <1>9
  <2>4. EndsRight(<<>>, i, table[i], Fresh(V, i), FreshVerdict(V, i))
    BY NothingQueued
  <2> DEFINE card == cards[d][i]
             after == i \in muddled'[d]
             row == table[i]
             loaded == load'[d].table[i]
             crossed == i \in load'[d].crossed
  <2>5. \/ Tells(a, i)
        \/ /\ ~Overtaken(Todo, i)
           /\ ~Fresh(V, i) => ~Fresh(Todo, i)
           /\ FreshVerdict(V, i) => FreshVerdict(Todo, i)
    <3>1. Todo \in [Nat -> Seq(Messages)]
      BY <1>4 DEF Mailboxes
    <3>2. /\ Overtaken(Todo, i) => Overtaken([Todo EXCEPT ![r] = Tail(Todo[r])], i)
                                    \/ Tells(Head(Todo[r]), i)
          /\ Fresh(Todo, i) => Fresh([Todo EXCEPT ![r] = Tail(Todo[r])], i)
                                \/ Tells(Head(Todo[r]), i)
          /\ FreshVerdict([Todo EXCEPT ![r] = Tail(Todo[r])], i) => FreshVerdict(Todo, i)
      BY <1>1, <3>1, SentFirst
    <3>3. QED
      BY <1>5, <1>6, <3>2
  <2>6. ASSUME ~after
        PROVE  Agrees(card, row, Fresh(V, i), FreshVerdict(V, i))
    <3>1. Agrees(card, row, Fresh(Todo, i), FreshVerdict(Todo, i))
      BY <1>7, <2>1, <2>2, <2>5, <2>6 DEF StartsRight, NoneBetween
    <3>2. QED
      BY <2>2, <2>5, <2>6, <3>1 DEF Agrees
  <2>7. ASSUME load'[d] # NoLoad, ~crossed
        PROVE  Agrees(loaded, row, Fresh(V, i), FreshVerdict(V, i))
    <3>1. Agrees(loaded, row, Fresh(Todo, i), FreshVerdict(Todo, i))
      BY <1>7, <2>1, <2>3, <2>5, <2>7 DEF StartsRight, NoneBetween
    <3>2. QED
      BY <2>3, <2>5, <2>7, <3>1 DEF Agrees
  <2> HIDE DEF card, after, row, loaded, crossed
  <2>8. /\ StartsRight(<<>>, i, row, Fresh(V, i), FreshVerdict(V, i), card, after)
        /\ load'[d] # NoLoad =>
              StartsRight(<<>>, i, row, Fresh(V, i), FreshVerdict(V, i), loaded, crossed)
    BY <2>6, <2>7 DEF StartsRight
  <2>9. QED
    BY <2>1, <2>4, <2>8 DEF card, after, row, loaded, crossed
<1>10. QED
  BY <1>8, <1>9

LEMMA TruthCommit ==
    ASSUME Shape, Closed, NewsIsTrue, Truth, NEW r \in Ids, Commit(r)
    PROVE  Truth'
<1>1. /\ Line' = Line /\ r \in Nat /\ Todo[r] = <<>>
      /\ UNCHANGED <<cards, load, muddled>>
      /\ \E ids \in SUBSET Threats : \E s :
            /\ Todo' = Committed(Todo, r, ids, s)
            /\ Announces(s, ids, table')
            /\ \A i \in Threats \ ids : table'[i] = table[i]
            /\ \A i \in ids : Decided(table[i]) =>
                  Decided(table'[i]) /\ table'[i].version = table[i].version
            /\ \A k \in DOMAIN s : \A i \in Threats : Tells(s[k], i) /\ Verdict(s[k]) =>
                  Decided(table'[i]) /\ table'[i].version = table[i].version
  BY CommitShape DEF pageVars
<1>2. PICK ids \in SUBSET Threats :
         \E s : /\ Todo' = Committed(Todo, r, ids, s)
                /\ Announces(s, ids, table')
                /\ \A i \in Threats \ ids : table'[i] = table[i]
                /\ \A i \in ids : Decided(table[i]) =>
                      Decided(table'[i]) /\ table'[i].version = table[i].version
                /\ \A k \in DOMAIN s : \A i \in Threats : Tells(s[k], i) /\ Verdict(s[k]) =>
                      Decided(table'[i]) /\ table'[i].version = table[i].version
  BY <1>1
<1>3. PICK s : /\ Todo' = Committed(Todo, r, ids, s)
               /\ Announces(s, ids, table')
               /\ \A i \in Threats \ ids : table'[i] = table[i]
               /\ \A i \in ids : Decided(table[i]) =>
                     Decided(table'[i]) /\ table'[i].version = table[i].version
               /\ \A k \in DOMAIN s : \A i \in Threats : Tells(s[k], i) /\ Verdict(s[k]) =>
                     Decided(table'[i]) /\ table'[i].version = table[i].version
  BY <1>2
<1>4. Mailboxes(Todo) /\ NewsIsTrueOf(Todo, table)
  BY Views DEF Shape, NewsIsTrue
<1> DEFINE U == Committed(Todo, r, ids, s)
<1>5. /\ \A i \in Threats \ ids :
            /\ Overtaken(U, i) <=> Overtaken(Todo, i)
            /\ Fresh(U, i) <=> Fresh(Todo, i)
            /\ FreshVerdict(U, i) <=> FreshVerdict(Todo, i)
      /\ \A i \in ids :
            /\ Overtaken(Todo, i) \/ Fresh(Todo, i) => Overtaken(U, i)
            /\ Fresh(U, i)
            /\ FreshVerdict(U, i) => \E k \in DOMAIN s : Tells(s[k], i) /\ Verdict(s[k])
  <2>1. /\ r \in Nat /\ Todo[r] = <<>> /\ Announces(s, ids, table')
        /\ \A i \in Threats \ ids : table'[i] = table[i]
    BY <1>1, <1>3
  <2>2. \A i \in Threats \ ids :
           /\ Overtaken(U, i) <=> Overtaken(Todo, i)
           /\ Fresh(U, i) <=> Fresh(Todo, i)
           /\ FreshVerdict(U, i) <=> FreshVerdict(Todo, i)
    BY <1>4, <2>1, CommitTells
  <2>3. \A i \in ids :
           /\ Overtaken(Todo, i) \/ Fresh(Todo, i) => Overtaken(U, i)
           /\ Fresh(U, i)
    BY <1>4, <2>1, CommitTells
  <2>4. \A i \in ids : FreshVerdict(U, i) => TellsVerdict(s, i)
    BY <1>4, <2>1, CommitTells
  <2>5. QED
    BY <2>2, <2>3, <2>4 DEF TellsVerdict
<1>6. Todo' = U
  BY <1>3
<1> HIDE DEF U
<1>7. SUFFICES ASSUME NEW d \in Dashboards, NEW i \in Threats, ~Overtaken(U, i)
               PROVE  /\ EndsRight(Line[d], i, table'[i], Fresh(U, i), FreshVerdict(U, i))
                      /\ StartsRight(Line[d], i, table'[i], Fresh(U, i), FreshVerdict(U, i),
                                     cards[d][i], i \in muddled[d])
                      /\ load[d] # NoLoad =>
                            StartsRight(Line[d], i, table'[i], Fresh(U, i), FreshVerdict(U, i),
                                        load[d].table[i], i \in load[d].crossed)
  BY <1>1, <1>6 DEF Truth, TruthOf
<1> DEFINE f == Line[d]
           old == table[i]
           new == table'[i]
           fT == Fresh(Todo, i)
           vT == FreshVerdict(Todo, i)
           fU == Fresh(U, i)
           vU == FreshVerdict(U, i)
<1>8. ~Overtaken(Todo, i)
  BY <1>5, <1>7
<1>9. /\ EndsRight(f, i, old, fT, vT)
      /\ StartsRight(f, i, old, fT, vT, cards[d][i], i \in muddled[d])
      /\ load[d] # NoLoad => StartsRight(f, i, old, fT, vT, load[d].table[i], i \in load[d].crossed)
  BY <1>8 DEF Truth, TruthOf
<1>10. CASE i \notin ids
  <2>1. new = old /\ (~fU => ~fT) /\ (vU => vT)
    BY <1>3, <1>5, <1>10
  <2> HIDE DEF f, old, new, fT, vT, fU, vU
  <2>2. /\ EndsRight(f, i, old, fU, vU)
        /\ StartsRight(f, i, old, fU, vU, cards[d][i], i \in muddled[d])
        /\ load[d] # NoLoad => StartsRight(f, i, old, fU, vU, load[d].table[i], i \in load[d].crossed)
    BY <1>9, <2>1, Weaker
  <2>3. QED
    BY <2>1, <2>2 DEF f, old, new, fU, vU
<1>11. CASE i \in ids
  <2>1. ~fT /\ fU
    BY <1>5, <1>7, <1>11
  <2>2. vU => new.version = old.version
    BY <1>3, <1>5, <1>11
  <2>3. \A k \in DOMAIN f : Tells(f[k], i) /\ Verdict(f[k]) => new.version = old.version
    <3> SUFFICES ASSUME NEW k \in DOMAIN f, Tells(f[k], i), Verdict(f[k])
                 PROVE  new.version = old.version
      OBVIOUS
    <3>1. Decided(old)
      BY DEF Closed, AllBacked, Backed
    <3>2. QED
      BY <1>3, <1>11, <3>1
  <2> HIDE DEF f, old, new, fT, vT, fU, vU
  <2>4. /\ EndsRight(f, i, old, FALSE, vT)
        /\ StartsRight(f, i, old, FALSE, vT, cards[d][i], i \in muddled[d])
        /\ load[d] # NoLoad => StartsRight(f, i, old, FALSE, vT, load[d].table[i], i \in load[d].crossed)
    BY <1>9, <2>1 DEF EndsRight, StartsRight, Agrees
  <2>5. /\ EndsRight(f, i, new, TRUE, vU)
        /\ StartsRight(f, i, new, TRUE, vU, cards[d][i], i \in muddled[d])
        /\ load[d] # NoLoad => StartsRight(f, i, new, TRUE, vU, load[d].table[i], i \in load[d].crossed)
    BY <2>2, <2>3, <2>4, RowWritten
  <2>6. /\ EndsRight(f, i, new, fU, vU)
        /\ StartsRight(f, i, new, fU, vU, cards[d][i], i \in muddled[d])
        /\ load[d] # NoLoad => StartsRight(f, i, new, fU, vU, load[d].table[i], i \in load[d].crossed)
    BY <2>1, <2>5, Weaker
  <2>7. QED
    BY <2>6 DEF f, new, fU, vU
<1>12. QED
  BY <1>10, <1>11

LEMMA TruthReceive ==
    ASSUME Shape, Closed, Truth, NEW d \in Dashboards, Receive(d)
    PROVE  Truth'
<1> DEFINE m == Head(Line[d])
<1>1. /\ Todo' = Todo /\ UNCHANGED table
      /\ Line[d] # <<>> /\ Line[d] \in Seq(Messages)
      /\ \A e \in Dashboards : Line'[e] = IF e = d THEN Tail(Line[d]) ELSE Line[e]
      /\ Reads(d, m)
  BY ReceiveShape
<1>2. m \in Messages
  BY <1>1, TakenFirst
<1>3. /\ \A e \in Dashboards : e # d =>
            cards'[e] = cards[e] /\ muddled'[e] = muddled[e] /\ load'[e] = load[e]
      /\ \A i \in Threats :
            cards'[d][i] = IF Tells(m, i) THEN Shown(cards[d][i], m) ELSE cards[d][i]
      /\ \A i \in Threats : ~Tells(m, i) => (i \in muddled'[d] <=> i \in muddled[d])
      /\ \A i \in Threats : Tells(m, i) =>
            (i \in muddled'[d] <=> m.late \/ (Verdict(m) /\ i \in muddled[d]))
      /\ load'[d] # NoLoad =>
            /\ load[d] # NoLoad
            /\ load'[d].table = load[d].table
            /\ \A i \in Threats : i \in load'[d].crossed <=> i \in load[d].crossed \/ Tells(m, i)
  BY <1>1, <1>2, ReadsTyped
<1>4. ASSUME NEW e \in Dashboards, e # d, NEW i \in Threats
      PROVE  TruthOf(e, i)'
  <2>1. TruthOf(e, i)
    BY DEF Truth
  <2>2. Line'[e] = Line[e] /\ cards'[e] = cards[e] /\ muddled'[e] = muddled[e] /\ load'[e] = load[e]
    BY <1>1, <1>3, <1>4
  <2>3. QED
    BY <1>1, <2>1, <2>2 DEF TruthOf
<1>5. ASSUME NEW i \in Threats, ~Overtaken(Todo, i)
      PROVE  /\ EndsRight(Line'[d], i, table[i], Fresh(Todo, i), FreshVerdict(Todo, i))
             /\ StartsRight(Line'[d], i, table[i], Fresh(Todo, i), FreshVerdict(Todo, i),
                            cards'[d][i], i \in muddled'[d])
             /\ load'[d] # NoLoad =>
                   StartsRight(Line'[d], i, table[i], Fresh(Todo, i), FreshVerdict(Todo, i),
                               load'[d].table[i], i \in load'[d].crossed)
  <2> DEFINE f == Line[d]
             row == table[i]
             fresh == Fresh(Todo, i)
             verdict == FreshVerdict(Todo, i)
             card == cards[d][i]
             dirty == i \in muddled[d]
             after == i \in muddled'[d]
  <2>1. /\ EndsRight(f, i, row, fresh, verdict)
        /\ StartsRight(f, i, row, fresh, verdict, card, dirty)
        /\ load[d] # NoLoad =>
              StartsRight(f, i, row, fresh, verdict, load[d].table[i], i \in load[d].crossed)
    BY <1>5 DEF Truth, TruthOf
  <2>2. f \in Seq(Messages) /\ f # <<>> /\ m = Head(f) /\ Line'[d] = Tail(f) /\ card \in Rows
    BY <1>1 DEF Shape, Typed
  <2>3. Tells(m, i) /\ Verdict(m) => m.card.version = row.version
    BY <1>1, BackedLine DEF Closed, Backed
  <2>4. /\ Tells(m, i) => (~after <=> ~m.late /\ (~Verdict(m) \/ ~dirty))
        /\ ~Tells(m, i) => (~after => ~dirty)
    BY <1>3
  <2>5. cards'[d][i] = IF Tells(m, i) THEN Shown(card, m) ELSE card
    BY <1>3
  <2> HIDE DEF m, f, row, fresh, verdict, card, dirty, after
  <2>6. EndsRight(Tail(f), i, row, fresh, verdict)
    BY <2>1, <2>2, RestEndsRight
  <2>7. CASE ~Tells(m, i)
    <3>1. StartsRight(Tail(f), i, row, fresh, verdict, card, dirty)
      BY <2>1, <2>2, <2>7, RestStartsRight
    <3>2. StartsRight(Tail(f), i, row, fresh, verdict, card, after)
      BY <2>4, <2>7, <3>1, Weaker
    <3>3. ASSUME load'[d] # NoLoad
          PROVE  StartsRight(Tail(f), i, row, fresh, verdict, load'[d].table[i], i \in load'[d].crossed)
      <4> DEFINE c == load[d].table[i]
                 x == i \in load[d].crossed
                 y == i \in load'[d].crossed
      <4>1. /\ StartsRight(f, i, row, fresh, verdict, c, x) /\ (~y => ~x)
            /\ load'[d].table[i] = c
        BY <1>3, <2>1, <3>3
      <4> HIDE DEF c, x, y
      <4>2. StartsRight(Tail(f), i, row, fresh, verdict, c, x)
        BY <2>2, <2>7, <4>1, RestStartsRight
      <4>3. StartsRight(Tail(f), i, row, fresh, verdict, c, y)
        BY <4>1, <4>2 DEF StartsRight
      <4>4. QED
        BY <4>1, <4>3 DEF y
    <3>4. QED
      BY <2>2, <2>5, <2>6, <2>7, <3>2, <3>3 DEF row, fresh, verdict, after
  <2>8. CASE Tells(m, i)
    <3>1. StartsRight(Tail(f), i, row, fresh, verdict, Shown(card, m), after)
      <4>1. CASE after
        BY <4>1 DEF StartsRight
      <4>2. CASE ~after
        <5>1. ~m.late /\ (Verdict(m) => ~dirty /\ m.card.version = row.version)
          BY <2>3, <2>4, <2>8, <4>2
        <5>2. StartsRight(Tail(f), i, row, fresh, verdict, Shown(card, m), FALSE)
          BY <2>1, <2>2, <2>8, <5>1, ShownStartsRight
        <5>3. QED
          BY <4>2, <5>2, Weaker
      <4>3. QED
        BY <4>1, <4>2
    <3>2. ASSUME load'[d] # NoLoad
          PROVE  StartsRight(Tail(f), i, row, fresh, verdict, load'[d].table[i], i \in load'[d].crossed)
      <4>1. i \in load'[d].crossed
        BY <1>3, <2>8, <3>2
      <4>2. QED
        BY <4>1 DEF StartsRight
    <3>3. QED
      BY <2>2, <2>5, <2>6, <2>8, <3>1, <3>2 DEF row, fresh, verdict, after
  <2>9. QED
    BY <2>7, <2>8
<1>6. \A i \in Threats : TruthOf(d, i)'
  BY <1>1, <1>5 DEF TruthOf
<1>7. QED
  BY <1>4, <1>6 DEF Truth

LEMMA TruthCloses ==
    ASSUME Shape, Truth, NEW d \in Dashboards, conn[d] # 0, Closes(d)
    PROVE  Truth'
<1>1. /\ Todo' = Todo
      /\ \A e \in Dashboards : Line'[e] = IF e = d THEN <<>> ELSE Line[e]
      /\ UNCHANGED <<table, cards>>
      /\ Subjects(Line[d]) \in SUBSET Threats
      /\ Muddle({d}, Subjects(Line[d]))
  BY ClosesShape
<1>2. \A i \in Threats : i \in Subjects(Line[d]) <=> \E k \in DOMAIN Line[d] : Tells(Line[d][k], i)
  BY Views, SubjectsOf DEF Shape
<1>3. \A e \in Dashboards :
         /\ muddled'[e] = IF e \in {d} THEN muddled[e] \cup Subjects(Line[d]) ELSE muddled[e]
         /\ load'[e] # NoLoad =>
               /\ load[e] # NoLoad
               /\ load'[e].table = load[e].table
               /\ load'[e].crossed = IF e \in {d} THEN load[e].crossed \cup Subjects(Line[d])
                                                  ELSE load[e].crossed
  <2> DEFINE ids == Subjects(Line[d])
             ds == {d}
  <2>1. ids \in SUBSET Threats /\ Muddle(ds, ids)
    BY <1>1
  <2> HIDE DEF ids, ds
  <2>2. \A e \in Dashboards :
           /\ muddled'[e] = IF e \in ds THEN muddled[e] \cup ids ELSE muddled[e]
           /\ load'[e] # NoLoad =>
                 /\ load[e] # NoLoad
                 /\ load'[e].table = load[e].table
                 /\ load'[e].crossed = IF e \in ds THEN load[e].crossed \cup ids
                                                   ELSE load[e].crossed
    BY <2>1, MuddleTyped
  <2>3. QED
    BY <2>2 DEF ids, ds
<1>4. ASSUME NEW e \in Dashboards, e # d, NEW i \in Threats
      PROVE  TruthOf(e, i)'
  <2>1. TruthOf(e, i)
    BY DEF Truth
  <2>2. /\ Line'[e] = Line[e] /\ cards'[e] = cards[e] /\ muddled'[e] = muddled[e]
        /\ load'[e] # NoLoad => /\ load[e] # NoLoad
                                /\ load'[e].table = load[e].table
                                /\ load'[e].crossed = load[e].crossed
    BY <1>1, <1>3, <1>4
  <2>3. QED
    BY <1>1, <2>1, <2>2 DEF TruthOf
<1>5. ASSUME NEW i \in Threats, ~Overtaken(Todo, i)
      PROVE  /\ EndsRight(<<>>, i, table[i], Fresh(Todo, i), FreshVerdict(Todo, i))
             /\ StartsRight(<<>>, i, table[i], Fresh(Todo, i), FreshVerdict(Todo, i),
                            cards[d][i], i \in muddled'[d])
             /\ load'[d] # NoLoad =>
                   StartsRight(<<>>, i, table[i], Fresh(Todo, i), FreshVerdict(Todo, i),
                               load'[d].table[i], i \in load'[d].crossed)
  <2> DEFINE f == Line[d]
             row == table[i]
             fresh == Fresh(Todo, i)
             verdict == FreshVerdict(Todo, i)
             card == cards[d][i]
             dirty == i \in muddled[d]
             after == i \in muddled'[d]
             c == load[d].table[i]
             x == i \in load[d].crossed
             y == i \in load'[d].crossed
  <2>1. f \in Seq(Messages)
    BY Views DEF Shape
  <2>2. /\ StartsRight(f, i, row, fresh, verdict, card, dirty)
        /\ ~after => ~dirty /\ \A k \in DOMAIN f : ~Tells(f[k], i)
    BY <1>2, <1>3, <1>5 DEF Truth, TruthOf
  <2>3. load'[d] # NoLoad =>
        /\ StartsRight(f, i, row, fresh, verdict, c, x)
        /\ ~y => ~x /\ \A k \in DOMAIN f : ~Tells(f[k], i)
        /\ load'[d].table[i] = c
    BY <1>2, <1>3, <1>5 DEF Truth, TruthOf
  <2> HIDE DEF f, row, fresh, verdict, card, dirty, after, c, x, y
  <2>4. EndsRight(<<>>, i, row, fresh, verdict)
    BY NothingQueued
  <2>5. StartsRight(<<>>, i, row, fresh, verdict, card, after)
    BY <2>1, <2>2, LineCut
  <2>6. ASSUME load'[d] # NoLoad
        PROVE  StartsRight(<<>>, i, row, fresh, verdict, c, y)
    BY <2>1, <2>3, <2>6, LineCut
  <2>7. QED
    BY <2>3, <2>4, <2>5, <2>6 DEF row, fresh, verdict, card, after, y
<1>6. Line'[d] = <<>>
  BY <1>1
<1>7. \A i \in Threats : TruthOf(d, i)'
  BY <1>1, <1>5, <1>6 DEF TruthOf
<1>8. QED
  BY <1>4, <1>7 DEF Truth

LEMMA TruthLoad ==
    ASSUME Shape, Truth, NEW d \in Dashboards, BeginLoad(d) \/ EndLoad(d)
    PROVE  Truth'
<1>1. Todo' = Todo /\ Line' = Line /\ UNCHANGED table
  BY LoadShape
<1>2. CASE BeginLoad(d)
  <2>1. /\ UNCHANGED <<cards, muddled>>
        /\ load' = [load EXCEPT ![d] = [table |-> table, crossed |-> {}]]
        /\ load \in [Dashboards -> {NoLoad} \cup Loading]
    BY <1>2 DEF BeginLoad, Shape, Typed
  <2>2. ASSUME NEW e \in Dashboards, NEW i \in Threats
        PROVE  TruthOf(e, i)'
    <3>1. TruthOf(e, i)
      BY DEF Truth
    <3>2. \A f, fresh, verdict, muddle : StartsRight(f, i, table[i], fresh, verdict, table[i], muddle)
      BY DEF StartsRight, Agrees
    <3>3. CASE e = d
      <4>1. load'[e].table = table
        BY <2>1, <3>3
      <4>2. QED
        BY <1>1, <2>1, <3>1, <3>2, <4>1 DEF TruthOf
    <3>4. CASE e # d
      <4>1. load'[e] = load[e]
        BY <2>1, <3>4
      <4>2. QED
        BY <1>1, <2>1, <3>1, <4>1 DEF TruthOf
    <3>5. QED
      BY <3>3, <3>4
  <2>3. QED
    BY <2>2 DEF Truth
<1>3. CASE EndLoad(d)
  <2>1. /\ load[d] # NoLoad
        /\ \A e \in Dashboards : e # d =>
              cards'[e] = cards[e] /\ muddled'[e] = muddled[e] /\ load'[e] = load[e]
        /\ cards'[d] = load[d].table /\ muddled'[d] = load[d].crossed /\ load'[d] = NoLoad
    BY <1>3 DEF EndLoad, Shape, Typed
  <2>2. ASSUME NEW e \in Dashboards, NEW i \in Threats
        PROVE  TruthOf(e, i)'
    <3>1. TruthOf(e, i)
      BY DEF Truth
    <3>2. CASE e = d
      BY <1>1, <2>1, <3>1, <3>2 DEF TruthOf
    <3>3. CASE e # d
      BY <1>1, <2>1, <3>1, <3>3 DEF TruthOf
    <3>4. QED
      BY <3>2, <3>3
  <2>3. QED
    BY <2>2 DEF Truth
<1>4. QED
  BY <1>2, <1>3

LEMMA TruthNext ==
    ASSUME Shape, Closed, NewsIsTrue, Truth, [Next]_vars
    PROVE  Truth'
<1>1. CASE Quiet
  <2>1. \A d \in Dashboards, i \in Threats : TruthOf(d, i) => TruthOf(d, i)'
    BY <1>1 DEF Quiet, TruthOf
  <2>2. QED
    BY <2>1 DEF Truth
<1>2. Quiet \/ Loud
  BY ShapeNext
<1>3. QED
  BY <1>1, <1>2, TruthCommit, TruthBroadcast, TruthReceive, TruthCloses, TruthLoad DEF Loud

-----------------------------------------------------------------------------
IInv == Shape /\ Closed /\ NewsIsTrue /\ Truth

LEMMA Inductive == Spec => []IInv
<1>1. Init => IInv
  BY ShapeInit, ClosedInit, NewsInit DEF IInv
<1>2. IInv /\ [Next]_vars => IInv'
  BY ShapeNext, ClosedNext, NewsNext, TruthNext DEF IInv
<1>3. QED
  BY <1>1, <1>2, PTL DEF Spec

(* A page that is connected, has read all it was sent and waits for no load*)
(* shows each threat as the table has it once every request is answered,   *)
(* unless it knows of something missed, crossed or overtaken: whatever the *)
(* order of the broadcasts of ws.py and however the handlers of            *)
(* agent_routes.py and soc_routes.py interleave once the pipeline's lock is*)
(* released.                                                               *)
THEOREM CardsAreTrue == Spec => []CardsTellTruth
<1>1. IInv => CardsTellTruth
  <2> SUFFICES ASSUME IInv, NEW d \in Dashboards, Settled, UpToDate(d),
                      NEW i \in Threats, i \notin muddled[d]
               PROVE  cards[d][i] = table[i]
    BY DEF CardsTellTruth
  <2>1. \A r \in Ids : requests[r].todo = <<>>
    BY Views, RequestParts DEF IInv, Shape, Settled, Answered
  <2>2. \A r \in Nat : Todo[r] = <<>>
    BY <2>1 DEF Todo
  <2>3. ~Overtaken(Todo, i) /\ ~Fresh(Todo, i)
    BY <2>2 DEF Overtaken, Fresh
  <2>4. Line[d] = <<>>
    BY DEF UpToDate, Line
  <2>5. StartsRight(<<>>, i, table[i], Fresh(Todo, i), FreshVerdict(Todo, i),
                    cards[d][i], i \in muddled[d])
    BY <2>3, <2>4 DEF IInv, Truth, TruthOf
  <2>6. Agrees(cards[d][i], table[i], Fresh(Todo, i), FreshVerdict(Todo, i))
    BY <2>5 DEF StartsRight, NoneBetween
  <2>7. QED
    BY <2>3, <2>6 DEF Agrees
<1>2. QED
  BY <1>1, Inductive, PTL

(* A page that shows an incident as blocked or dismissed is right, in every*)
(* state: no batch overwrites a decided row (response.py:160), and every   *)
(* message that says "decided" was sent after the row was.                 *)
THEOREM ClosedCardsRight == Spec => []ClosedCardsAreRight
<1>1. IInv => ClosedCardsAreRight
  BY DEF IInv, Closed, BackedCards, ClosedCardsAreRight
<1>2. QED
  BY <1>1, Inductive, PTL
=============================================================================
