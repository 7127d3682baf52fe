---------------------------- MODULE InputProofs ----------------------------
(***************************************************************************)
(* Proofs about what the program reads. Dates: the successor of a date, the    *)
(* date a month later and the numbers of dates, for every date, whatever the   *)
(* walk. ConfigFile: whatever lines a file has and whatever files it includes, *)
(* each line is about the block that its indentation shows, and what a host or *)
(* a volume ends with is what the text says; and what --dump-config writes of   *)
(* it is read as the same configuration.                                     *)
(***************************************************************************)
EXTENDS Dates, ConfigFile, FiniteSetTheorems, SequenceTheorems, WellFoundedInduction,
        TLAPS



(* The lengths of the months.                                               *)
LEMMA Lengths ==
  ASSUME NEW y \in Nat, NEW m \in 1 .. 12
  PROVE  /\ MonthLength(y, m) \in 28 .. 31
         /\ m # 2 => MDay[m + 1] = MDay[m] + MonthLength(y, m)
         /\ m = 2 => MonthLength(y, m) = 28 + (IF IsLeapYear(y) THEN 1 ELSE 0)
         /\ m \in {1, 12} => MonthLength(y, m) = 31
         /\ MDay[m] \in Nat
<1>1. CASE m \in {1, 2, 3} BY <1>1 DEF MonthLength, MDay, IsLeapYear
<1>2. CASE m \in {4, 5, 6} BY <1>2 DEF MonthLength, MDay, IsLeapYear
<1>3. CASE m \in {7, 8, 9} BY <1>3 DEF MonthLength, MDay, IsLeapYear
<1>4. CASE m \in {10, 11, 12} BY <1>4 DEF MonthLength, MDay, IsLeapYear
<1> QED BY <1>1, <1>2, <1>3, <1>4

LEMMA MonthsAreLong ==
  ASSUME NEW y \in Nat, NEW m \in 1 .. 12
  PROVE  1 <= MonthLength(y, m)
BY Lengths

(* A year has a leap day if the quotients of its number have grown.           *)
LEMMA LeapDays ==
  ASSUME NEW y \in Nat
  PROVE  (y + 1) \div 4 - (y + 1) \div 100 + (y + 1) \div 400
           = y \div 4 - y \div 100 + y \div 400
             + (IF IsLeapYear(y + 1) THEN 1 ELSE 0)
BY DEF IsLeapYear

LEMMA Parts ==
  ASSUME NEW t \in Date
  PROVE  /\ t.y \in Nat /\ t.m \in 1 .. 12 /\ t.d \in 1 .. 31
         /\ t.d <= MonthLength(t.y, t.m)
         /\ MonthLength(t.y, t.m) \in 28 .. 31
         /\ MDay[t.m] \in Nat
         /\ Number(t) \in Int
<1>1. /\ t.y \in Nat /\ t.m \in 1 .. 12 /\ t.d \in 1 .. 31
      /\ t.d <= MonthLength(t.y, t.m)
  BY DEF Date, Accepts
<1>2. MonthLength(t.y, t.m) \in 28 .. 31 /\ MDay[t.m] \in Nat BY <1>1, Lengths
<1>3. Number(t) \in Int BY <1>1, <1>2 DEF Number
<1> QED BY <1>1, <1>2, <1>3

(* The successor of a date is a date, and later.                             *)
LEMMA SuccessorIsDate ==
  ASSUME NEW t \in Date
  PROVE  Successor(t) \in Date /\ Before(t, Successor(t))
<1>0. /\ t.y \in Nat /\ t.y >= 1 /\ t.m \in 1 .. 12 /\ t.d \in 1 .. 31
      /\ t.d <= MonthLength(t.y, t.m)
      /\ MonthLength(t.y, t.m) \in 28 .. 31
  BY Parts DEF Date, Accepts
<1>1. CASE t.d < MonthLength(t.y, t.m)
  <2>1. Successor(t) = [y |-> t.y, m |-> t.m, d |-> t.d + 1] BY <1>1 DEF Successor
  <2>2. t.d + 1 \in 1 .. 31 /\ t.d + 1 <= MonthLength(t.y, t.m) BY <1>0, <1>1
  <2> QED BY <1>0, <2>1, <2>2 DEF Date, Accepts, Before
<1>2. CASE t.d = MonthLength(t.y, t.m) /\ t.m < 12
  <2>1. Successor(t) = [y |-> t.y, m |-> t.m + 1, d |-> 1]
    BY <1>0, <1>2 DEF Successor
  <2>2. t.m + 1 \in 1 .. 12 BY <1>0, <1>2
  <2>3. 1 <= MonthLength(t.y, t.m + 1) BY <1>0, <2>2, MonthsAreLong
  <2> QED BY <1>0, <2>1, <2>2, <2>3 DEF Date, Accepts, Before
<1>3. CASE t.d = MonthLength(t.y, t.m) /\ t.m = 12
  <2>1. Successor(t) = [y |-> t.y + 1, m |-> 1, d |-> 1]
    BY <1>0, <1>3 DEF Successor
  <2>2. t.y + 1 \in Nat BY <1>0
  <2>3. 1 <= MonthLength(t.y + 1, 1) BY <2>2, MonthsAreLong
  <2> QED BY <1>0, <2>1, <2>2, <2>3 DEF Date, Accepts, Before
<1> QED BY <1>0, <1>1, <1>2, <1>3

(* Its number is the next, but that a year that begins brings its leap day    *)
(* with it, and one that ends takes its own away.                           *)
LEMMA SuccessorNumber ==
  ASSUME NEW t \in Date
  PROVE  Number(Successor(t)) =
           Number(t) + 1 + LeapDay(Successor(t)) - LeapDay(t)
<1>0. /\ t.y \in Nat /\ t.m \in 1 .. 12 /\ t.d \in 1 .. 31
      /\ t.d <= MonthLength(t.y, t.m)
      /\ MonthLength(t.y, t.m) \in 28 .. 31
      /\ MDay[t.m] \in Nat
  BY Parts
<1>1. CASE t.d < MonthLength(t.y, t.m)
  <2>1. /\ Successor(t).y = t.y /\ Successor(t).m = t.m
        /\ Successor(t).d = t.d + 1
    BY <1>1 DEF Successor
  <2>2. LeapDay(Successor(t)) = LeapDay(t) /\ LeapDay(t) \in Int
    BY <2>1 DEF LeapDay
  <2>3. Number(Successor(t)) = Number(t) + 1 /\ Number(t) \in Int
    BY <1>0, <2>1 DEF Number
  <2> QED BY <2>2, <2>3
<1>2. CASE t.d >= MonthLength(t.y, t.m) /\ t.m < 12
  <2>1. Successor(t) = [y |-> t.y, m |-> t.m + 1, d |-> 1]
    BY <1>0, <1>2 DEF Successor
  <2>2. t.d = MonthLength(t.y, t.m) BY <1>0, <1>2
  <2>3. t.m # 2 => MDay[t.m + 1] = MDay[t.m] + t.d BY <1>0, <2>2, Lengths
  <2>4. t.m = 2 => /\ MDay[3] = MDay[2] + 28
                  /\ t.d = 28 + (IF IsLeapYear(t.y) THEN 1 ELSE 0)
    BY <1>0, <2>2, Lengths DEF MDay
  <2>5. MDay[t.m] \in Nat /\ MDay[t.m + 1] \in Nat BY <1>0, <1>2, Lengths
  <2>6. LeapDay(Successor(t)) = LeapDay(t) BY <2>1 DEF LeapDay
  <2>7. /\ Successor(t).y = t.y /\ Successor(t).m = t.m + 1
        /\ Successor(t).d = 1
    BY <2>1
  <2>8. t.y \in Nat /\ t.m \in 1 .. 11 /\ t.d \in 1 .. 31 BY <1>0, <1>2
  <2> DEFINE base == 365 * t.y + t.y \div 4 - t.y \div 100 + t.y \div 400
             leap == IF t.m > 2 /\ IsLeapYear(t.y) THEN 1 ELSE 0
             next == IF t.m >= 2 /\ IsLeapYear(t.y) THEN 1 ELSE 0
  <2>9. base \in Int /\ leap \in 0 .. 1 /\ next \in 0 .. 1 BY <2>8
  <2>10. MDay[t.m + 1] + next = MDay[t.m] + leap + t.d
    <3>1. CASE t.m = 2 BY <2>4, <2>5, <3>1
    <3>2. CASE t.m # 2 BY <2>3, <2>5, <2>8, <3>2
    <3> QED BY <3>1, <3>2
  <2>11. Number(Successor(t)) = base + MDay[t.m + 1] + next
    BY <2>5, <2>7, <2>8 DEF Number
  <2>12. Number(t) = base + MDay[t.m] + leap + t.d - 1 BY DEF Number
  <2>13. LeapDay(t) \in Int BY DEF LeapDay
  <2> DEFINE here == MDay[t.m]
             there == MDay[t.m + 1]
             d == t.d
  <2>14. here \in Int /\ there \in Int /\ d \in Int BY <2>5, <2>8
  <2> HIDE DEF base, leap, next, here, there, d
  <2>15. base + there + next = (base + here + leap + d - 1) + 1
         /\ base + here + leap + d - 1 \in Int
    <3>1. there + next = here + leap + d BY <2>10 DEF here, there, d
    <3> QED BY <2>9, <2>14, <3>1
  <2>16. Number(Successor(t)) = Number(t) + 1 /\ Number(t) \in Int
    BY <2>11, <2>12, <2>15 DEF here, there, d
  <2> QED BY <2>6, <2>13, <2>16
<1>3. CASE t.d >= MonthLength(t.y, t.m) /\ t.m = 12
  <2>1. Successor(t) = [y |-> t.y + 1, m |-> 1, d |-> 1]
    BY <1>0, <1>3 DEF Successor
  <2>2. t.d = 31 /\ MDay[12] = 334 /\ MDay[1] = 0
    BY <1>0, <1>3, Lengths DEF MDay
  <2>3. /\ Successor(t).y = t.y + 1 /\ Successor(t).m = 1
        /\ Successor(t).d = 1
    BY <2>1
  <2> DEFINE leaps(y) == y \div 4 - y \div 100 + y \div 400
  <2>4. leaps(t.y + 1) = leaps(t.y) + LeapDay(Successor(t))
    BY <1>0, <2>3, LeapDays DEF LeapDay
  <2>5. Number(Successor(t)) = 365 * (t.y + 1) + leaps(t.y + 1)
    BY <1>0, <2>2, <2>3 DEF Number
  <2>6. Number(t) = 365 * t.y + leaps(t.y) + 334 + LeapDay(t) + 30
    BY <1>0, <1>3, <2>2 DEF Number, LeapDay
  <2>7. leaps(t.y) \in Int /\ leaps(t.y + 1) \in Int BY <1>0
  <2>8. LeapDay(t) \in Int /\ LeapDay(Successor(t)) \in Int BY DEF LeapDay
  <2> HIDE DEF leaps
  <2> QED BY <1>0, <2>4, <2>5, <2>6, <2>7, <2>8
<1> QED BY <1>0, <1>1, <1>2, <1>3

(* A month later: in the next month, on the same day or its last.            *)
LEMMA AddMonthRight ==
  ASSUME NEW t \in Date
  PROVE  LET next == AddMonth(t)
         IN  /\ next \in Date
             /\ next.m = (t.m % 12) + 1
             /\ Before(t, next)
             /\ next.d = t.d \/ (next.d < t.d /\ Successor(next).d = 1)
<1> USE DEF Date, Accepts
<1> DEFINE y == IF t.m < 12 THEN t.y ELSE t.y + 1
           m == IF t.m < 12 THEN t.m + 1 ELSE 1
           d == IF t.d < MonthLength(y, m) THEN t.d ELSE MonthLength(y, m)
<1>1. AddMonth(t) = [y |-> y, m |-> m, d |-> d] BY DEF AddMonth
<1>2. y \in Nat /\ y >= 1 /\ m \in 1 .. 12 /\ m = (t.m % 12) + 1 OBVIOUS
<1>3. MonthLength(y, m) \in 28 .. 31 BY <1>2, Lengths
<1>4. d \in 1 .. 31 /\ d <= MonthLength(y, m) BY <1>3
<1>5. Before(t, AddMonth(t)) BY <1>1 DEF Before
<1>6. d = t.d \/ (d < t.d /\ d = MonthLength(y, m)) BY <1>3
<1>7. d = MonthLength(y, m) => Successor(AddMonth(t)).d = 1
  BY <1>1, <1>2, <1>3 DEF Successor
<1> HIDE DEF y, m, d
<1> QED BY <1>1, <1>2, <1>4, <1>5, <1>6, <1>7

LEMMA BeforeTransitive ==
  ASSUME NEW t \in Date, NEW u \in Date, NEW v \in Date,
         Before(t, u), Before(u, v)
  PROVE  Before(t, v) /\ t # v
BY DEF Before, Date

(* The walk stays in the calendar and the arithmetic holds on every day of     *)
(* it, wherever it starts.                                                  *)
THEOREM Calendar == CalendarSpec => [](CalendarTypeOK /\ CalendarRight)
<1> USE CalendarAssumption DEF CalendarTypeOK
<1> DEFINE Inv == CalendarTypeOK /\ InOrder /\ DifferenceIsDays
<1>1. CalendarInit => Inv
  <2> SUFFICES ASSUME CalendarInit PROVE Inv OBVIOUS
  <2>1. day \in Date /\ day = first /\ elapsed = 0 BY DEF CalendarInit
  <2>2. Number(day) \in Int
    BY <2>1, Lengths DEF Number, Date
  <2> QED BY <2>1, <2>2, SuccessorIsDate
       DEF CalendarInit, InOrder, DifferenceIsDays, Minus, LeapDay
<1>2. Inv /\ [CalendarNext]_calendar => Inv'
  <2> SUFFICES ASSUME Inv, [CalendarNext]_calendar PROVE Inv' OBVIOUS
  <2>1. CASE NextDay
    <3>1. /\ day' = Successor(day) /\ first' = first
          /\ elapsed' = elapsed + 1 /\ elapsed < MaxDays
      BY <2>1 DEF NextDay
    <3>2. day' \in Date /\ Before(day, day') BY <3>1, SuccessorIsDate
    <3>3. Before(first, day') /\ first # day'
      <4>1. CASE elapsed = 0 BY <4>1, <3>2 DEF InOrder, Before, Date
      <4>2. CASE elapsed > 0
        BY <4>2, <3>2, BeforeTransitive DEF InOrder
      <4> QED BY <4>1, <4>2
    <3>4. Number(day) \in Int /\ Number(first) \in Int
      BY CalendarAssumption, Parts
    <3>5. Number(day') = Number(day) + 1 + LeapDay(day') - LeapDay(day)
      BY <3>1, SuccessorNumber
    <3>6. LeapDay(day) \in 0 .. 1 /\ LeapDay(day') \in 0 .. 1
          /\ LeapDay(first) \in 0 .. 1
      BY DEF LeapDay
    <3>7. DifferenceIsDays'
      BY <3>1, <3>4, <3>5, <3>6 DEF DifferenceIsDays, Minus
    <3> QED BY <3>1, <3>2, <3>3, <3>7, SuccessorIsDate DEF InOrder
  <2>2. CASE UNCHANGED calendar
    BY <2>2 DEF calendar, InOrder, DifferenceIsDays
  <2> QED BY <2>1, <2>2 DEF CalendarNext, WalkEnds
<1>3. Inv => CalendarTypeOK /\ CalendarRight
  <2> SUFFICES ASSUME Inv PROVE CalendarRight OBVIOUS
  <2>1. MonthLater BY AddMonthRight DEF MonthLater
  <2>2. elapsed > 0 => Minus(day, first) >= 0
    BY DEF DifferenceIsDays, LeapDay
  <2> QED BY <2>1, <2>2 DEF CalendarRight
<1> QED BY <1>1, <1>2, <1>3, PTL DEF CalendarSpec

-----------------------------------------------------------------------------
(* The directives, and the greatest of some numbers.                       *)
(* What an entry of the table of directives is like.                            *)
Sound(d) ==
  /\ d.levels \in SUBSET (1 .. 3)
  /\ d.word = "host" <=> d.form = "host"
  /\ d.word = "volume" <=> d.form = "volume"
  /\ d.form = "host" => d.levels = {1}
  /\ d.form = "volume" => d.levels = {2}
  /\ d.form \in {"appended", "measure", "include"} => d.levels = {1}
  /\ d.opens = IF d.form = "host" THEN 2 ELSE IF d.form = "volume" THEN 3 ELSE 0

LEMMA Entries ==
  ASSUME NEW words, NEW form, NEW least, NEW most, NEW levels \in SUBSET (1 .. 3),
         form \notin {"host", "volume"}, "host" \notin words, "volume" \notin words,
         form \in {"appended", "measure", "include"} => levels = {1},
         NEW d \in Directives(words, form, least, most, levels)
  PROVE  Sound(d)
BY DEF Directives, Sound

LEMMA TableOfDirectives ==
  \A d \in AllDirectives : Sound(d)
<1>1. \A d \in GlobalDirectives : Sound(d)
  BY Entries DEF GlobalDirectives
<1>2. \A d \in PlainDirectives : Sound(d)
  BY Entries DEF PlainDirectives
<1>3. \A d \in GraphDirectives : Sound(d)
  BY Entries DEF GraphDirectives
<1>4. \A d \in LayoutDirectives : Sound(d)
  BY Entries DEF LayoutDirectives
<1>5. \A d \in Inheritable : Sound(d)
  BY Entries DEF Inheritable, PolicyDirectives, HookDirectives, RsyncDirectives, TimeDirectives
<1>6. \A d \in HostDirectives : Sound(d)
  <2>1. \A d \in [word : {"host"}, form : {"host"}, least : {1}, most : {1}, levels : {{1}},
                  opens : {2}] : Sound(d)
    BY DEF Sound
  <2> QED
    BY <2>1, Entries DEF HostDirectives
<1>7. \A d \in VolumeDirectives : Sound(d)
  <2>1. \A d \in [word : {"volume"}, form : {"volume"}, least : {2}, most : {2},
                  levels : {{2}}, opens : {3}] : Sound(d)
    BY DEF Sound
  <2> QED
    BY <2>1, Entries DEF VolumeDirectives
<1> QED
  BY <1>1, <1>2, <1>3, <1>4, <1>5, <1>6, <1>7 DEF AllDirectives

LEMMA Found ==
  ASSUME NEW w, Known(w)
  PROVE  DirectiveOf[w].word = w /\ Sound(DirectiveOf[w])
<1>1. \E d \in AllDirectives : d.word = w
  BY DEF Known, DirectiveOf
<1>2. DirectiveOf[w] = CHOOSE d \in AllDirectives : d.word = w
  BY DEF Known, DirectiveOf
<1> QED
  BY <1>1, <1>2, TableOfDirectives

(* Among some numbers there is a least.                                        *)
LEMMA LeastNumber ==
  ASSUME NEW T \in SUBSET Nat, T # {}
  PROVE  \E x \in T : \A y \in T : x <= y
<1>1. PICK x \in T : \A y \in T : ~ (<<y, x>> \in OpToRel(<, Nat))
  BY WFMin, NatLessThanWellFounded, Zenon
<1>2. \A y \in T : ~ (y < x)
  BY <1>1 DEF OpToRel
<1> QED
  BY <1>2

(* The greatest of some numbers, if there are any.                              *)
LEMMA GreatestIs ==
  ASSUME NEW n \in Nat, NEW S \in SUBSET (0 .. n), S # {}
  PROVE  Greatest(S) \in S /\ \A j \in S : j <= Greatest(S)
<1> DEFINE U == {n - x : x \in S}
<1>1. U \in SUBSET Nat /\ U # {}
  <2>1. \A x \in S : n - x \in Nat OBVIOUS
  <2> QED BY <2>1
<1>2. PICK u \in U : \A y \in U : u <= y BY <1>1, LeastNumber
<1>3. PICK x \in S : u = n - x OBVIOUS
<1>4. \A y \in S : n - x <= n - y BY <1>2, <1>3
<1>5. \E k \in S : \A j \in S : j <= k BY <1>4
<1> QED BY <1>5 DEF Greatest

LEMMA GreatestUnique ==
  ASSUME NEW n \in Nat, NEW S \in SUBSET (0 .. n), NEW k \in S, \A j \in S : j <= k
  PROVE  Greatest(S) = k
<1> DEFINE g == Greatest(S)
<1>1. g \in S /\ k <= g BY GreatestIs
<1> HIDE DEF g
<1>2. g <= k /\ k \in Int /\ g \in Int BY <1>1
<1>3. g = k BY <1>1, <1>2
<1> QED BY <1>3 DEF g

-----------------------------------------------------------------------------
(* The lines that are read, and what a line is inside of.                  *)
(* The lines that are read.                                                    *)
TextLine ==
  [file : Nat, indent : Nat, word : {l.word : l \in UNION Subjects},
   args : {l.args : l \in UNION Subjects}]

(* What is outside a line of the file f at the indent i, if it comes next.      *)
Above(f, i) == {j \in DOMAIN text : text[j].file = f /\ text[j].indent < i}

(* A line that begins a block: of a host, or in it of a volume; and that block.    *)
Heads(o, level) ==
  \/ level = 2 /\ text[o].word = "host"
  \/ level = 3 /\ text[o].word = "volume" /\ Outside(o) # {} /\ Opener(o).word = "host"

Owner(o) ==
  IF text[o].word = "host" THEN <<text[o].args[1], "">>
  ELSE <<Opener(o).args[1], text[o].args[1]>>

Nested(k) ==
  Outside(k) # {} => \/ Heads(Greatest(Outside(k)), 2)
                     \/ Heads(Greatest(Outside(k)), 3)

LEMMA BlockIs ==
  ASSUME NEW k
  PROVE  BlockOf(k) = IF Outside(k) = {} THEN Root ELSE Owner(Greatest(Outside(k)))
BY DEF BlockOf, Opener, Owner

LEMMA OutsideIs ==
  ASSUME text \in Seq(TextLine), NEW k \in DOMAIN text
  PROVE  /\ Outside(k) \in SUBSET (DOMAIN text) /\ Outside(k) \in SUBSET (0 .. Len(text))
         /\ Outside(k) # {} => /\ Greatest(Outside(k)) \in Outside(k)
                               /\ Greatest(Outside(k)) \in DOMAIN text
<1>1. Len(text) \in Nat /\ DOMAIN text = 1 .. Len(text) /\ k \in 1 .. Len(text)
  OBVIOUS
<1>2. Outside(k) \in SUBSET (1 .. Len(text)) /\ Outside(k) \in SUBSET (0 .. Len(text))
  BY <1>1 DEF Outside
<1> QED
  BY <1>1, <1>2, GreatestIs

(* What is said of a line does not change as more are read.                      *)
LEMMA Earlier ==
  ASSUME text \in Seq(TextLine), NEW r \in TextLine, text' = Append(text, r),
         NEW k \in DOMAIN text
  PROVE  /\ k \in DOMAIN text' /\ text'[k] = text[k]
         /\ Outside(k)' = Outside(k)
         /\ Outside(k) # {} => Opener(k)' = Opener(k)
         /\ \A level : Heads(k, level)' <=> Heads(k, level)
         /\ \A level : Heads(k, level) => Owner(k)' = Owner(k)
<1>1. /\ \A j \in DOMAIN text : j \in DOMAIN text' /\ text'[j] = text[j]
      /\ DOMAIN text = 1 .. Len(text) /\ Len(text) \in Nat
  OBVIOUS
<1>2. Outside(k)' = Outside(k)
  <2>1. \A j \in 1 .. k - 1 : j \in DOMAIN text
    BY <1>1
  <2> QED
    BY <1>1, <2>1 DEF Outside
<1>3. Outside(k) # {} => Opener(k)' = Opener(k)
  <2> SUFFICES ASSUME Outside(k) # {} PROVE Opener(k)' = Opener(k)
    OBVIOUS
  <2> DEFINE g == Greatest(Outside(k))
  <2>1. g \in DOMAIN text
    BY OutsideIs
  <2>2. Greatest(Outside(k))' = g
    BY <1>2 DEF Greatest
  <2> HIDE DEF g
  <2>3. text'[g] = text[g]
    BY <1>1, <2>1
  <2>4. Opener(k) = text[g] /\ Opener(k)' = text'[g]
    BY <2>2 DEF Opener, g
  <2> QED
    BY <2>3, <2>4
<1>4. text'[k] = text[k]
  BY <1>1
<1>5. \A level : Heads(k, level)' <=> Heads(k, level)
  BY <1>2, <1>3, <1>4 DEF Heads
<1>6. \A level : Heads(k, level) => Owner(k)' = Owner(k)
  BY <1>2, <1>3, <1>4 DEF Heads, Owner
<1> QED
  BY <1>1, <1>2, <1>3, <1>5, <1>6

LEMMA EarlierBlock ==
  ASSUME text \in Seq(TextLine), NEW r \in TextLine, text' = Append(text, r),
         NEW k \in DOMAIN text, Nested(k)
  PROVE  BlockOf(k)' = BlockOf(k) /\ Nested(k)'
<1> DEFINE g == Greatest(Outside(k))
<1>1. Outside(k)' = Outside(k) /\ Greatest(Outside(k))' = g
  BY Earlier DEF Greatest
<1>2. BlockOf(k) = IF Outside(k) = {} THEN Root ELSE Owner(g)
  BY BlockIs
<1>3. ASSUME NEW h, h = Greatest(Outside(k))'
      PROVE  BlockOf(k)' = IF Outside(k)' = {} THEN Root ELSE Owner(h)'
  BY <1>3 DEF BlockOf, Opener, Owner
<1>4. CASE Outside(k) = {}
  BY <1>1, <1>2, <1>3, <1>4 DEF Nested
<1>5. CASE Outside(k) # {}
  <2>1. PICK h : h = g
    OBVIOUS
  <2>2. h \in DOMAIN text
    BY <1>5, <2>1, OutsideIs
  <2>3. Heads(h, 2) \/ Heads(h, 3)
    BY <1>5, <2>1 DEF Nested
  <2>4. /\ Owner(h)' = Owner(h) /\ (Heads(h, 2) <=> Heads(h, 2)')
        /\ (Heads(h, 3) <=> Heads(h, 3)')
    BY <2>2, <2>3, Earlier
  <2>5. Greatest(Outside(k))' = h
    BY <1>1, <2>1
  <2>6. BlockOf(k)' = Owner(h)'
    BY <1>1, <1>3, <1>5, <2>5
  <2>7. Nested(k)'
    BY <2>3, <2>4, <2>5 DEF Nested
  <2> QED
    BY <1>2, <1>5, <2>1, <2>4, <2>6, <2>7
<1> QED
  BY <1>4, <1>5

(* The line that is read last.                                                 *)
LEMMA Latest ==
  ASSUME text \in Seq(TextLine), NEW r \in TextLine, text' = Append(text, r),
         NEW n, n = Len(text) + 1
  PROVE  /\ n \in DOMAIN text' /\ DOMAIN text' = 1 .. n /\ DOMAIN text = 1 .. n - 1
         /\ n \in Nat /\ n - 1 = Len(text) /\ n \notin DOMAIN text
         /\ text'[n] = r /\ Len(text') = n
         /\ text' \in Seq(TextLine)
         /\ Outside(n)' = Above(r.file, r.indent)
<1>1. /\ n \in DOMAIN text' /\ DOMAIN text' = 1 .. n /\ DOMAIN text = 1 .. n - 1
      /\ n \in Nat /\ n - 1 = Len(text) /\ n \notin DOMAIN text
      /\ text'[n] = r /\ Len(text') = n
      /\ text' \in Seq(TextLine)
      /\ \A j \in DOMAIN text : text'[j] = text[j]
  OBVIOUS
<1>2. Outside(n)' = Above(r.file, r.indent)
  BY <1>1 DEF Outside, Above
<1> QED
  BY <1>1, <1>2

LEMMA AboveGrows ==
  ASSUME text \in Seq(TextLine), NEW r \in TextLine, text' = Append(text, r),
         NEW f, NEW i
  PROVE  Above(f, i)' = Above(f, i) \cup (IF r.file = f /\ r.indent < i
                                            THEN {Len(text) + 1} ELSE {})
<1> DEFINE n == Len(text) + 1
<1>1. /\ DOMAIN text' = DOMAIN text \cup {n} /\ n \notin DOMAIN text
      /\ text'[n] = r
      /\ \A j \in DOMAIN text : text'[j] = text[j]
  OBVIOUS
<1> HIDE DEF n
<1>2. Above(f, i)' = Above(f, i) \cup (IF r.file = f /\ r.indent < i THEN {n} ELSE {})
  BY <1>1 DEF Above
<1> QED
  BY <1>2 DEF n

LEMMA AboveIs ==
  ASSUME text \in Seq(TextLine), NEW f, NEW i
  PROVE  /\ Above(f, i) \in SUBSET (DOMAIN text) /\ Above(f, i) \in SUBSET (0 .. Len(text))
         /\ Above(f, i) # {} => /\ Greatest(Above(f, i)) \in Above(f, i)
                                 /\ Greatest(Above(f, i)) \in DOMAIN text
<1>1. Len(text) \in Nat /\ DOMAIN text = 1 .. Len(text)
  OBVIOUS
<1>2. Above(f, i) \in SUBSET (1 .. Len(text)) /\ Above(f, i) \in SUBSET (0 .. Len(text))
  BY <1>1 DEF Above
<1> QED
  BY <1>1, <1>2, GreatestIs

-----------------------------------------------------------------------------
(* What is in force, as more lines are read.                               *)
LEMMA LineNumbers ==
  ASSUME text \in Seq(TextLine)
  PROVE  Len(text) \in Nat /\ DOMAIN text = 1 .. Len(text)
OBVIOUS

(* Of the block p there is one line that made it.                               *)
Maker(p) == \E k \in DOMAIN text : \A j \in DOMAIN text : Made(j, p) <=> j = k

LEMMA BeginningIs ==
  ASSUME text \in Seq(TextLine), NEW p, NEW k \in DOMAIN text,
         \A j \in DOMAIN text : Made(j, p) <=> j = k
  PROVE  Beginning(p) = k
<1> DEFINE S == {j \in DOMAIN text : Made(j, p)}
<1>1. S \in SUBSET (0 .. Len(text)) /\ Len(text) \in Nat
  OBVIOUS
<1>2. k \in S /\ \A j \in S : j <= k
  <2>1. k \in Int /\ k <= k
    OBVIOUS
  <2> QED
    BY <2>1
<1> HIDE DEF S
<1>3. Greatest(S) = k
  BY <1>1, <1>2, GreatestUnique
<1> QED
  BY <1>3 DEF Beginning, S

LEMMA MadeEarlier ==
  ASSUME text \in Seq(TextLine), NEW r \in TextLine, text' = Append(text, r),
         NEW k \in DOMAIN text, Nested(k), NEW p
  PROVE  Made(k, p)' <=> Made(k, p)
BY Earlier, EarlierBlock DEF Made

(* Its beginning stays where it is if the line that comes next does not make it.  *)
LEMMA MakerStays ==
  ASSUME text \in Seq(TextLine), NEW r \in TextLine, text' = Append(text, r),
         \A k \in DOMAIN text : Nested(k), NEW n, n = Len(text) + 1,
         NEW p, Maker(p), ~ Made(n, p)'
  PROVE  Maker(p)' /\ Beginning(p)' = Beginning(p) /\ Beginning(p) \in DOMAIN text
<1>1. PICK k \in DOMAIN text : \A j \in DOMAIN text : Made(j, p) <=> j = k
  BY DEF Maker
<1>2. Beginning(p) = k
  BY <1>1, BeginningIs
<1>3. \A j \in DOMAIN text : Made(j, p)' <=> j = k
  BY <1>1, MadeEarlier
<1>4. DOMAIN text' = DOMAIN text \cup {n} /\ n \notin DOMAIN text /\ text' \in Seq(TextLine)
  BY Latest
<1>5. \A j \in DOMAIN text' : Made(j, p)' <=> j = k
  BY <1>3, <1>4
<1>6. k \in DOMAIN text'
  BY <1>4
<1>7. Maker(p)'
  BY <1>5, <1>6 DEF Maker
<1>8. Beginning(p)' = k
  <2> DEFINE S == {j \in DOMAIN text' : Made(j, p)'}
  <2>1. S = {k}
    BY <1>5, <1>6
  <2>2. Len(text') \in Nat /\ k \in 0 .. Len(text')
    BY <1>4, <1>6, Latest
  <2>3. {k} \in SUBSET (0 .. Len(text')) /\ k \in {k} /\ \A j \in {k} : j <= k
    BY <2>2
  <2>4. Greatest({k}) = k
    BY <2>2, <2>3, GreatestUnique
  <2> QED
    BY <2>1, <2>4 DEF Beginning, Greatest
<1> QED
  BY <1>1, <1>2, <1>7, <1>8

LEMMA LastSettingIs ==
  ASSUME text \in Seq(TextLine), NEW w, NEW p, NEW m \in 0 .. Len(text)
  PROVE  /\ LastSetting(w, p, m) \in 0 .. m
         /\ LastSetting(w, p, m) # 0 => LastSetting(w, p, m) \in DOMAIN text
         /\ (\A k \in 1 .. m : BlockOf(k) # p) => LastSetting(w, p, m) = 0
<1> DEFINE S == {0} \cup {k \in 1 .. m : text[k].word = w /\ BlockOf(k) = p}
<1>1. S \in SUBSET (0 .. m) /\ S # {} /\ m \in Nat /\ m <= Len(text) /\ Len(text) \in Nat
  OBVIOUS
<1>2. (\A k \in 1 .. m : BlockOf(k) # p) => S = {0}
  OBVIOUS
<1> HIDE DEF S
<1>3. Greatest(S) \in S
  BY <1>1, GreatestIs
<1>4. LastSetting(w, p, m) = Greatest(S)
  BY DEF LastSetting, S
<1>5. LastSetting(w, p, m) \in 0 .. m
  BY <1>1, <1>3, <1>4
<1> QED
  BY <1>1, <1>2, <1>3, <1>4, <1>5, LineNumbers

LEMMA SettingsEarlier ==
  ASSUME text \in Seq(TextLine), NEW r \in TextLine, text' = Append(text, r),
         \A k \in DOMAIN text : Nested(k),
         NEW w, NEW p, NEW m \in 0 .. Len(text)
  PROVE  LastSetting(w, p, m)' = LastSetting(w, p, m)
<1>1. \A k \in 1 .. m : k \in DOMAIN text
  OBVIOUS
<1>2. \A k \in 1 .. m : text'[k] = text[k] /\ BlockOf(k)' = BlockOf(k)
  BY <1>1, Earlier, EarlierBlock
<1>3. {k \in 1 .. m : text[k].word = w /\ BlockOf(k) = p}
        = {k \in 1 .. m : text'[k].word = w /\ BlockOf(k)' = p}
  BY <1>2
<1> QED
  BY <1>3 DEF LastSetting

LEMMA SettingsLatest ==
  ASSUME text \in Seq(TextLine), NEW r \in TextLine, text' = Append(text, r),
         \A k \in DOMAIN text : Nested(k),
         NEW n, n = Len(text) + 1, NEW b, b = BlockOf(n)',
         NEW w, NEW p
  PROVE  LastSetting(w, p, n)' = IF r.word = w /\ b = p THEN n
                                 ELSE LastSetting(w, p, Len(text))
<1> DEFINE S == {0} \cup {k \in 1 .. n - 1 : text[k].word = w /\ BlockOf(k) = p}
           T == {0} \cup {k \in 1 .. n : text'[k].word = w /\ BlockOf(k)' = p}
<1>1. /\ n \in Nat /\ n - 1 = Len(text) /\ text'[n] = r /\ n > 0
      /\ 1 .. n = (1 .. n - 1) \cup {n} /\ 1 .. n - 1 = DOMAIN text
  BY Latest
<1>2. \A k \in 1 .. n - 1 : text'[k] = text[k] /\ BlockOf(k)' = BlockOf(k)
  BY <1>1, Earlier, EarlierBlock
<1>3. T = S \cup (IF r.word = w /\ b = p THEN {n} ELSE {})
  BY <1>1, <1>2
<1>4. S \in SUBSET (0 .. n) /\ T \in SUBSET (0 .. n)
  BY <1>1
<1> HIDE DEF S, T
<1>5. r.word = w /\ b = p => Greatest(T) = n
  <2> SUFFICES ASSUME r.word = w /\ b = p PROVE Greatest(T) = n
    OBVIOUS
  <2>1. n \in T /\ \A j \in T : j <= n
    BY <1>1, <1>3, <1>4
  <2> QED
    BY <1>1, <1>4, <2>1, GreatestUnique
<1>6. ~ (r.word = w /\ b = p) => T = S
  BY <1>3
<1>7. LastSetting(w, p, n)' = Greatest(T)
  BY DEF LastSetting, T, Greatest
<1>8. LastSetting(w, p, Len(text)) = Greatest(S)
  BY <1>1 DEF LastSetting, S
<1> QED
  BY <1>5, <1>6, <1>7, <1>8

LEMMA GlobalEarlier ==
  ASSUME text \in Seq(TextLine), NEW r \in TextLine, text' = Append(text, r),
         \A k \in DOMAIN text : Nested(k),
         NEW w, NEW m \in 0 .. Len(text)
  PROVE  GlobalInForce(w, m)' = GlobalInForce(w, m)
<1>1. PICK k : k = LastSetting(w, Root, m)
  OBVIOUS
<1>2. LastSetting(w, Root, m)' = k
  BY <1>1, SettingsEarlier
<1>3. k # 0 => text'[k] = text[k]
  BY <1>1, LastSettingIs, Earlier
<1> QED
  BY <1>1, <1>2, <1>3 DEF GlobalInForce

(* The node p is that of the names h and v; or of the host h.                      *)
Named(p, h, v) == p = <<h, v>>
NamedHost(p, h) == p = <<h, "">>
HasVolume(p) == p[2] # ""

LEMMA HostEarlier ==
  ASSUME text \in Seq(TextLine), NEW r \in TextLine, text' = Append(text, r),
         \A k \in DOMAIN text : Nested(k), NEW n, n = Len(text) + 1,
         NEW w, NEW h, NEW q, NamedHost(q, h), Maker(q), ~ Made(n, q)', NEW m \in 0 .. Len(text)
  PROVE  HostInForce(w, h, m)' = HostInForce(w, h, m)
<1>1. PICK k : k = LastSetting(w, q, m)
  OBVIOUS
<1>2. LastSetting(w, q, m)' = k
  BY <1>1, SettingsEarlier
<1>3. k # 0 => text'[k] = text[k]
  BY <1>1, LastSettingIs, Earlier
<1>4. PICK s : s = Beginning(q)
  OBVIOUS
<1>5. Beginning(q)' = s /\ s \in DOMAIN text
  BY <1>4, MakerStays
<1>6. s \in 0 .. Len(text)
  BY <1>5, LineNumbers
<1>7. GlobalInForce(w, s)' = GlobalInForce(w, s)
  BY <1>6, GlobalEarlier
<1> QED
  BY <1>1, <1>2, <1>3, <1>4, <1>5, <1>7 DEF HostInForce, Named, NamedHost, HasVolume

(* A line changes what is in force of its own directive in its own block, and      *)
(* nothing else.                                                               *)
LEMMA InForceGrows ==
  ASSUME text \in Seq(TextLine), NEW r \in TextLine, text' = Append(text, r),
         \A k \in DOMAIN text : Nested(k),
         NEW n, n = Len(text) + 1, NEW b, b = BlockOf(n)',
         NEW w, NEW h, NEW v, NEW p, Named(p, h, v), NEW q, NamedHost(q, h),
         p # Root => Maker(p) /\ ~ Made(n, p)',
         HasVolume(p) => Maker(q) /\ ~ Made(n, q)'
  PROVE  InForce(w, p)' = IF r.word = w /\ b = p THEN Value(DirectiveOf[w].form, r.args)
                          ELSE InForce(w, p)
<1> DEFINE m == Len(text)
<1>1. /\ n \in Nat /\ n # 0 /\ text'[n] = r /\ m \in 0 .. m /\ Len(text') = n
  BY Latest, LineNumbers
<1>2. PICK k : k = LastSetting(w, p, m)
  OBVIOUS
<1>3. LastSetting(w, p, n)' = IF r.word = w /\ b = p THEN n ELSE k
  BY <1>2, SettingsLatest
<1>4. k # 0 => text'[k] = text[k]
  BY <1>1, <1>2, LastSettingIs, Earlier
<1>5. CASE p = Root
  <2>1. InForce(w, p) = GlobalInForce(w, m)
    BY <1>5 DEF InForce
  <2>2. InForce(w, p)' = GlobalInForce(w, n)'
    BY <1>1, <1>5 DEF InForce
  <2> HIDE DEF m
  <2>3. GlobalInForce(w, m) = IF k = 0 THEN Initially[w] ELSE Value(DirectiveOf[w].form, text[k].args)
    BY <1>2, <1>5 DEF GlobalInForce
  <2>4. PICK j : j = LastSetting(w, p, n)'
    OBVIOUS
  <2>5. GlobalInForce(w, n)' = IF j = 0 THEN Initially[w]
                               ELSE Value(DirectiveOf[w].form, text'[j].args)
    BY <1>5, <2>4 DEF GlobalInForce, Value, GetBoolean
  <2> QED
    BY <1>1, <1>3, <1>4, <2>1, <2>2, <2>3, <2>4, <2>5
<1>6. CASE p # Root /\ ~ HasVolume(p)
  <2>1. InForce(w, p) = HostInForce(w, h, m)
    BY <1>6 DEF InForce, Named, HasVolume
  <2>2. InForce(w, p)' = HostInForce(w, h, n)'
    BY <1>1, <1>6 DEF InForce, Named, HasVolume
  <2> HIDE DEF m
  <2>3. PICK s : s = Beginning(p)
    OBVIOUS
  <2>4. Beginning(p)' = s /\ s \in DOMAIN text
    BY <1>6, <2>3, MakerStays
  <2>5. GlobalInForce(w, s)' = GlobalInForce(w, s)
    <3>1. s \in 0 .. Len(text)
      BY <2>4, LineNumbers
    <3> QED
      BY <3>1, GlobalEarlier
  <2>6. HostInForce(w, h, m) = IF k # 0 THEN Value(DirectiveOf[w].form, text[k].args)
                               ELSE IF w \in {"group", "hostname"} THEN <<h>>
                               ELSE IF w \in Inherited THEN GlobalInForce(w, s)
                               ELSE Initially[w]
    BY <1>2, <1>6, <2>3 DEF HostInForce, Named, NamedHost, HasVolume
  <2>7. PICK j : j = LastSetting(w, p, n)'
    OBVIOUS
  <2>8. HostInForce(w, h, n)' = IF j # 0 THEN Value(DirectiveOf[w].form, text'[j].args)
                                ELSE IF w \in {"group", "hostname"} THEN <<h>>
                                ELSE IF w \in Inherited THEN GlobalInForce(w, s)'
                                ELSE Initially[w]
    BY <1>6, <2>4, <2>7 DEF HostInForce, Named, NamedHost, HasVolume
  <2> QED
    BY <1>1, <1>3, <1>4, <2>1, <2>2, <2>5, <2>6, <2>7, <2>8
<1>7. CASE p # Root /\ HasVolume(p)
  <2>1. InForce(w, p) = VolumeInForce(w, p, m)
    BY <1>7 DEF InForce, Named, HasVolume
  <2>2. InForce(w, p)' = VolumeInForce(w, p, n)'
    BY <1>1, <1>7 DEF InForce, Named, HasVolume
  <2> HIDE DEF m
  <2>3. PICK s : s = Beginning(p)
    OBVIOUS
  <2>4. Beginning(p)' = s /\ s \in DOMAIN text
    BY <1>7, <2>3, MakerStays
  <2>5. HostInForce(w, h, s)' = HostInForce(w, h, s)
    <3>1. s \in 0 .. Len(text)
      BY <2>4, LineNumbers
    <3> QED
      BY <1>7, <3>1, HostEarlier
  <2>6. VolumeInForce(w, p, m) = IF k # 0 THEN Value(DirectiveOf[w].form, text[k].args)
                                 ELSE IF w \in Inherited THEN HostInForce(w, h, s)
                                 ELSE Initially[w]
    BY <1>2, <2>3 DEF VolumeInForce, Named
  <2>7. PICK j : j = LastSetting(w, p, n)'
    OBVIOUS
  <2>8. VolumeInForce(w, p, n)' = IF j # 0 THEN Value(DirectiveOf[w].form, text'[j].args)
                                  ELSE IF w \in Inherited THEN HostInForce(w, h, s)'
                                  ELSE Initially[w]
    BY <2>4, <2>7 DEF VolumeInForce, Named
  <2> QED
    BY <1>1, <1>3, <1>4, <2>1, <2>2, <2>5, <2>6, <2>7, <2>8
<1> QED
  BY <1>5, <1>6, <1>7

-----------------------------------------------------------------------------
(* The invariant of the reader.                                            *)
Names == HostName \cup VolumeName \cup {""}

ReadFile == [stack : Seq(Nat), opens : {0, 2, 3}, at : Names \X Names, file : Nat]

NodesTyped ==
  /\ DOMAIN nodes \subseteq Names \X Names
  /\ nodes = [p \in DOMAIN nodes |->
                [set |-> [w \in Word |-> nodes[p].set[w]],
                 backup |-> nodes[p].backup, prune |-> nodes[p].prune]]

ReaderTyped ==
  /\ subject \in Subjects
  /\ text \in Seq(TextLine)
  /\ opened \in Nat
  /\ files \in Seq(ReadFile) /\ files # <<>>
  /\ NodesTyped

HasHost(p) == p[1] # ""
HostOf(p) == <<p[1], "">>

LEMMA GlobalIs ==
  ~ HasHost(Root) /\ ~ HasVolume(Root) /\ HostOf(Root) = Root
BY DEF HasHost, HasVolume, HostOf, Root

LEMMA HostIs ==
  ASSUME NEW p
  PROVE  /\ HostOf(p)[1] = p[1] /\ HostOf(HostOf(p)) = HostOf(p)
         /\ ~ HasVolume(HostOf(p))
         /\ HasHost(HostOf(p)) <=> HasHost(p)
         /\ HasHost(p) => HostOf(p) # Root /\ p # Root
<1>1. HostOf(p)[1] = p[1] /\ HostOf(HostOf(p)) = HostOf(p)
  BY DEF HostOf
<1>2. ~ HasVolume(HostOf(p))
  BY DEF HostOf, HasVolume
<1>3. HasHost(HostOf(p)) <=> HasHost(p)
  BY <1>1 DEF HasHost
<1> QED
  BY <1>1, <1>2, <1>3, GlobalIs

LEMMA HostIsNamed ==
  ASSUME NEW p \in Names \X Names
  PROVE  HostOf(p) \in Names \X Names
BY DEF HostOf, Names

LEMMA OuterIs ==
  ASSUME NEW p
  PROVE  Outer(p, 1) = Root /\ Outer(p, 2) = HostOf(p) /\ Outer(p, 3) = p
<1>1. Outer(p, 1) = Root
  BY DEF Outer
<1>2. Outer(p, 2) = HostOf(p)
  BY DEF Outer, HostOf
<1>3. Outer(p, 3) = p
  BY DEF Outer
<1> QED
  BY <1>1, <1>2, <1>3

(* A node is the global one, or a host, or a volume of a host.                   *)
Families ==
  /\ Root \in DOMAIN nodes
  /\ \A p \in DOMAIN nodes : p # Root => HasHost(p) /\ HostOf(p) \in DOMAIN nodes

(* Each line is in a block that there is, and makes what there is.               *)
LinesRight ==
  \A k \in DOMAIN text :
    /\ Nested(k)
    /\ BlockOf(k) \in DOMAIN nodes
    /\ \A p : Made(k, p) => p \in DOMAIN nodes /\ p # Root

Makers == \A p \in DOMAIN nodes : p # Root => Maker(p)

(* The block p at the level is opened by the last of some lines.                  *)
OpenedBy(S, level, p) ==
  S # {} /\ Heads(Greatest(S), level) /\ Owner(Greatest(S)) = Outer(p, level)

(* The deepest level that a line of the file may have.                           *)
Reach(f) == IF f.opens = 0 THEN Len(f.stack) ELSE f.opens

Grows(s) ==
  /\ Len(s) \in 1 .. 3
  /\ s[1] = 0
  /\ \A i, j \in 1 .. Len(s) : i < j => s[i] < s[j]

(* What may be in a block by its level: a host from the second on, a volume in     *)
(* the third.                                                                  *)
AtLevel(p, level) ==
  /\ level >= 2 <=> HasHost(p)
  /\ level = 3 <=> HasVolume(p)

(* The blocks that are open are those that lines of the file have opened.          *)
FileRight(f) ==
  /\ Grows(f.stack)
  /\ f.opens # 0 => f.opens = Len(f.stack) + 1
  /\ f.at \in DOMAIN nodes
  /\ AtLevel(f.at, Reach(f))
  /\ \A level \in 2 .. Len(f.stack) : OpenedBy(Above(f.file, f.stack[level]), level, f.at)
  /\ f.opens # 0 =>
       \A i \in Nat : i > f.stack[Len(f.stack)] => OpenedBy(Above(f.file, i), f.opens, f.at)

OthersOutside ==
  \A i \in 1 .. Len(files) - 1 :
    files[i].stack = <<0>> /\ files[i].opens = 0 /\ files[i].at = Root

Exempt(w) ==
  \/ DirectiveOf[w].form \notin Assigned
  \/ \E k \in DOMAIN text : text[k].word = w /\ Overruns(DirectiveOf[w], text[k])

ValuesRight ==
  \A p \in DOMAIN nodes : \A w \in Word : Exempt(w) \/ Held(p, w) = InForce(w, p)

ReadRight ==
  /\ ReaderTyped /\ Families /\ LinesRight /\ Makers
  /\ FileRight(Current) /\ OthersOutside
  /\ ValuesRight

ReadingInv == phase \in {"read", "validate", "valid"} => ReadRight

LEMMA CurrentIs ==
  ASSUME ReaderTyped
  PROVE  /\ Len(files) \in Nat /\ Len(files) > 0 /\ Len(files) \in DOMAIN files
         /\ Current \in ReadFile /\ DOMAIN files = 1 .. Len(files)
<1>1. files \in Seq(ReadFile) /\ files # <<>>
  BY DEF ReaderTyped
<1> QED
  BY <1>1 DEF Current

(* Where a line stands at a level that there is.                                *)
LEMMA Levels ==
  ASSUME ReaderTyped, FileRight(Current), NEW l, l.indent \in Nat, Placed(l),
         NEW f, f = Current, NEW L, L = LevelOf(l), NEW d, d = OpenDepths(l)
  PROVE  /\ L \in 1 .. 3 /\ L <= Reach(f)
         /\ L \in DirectiveOf[l.word].levels /\ Sound(DirectiveOf[l.word])
         /\ DirectiveOf[l.word].word = l.word
         /\ d \in Seq(Nat) /\ Len(d) = L /\ d[L] = l.indent /\ Grows(d)
         /\ \A i \in 1 .. L - 1 : i \in 1 .. Len(f.stack) /\ d[i] = f.stack[i]
         /\ \/ L \in 1 .. Len(f.stack) /\ f.stack[L] = l.indent
            \/ /\ L = f.opens /\ L = Len(f.stack) + 1
               /\ l.indent > f.stack[Len(f.stack)]
<1>1. f \in ReadFile /\ FileRight(f)
  BY CurrentIs
<1> DEFINE s == f.stack
<1>2. s \in Seq(Nat) /\ f.opens \in {0, 2, 3} /\ s = Depths
  BY <1>1 DEF ReadFile, Depths
<1>3. /\ Grows(s)
      /\ f.opens # 0 => f.opens = Len(s) + 1
      /\ Reach(f) = IF f.opens = 0 THEN Len(s) ELSE f.opens
  BY <1>1 DEF FileRight, Reach
<1>4. /\ L \in DirectiveOf[l.word].levels /\ Sound(DirectiveOf[l.word])
      /\ DirectiveOf[l.word].word = l.word
  BY Found DEF Placed
<1>5. L \in 1 .. 3
  BY <1>4 DEF Sound
<1>6. /\ Fits(l) <=> \E i \in DOMAIN s : s[i] = l.indent
      /\ Fits(l) => L = CHOOSE i \in DOMAIN s : s[i] = l.indent
      /\ ~ Fits(l) => L = IF l.indent > s[Len(s)] THEN f.opens ELSE 0
      /\ d = IF Fits(l) THEN SubSeq(s, 1, L) ELSE Append(s, l.indent)
  BY <1>2 DEF Fits, LevelOf, OpenDepths
<1> HIDE DEF s
<1>7. CASE Fits(l)
  <2>1. L \in DOMAIN s /\ s[L] = l.indent
    BY <1>6, <1>7
  <2>2. DOMAIN s = 1 .. Len(s) /\ Len(s) \in 1 .. 3
    BY <1>2, <1>3 DEF Grows
  <2>3. d = SubSeq(s, 1, L)
    BY <1>6, <1>7
  <2>4. d \in Seq(Nat) /\ Len(d) = L /\ \A i \in 1 .. L : d[i] = s[i]
    BY <1>2, <2>1, <2>2, <2>3
  <2>5. Grows(d)
    BY <1>3, <1>5, <2>1, <2>2, <2>4 DEF Grows
  <2>6. L <= Reach(f)
    BY <1>2, <1>3, <2>1, <2>2
  <2> QED
    BY <1>4, <1>5, <2>1, <2>2, <2>4, <2>5, <2>6 DEF s
<1>8. CASE ~ Fits(l)
  <2>0. L = IF l.indent > s[Len(s)] THEN f.opens ELSE 0
    BY <1>6, <1>8
  <2>1. l.indent > s[Len(s)] /\ L = f.opens /\ L = Len(s) + 1
    BY <1>3, <1>5, <2>0
  <2>2. d = Append(s, l.indent)
    BY <1>6, <1>8
  <2>3. DOMAIN s = 1 .. Len(s) /\ Len(s) \in 1 .. 2
    <3>1. Len(s) \in 1 .. 3 /\ L = Len(s) + 1
      BY <1>3, <2>1 DEF Grows
    <3>2. DOMAIN s = 1 .. Len(s)
      BY <1>2
    <3> QED
      BY <1>5, <3>1, <3>2
  <2>4. /\ d \in Seq(Nat) /\ Len(d) = L /\ d[L] = l.indent
        /\ \A i \in 1 .. Len(s) : d[i] = s[i] /\ s[i] \in Nat
    BY <1>2, <2>1, <2>2, <2>3
  <2>5. \A i \in 1 .. Len(s) : s[i] < l.indent
    <3> SUFFICES ASSUME NEW i \in 1 .. Len(s) PROVE s[i] < l.indent
      OBVIOUS
    <3> DEFINE z == Len(s)
    <3>0. z \in 1 .. Len(s)
      BY <2>3
    <3>1. i = z \/ s[i] < s[z]
      <4>1. i \in Int /\ z \in Int /\ i <= z
        BY <2>3
      <4> QED
        BY <1>3, <3>0, <4>1 DEF Grows
    <3>2. s[i] \in Nat /\ s[z] \in Nat /\ l.indent > s[z]
      BY <2>1, <2>4, <3>0
    <3> HIDE DEF z
    <3> QED
      BY <3>1, <3>2
  <2>6. Grows(d)
    <3>1. \A i \in 1 .. L : i = L \/ i \in 1 .. Len(s)
      BY <2>1, <2>3
    <3> QED
      BY <1>3, <1>5, <2>1, <2>3, <2>4, <2>5, <3>1 DEF Grows
  <2>7. L <= Reach(f)
    BY <1>3, <1>5, <2>1
  <2> QED
    BY <1>4, <1>5, <2>1, <2>3, <2>4, <2>6, <2>7 DEF s
<1> QED
  BY <1>7, <1>8

-----------------------------------------------------------------------------
(* The block of a line.                                                    *)
(* The block that a line is about is that which its indentation shows.             *)
LEMMA Placement ==
  ASSUME ReaderTyped, Families, FileRight(Current), NEW l, l.indent \in Nat, Placed(l),
         NEW f, f = Current, NEW L, L = LevelOf(l), NEW b, b = Here(l),
         NEW S, S = Above(f.file, l.indent)
  PROVE  /\ b = Outer(f.at, L) /\ b \in DOMAIN nodes /\ AtLevel(b, L)
         /\ L = 1 => S = {}
         /\ L # 1 => OpenedBy(S, L, f.at)
<1>1. f \in ReadFile /\ FileRight(f)
  BY CurrentIs
<1>2. f.at \in Names \X Names /\ f.opens \in {0, 2, 3}
  BY <1>1 DEF ReadFile
<1>3. L \in 1 .. 3 /\ L <= Reach(f)
  BY Levels
<1>4. \/ L \in 1 .. Len(f.stack) /\ f.stack[L] = l.indent
      \/ /\ L = f.opens /\ L = Len(f.stack) + 1
         /\ l.indent > f.stack[Len(f.stack)]
  BY Levels
<1>5. b = Outer(f.at, L)
  BY DEF Here
<1>6. f.at \in DOMAIN nodes /\ AtLevel(f.at, Reach(f)) /\ Grows(f.stack)
  BY <1>1 DEF FileRight
<1>7. b \in DOMAIN nodes /\ AtLevel(b, L)
  <2> DEFINE p == f.at
  <2>2. Reach(f) \in 1 .. 3
    BY <1>2, <1>6 DEF Reach, Grows
  <2>3. CASE L = 1
    BY <1>5, <2>3, OuterIs, GlobalIs DEF Families, AtLevel
  <2>4. CASE L = 2
    <3>1. HasHost(p) /\ p # Root
      BY <1>3, <1>6, <2>2, <2>4, GlobalIs DEF AtLevel
    <3>2. b = HostOf(p)
      BY <1>5, <2>4, OuterIs
    <3>3. b \in DOMAIN nodes
      BY <1>6, <3>1, <3>2 DEF Families
    <3> QED
      BY <2>4, <3>1, <3>2, <3>3, HostIs DEF AtLevel
  <2>5. CASE L = 3
    <3>1. b = p /\ Reach(f) = 3
      BY <1>3, <1>5, <2>2, <2>5, OuterIs
    <3> QED
      BY <1>6, <2>5, <3>1
  <2> QED
    BY <1>3, <2>3, <2>4, <2>5
<1>8. L = 1 => S = {}
  <2> SUFFICES ASSUME L = 1 PROVE S = {}
    OBVIOUS
  <2>1. l.indent = 0
    <3>1. L \in 1 .. Len(f.stack) /\ f.stack[L] = l.indent
      BY <1>2, <1>4
    <3> QED
      BY <1>6, <3>1 DEF Grows
  <2>2. \A j \in DOMAIN text : text[j].indent \in Nat
    <3>1. text \in Seq(TextLine)
      BY DEF ReaderTyped
    <3>2. \A j \in DOMAIN text : text[j] \in TextLine
      BY <3>1
    <3> QED
      BY <3>2 DEF TextLine
  <2> QED
    BY <2>1, <2>2 DEF Above
<1>9. L # 1 => OpenedBy(S, L, f.at)
  <2> SUFFICES ASSUME L # 1 PROVE OpenedBy(S, L, f.at)
    OBVIOUS
  <2>1. CASE L \in 1 .. Len(f.stack) /\ f.stack[L] = l.indent
    <3>1. L \in 2 .. Len(f.stack)
      BY <1>3, <1>6, <2>1 DEF Grows
    <3> QED
      BY <1>1, <2>1, <3>1 DEF FileRight
  <2>2. CASE L = f.opens /\ l.indent > f.stack[Len(f.stack)]
    BY <1>1, <1>3, <2>2 DEF FileRight
  <2> QED
    BY <1>4, <2>1, <2>2
<1> QED
  BY <1>5, <1>7, <1>8, <1>9

LEMMA LinePlaced ==
  ASSUME ReaderTyped, Families, FileRight(Current), NEW l, l.indent \in Nat, Placed(l),
         NEW f, f = Current, NEW L, L = LevelOf(l), NEW b, b = Here(l),
         NEW r \in TextLine, text' = Append(text, r), r.file = f.file, r.indent = l.indent,
         NEW n, n = Len(text) + 1
  PROVE  BlockOf(n)' = b /\ Nested(n)'
<1>0. PICK S : S = Above(f.file, l.indent)
  OBVIOUS
<1>1. /\ b = Outer(f.at, L)
      /\ L = 1 => S = {}
      /\ L # 1 => OpenedBy(S, L, f.at)
  BY <1>0, Placement
<1>2. text \in Seq(TextLine)
  BY DEF ReaderTyped
<1>3. Outside(n)' = S
  BY <1>0, <1>2, Latest
<1>4. ASSUME NEW h, h = Greatest(Outside(n))'
      PROVE  BlockOf(n)' = IF Outside(n)' = {} THEN Root ELSE Owner(h)'
  BY <1>4 DEF BlockOf, Opener, Owner
<1>5. CASE L = 1
  <2>1. S = {} /\ b = Root
    BY <1>1, <1>5, OuterIs
  <2> QED
    BY <1>3, <1>4, <2>1 DEF Nested
<1>6. CASE L # 1
  <2>1. PICK h : h = Greatest(S)
    OBVIOUS
  <2>2. S # {} /\ Heads(h, L) /\ Owner(h) = b
    BY <1>1, <1>6, <2>1 DEF OpenedBy
  <2>3. h \in DOMAIN text
    BY <1>0, <1>2, <2>1, <2>2, AboveIs
  <2>4. Heads(h, L)' /\ Owner(h)' = Owner(h)
    BY <1>2, <2>2, <2>3, Earlier
  <2>5. Greatest(Outside(n))' = h
    BY <1>3, <2>1 DEF Greatest
  <2>6. BlockOf(n)' = b
    BY <1>3, <1>4, <2>2, <2>4, <2>5
  <2>7. L = 2 \/ L = 3
    BY <2>2 DEF Heads
  <2>8. Nested(n)'
    BY <2>4, <2>5, <2>7 DEF Nested
  <2> QED
    BY <2>6, <2>8
<1> QED
  BY <1>5, <1>6

LEMMA OpenStays ==
  ASSUME text \in Seq(TextLine), NEW r \in TextLine, text' = Append(text, r),
         NEW F, NEW i, ~ (r.file = F /\ r.indent < i),
         NEW level, NEW p, NEW q, Outer(q, level) = Outer(p, level),
         OpenedBy(Above(F, i), level, p)
  PROVE  OpenedBy(Above(F, i), level, q)'
<1>1. Above(F, i)' = Above(F, i)
  BY AboveGrows
<1>2. PICK S : S = Above(F, i)
  OBVIOUS
<1>3. PICK h : h = Greatest(S)
  OBVIOUS
<1>4. S # {} /\ Heads(h, level) /\ Owner(h) = Outer(p, level)
  BY <1>2, <1>3 DEF OpenedBy
<1>5. h \in DOMAIN text
  BY <1>2, <1>3, <1>4, AboveIs
<1>6. Heads(h, level)' /\ Owner(h)' = Outer(q, level)
  BY <1>4, <1>5, Earlier
<1>7. Above(F, i)' = S /\ Greatest(Above(F, i))' = h
  BY <1>1, <1>2, <1>3 DEF Greatest
<1> QED
  BY <1>4, <1>6, <1>7 DEF OpenedBy, Outer

-----------------------------------------------------------------------------
(* The file that is read, after a line.                                    *)
(* A line that is placed, and what the reader makes of it.                        *)
LineRead(l, f, L, b, r, n) ==
  /\ l.indent \in Nat /\ Placed(l)
  /\ f = Current /\ L = LevelOf(l) /\ b = Here(l)
  /\ r = [file |-> f.file, indent |-> l.indent, word |-> l.word, args |-> l.args]
  /\ r \in TextLine
  /\ n = Len(text) + 1

(* The block that the line opens, if it does, is one that comes to be.             *)
Opening(l, L, b, o, c) ==
  \/ o = 0 /\ c = b
  \/ o = 2 /\ L = 1 /\ l.word = "host" /\ c[1] = l.args[1] /\ HasHost(c) /\ c = HostOf(c)
  \/ /\ o = 3 /\ L = 2 /\ l.word = "volume" /\ c[2] = l.args[1] /\ HasVolume(c)
     /\ HostOf(c) = b /\ c = <<b[1], l.args[1]>>

LEMMA FileAfter ==
  ASSUME ReaderTyped, Families, FileRight(Current),
         NEW l, NEW f, NEW L, NEW b, NEW r, NEW n, LineRead(l, f, L, b, r, n),
         text' = Append(text, r),
         NEW g, g.stack = OpenDepths(l), g.file = f.file, g.at \in DOMAIN nodes',
         Opening(l, L, b, g.opens, g.at)
  PROVE  FileRight(g)'
<1> DEFINE d == g.stack
           c == g.at
           o == g.opens
           F == f.file
<1>1. /\ l.indent \in Nat /\ Placed(l) /\ f = Current /\ L = LevelOf(l) /\ b = Here(l)
      /\ r \in TextLine /\ r.file = F /\ r.indent = l.indent /\ r.word = l.word
      /\ r.args = l.args /\ n = Len(text) + 1
  BY DEF LineRead
<1>2. f \in ReadFile /\ FileRight(f) /\ text \in Seq(TextLine)
  BY <1>1, CurrentIs DEF ReaderTyped
<1>3. d = OpenDepths(l)
  OBVIOUS
<1>4. /\ L \in 1 .. 3 /\ d \in Seq(Nat) /\ Len(d) = L /\ d[L] = l.indent /\ Grows(d)
      /\ \A i \in 1 .. L - 1 : i \in 1 .. Len(f.stack) /\ d[i] = f.stack[i]
  BY <1>1, <1>3, Levels
<1>5. PICK S : S = Above(f.file, l.indent) /\ S = Above(F, l.indent)
  OBVIOUS
<1>6. /\ b = Outer(f.at, L) /\ AtLevel(b, L)
      /\ L = 1 => S = {}
      /\ L # 1 => OpenedBy(S, L, f.at)
  <2>1. /\ l.indent \in Nat /\ Placed(l) /\ f = Current /\ L = LevelOf(l)
        /\ b = Here(l)
    BY <1>1
  <2> HIDE DEF d, c, o, F
  <2> QED
    BY <1>5, <2>1, Placement
<1>7. Opening(l, L, b, o, c)
  OBVIOUS
<1>8. c \in DOMAIN nodes' /\ g.file = F
  OBVIOUS
<1> HIDE DEF d, c, o, F
<1>9. o # 0 => o = Len(d) + 1
  BY <1>4, <1>7 DEF Opening
<1>10. AtLevel(c, IF o = 0 THEN Len(d) ELSE o)
  <2>1. CASE o = 0 /\ c = b
    BY <1>4, <1>6, <2>1
  <2>2. CASE o = 2 /\ HasHost(c) /\ c = HostOf(c)
    BY <2>2, HostIs DEF AtLevel
  <2>3. CASE o = 3 /\ L = 2 /\ HasVolume(c) /\ HostOf(c) = b
    BY <1>6, <2>3, HostIs DEF AtLevel
  <2> QED
    BY <1>7, <2>1, <2>2, <2>3 DEF Opening
<1>11. ASSUME NEW m \in 1 .. L
       PROVE  Outer(c, m) = Outer(f.at, m)
  <2>1. Outer(b, m) = Outer(f.at, m)
    BY <1>4, <1>6, OuterIs, HostIs
  <2>2. Outer(c, m) = Outer(b, m)
    BY <1>4, <1>7, OuterIs, HostIs DEF Opening
  <2> QED
    BY <2>1, <2>2
<1>12. ASSUME NEW m \in 2 .. L
       PROVE  OpenedBy(Above(F, d[m]), m, c)'
  <2>1. PICK i : i = d[m]
    OBVIOUS
  <2>2. OpenedBy(Above(F, i), m, f.at)
    <3>1. CASE m = L
      <4>1. L # 1 /\ i = l.indent
        BY <1>4, <2>1, <3>1
      <4> QED
        BY <1>5, <1>6, <3>1, <4>1
    <3>2. CASE m # L
      <4>1. m \in 1 .. L - 1
        BY <1>4, <3>2
      <4>2. m \in 2 .. Len(f.stack) /\ i = f.stack[m]
        BY <1>4, <2>1, <4>1
      <4> QED
        BY <1>2, <4>2 DEF FileRight, F
    <3> QED
      BY <3>1, <3>2
  <2>3. ~ (r.indent < i)
    <3>1. m = L \/ d[m] < d[L]
      <4>1. m \in 1 .. Len(d) /\ L \in 1 .. Len(d) /\ (m = L \/ m < L)
        BY <1>4
      <4> QED
        BY <1>4, <4>1 DEF Grows
    <3>2. i \in Nat /\ l.indent \in Nat /\ l.indent = d[L]
      BY <1>1, <1>4, <2>1
    <3> QED
      BY <1>1, <2>1, <3>1, <3>2
  <2>4. m \in 1 .. L
    BY <1>4
  <2>5. OpenedBy(Above(F, i), m, c)'
    BY <1>1, <1>2, <1>11, <2>2, <2>3, <2>4, OpenStays
  <2> QED
    BY <2>1, <2>5
<1>13. ASSUME o # 0, NEW i \in Nat, i > d[Len(d)]
       PROVE  OpenedBy(Above(F, i), o, c)'
  <2>1. i > r.indent
    BY <1>1, <1>4, <1>13
  <2>2. Above(F, i)' = Above(F, i) \cup {n}
    BY <1>1, <1>2, <2>1, AboveGrows
  <2>3. Above(F, i) \in SUBSET (0 .. Len(text)) /\ n \in Nat /\ n - 1 = Len(text)
    BY <1>1, <1>2, AboveIs, Latest
  <2>4. Greatest(Above(F, i) \cup {n}) = n
    <3> DEFINE T == Above(F, i) \cup {n}
    <3>1. T \in SUBSET (0 .. n) /\ n \in T /\ \A j \in T : j <= n
      BY <2>3
    <3> HIDE DEF T
    <3>2. Greatest(T) = n
      BY <2>3, <3>1, GreatestUnique
    <3> QED
      BY <3>2 DEF T
  <2>5. Greatest(Above(F, i))' = n /\ Above(F, i)' # {}
    BY <2>2, <2>4 DEF Greatest
  <2>6. text'[n] = r /\ Outside(n)' = S
    BY <1>1, <1>2, <1>5, Latest
  <2>7. Heads(n, o)' /\ Owner(n)' = Outer(c, o)
    <3>1. CASE o = 2 /\ l.word = "host" /\ c[1] = l.args[1] /\ c = HostOf(c)
      <4>1. Heads(n, o)'
        BY <1>1, <2>6, <3>1 DEF Heads
      <4>2. Owner(n)' = <<l.args[1], "">>
        BY <1>1, <2>6, <3>1 DEF Owner
      <4>3. Outer(c, o) = HostOf(c)
        BY <3>1, OuterIs
      <4> QED
        BY <3>1, <4>1, <4>2, <4>3 DEF HostOf
    <3>2. CASE o = 3 /\ L = 2 /\ l.word = "volume" /\ c = <<b[1], l.args[1]>>
      <4>1. PICK h : h = Greatest(S)
        OBVIOUS
      <4>2. S # {} /\ Heads(h, 2) /\ Owner(h) = b
        BY <1>6, <3>2, <4>1 DEF OpenedBy
      <4>3. text[h].word = "host"
        BY <4>2 DEF Heads
      <4>4. b[1] = text[h].args[1]
        BY <4>2, <4>3 DEF Owner
      <4>5. h \in DOMAIN text
        BY <1>2, <1>5, <4>1, <4>2, AboveIs
      <4>6. Greatest(Outside(n))' = h /\ text'[h] = text[h]
        BY <1>1, <1>2, <2>6, <4>1, <4>5, Earlier DEF Greatest
      <4>7. Opener(n)' = text[h]
        BY <4>6 DEF Opener
      <4>8. Heads(n, o)'
        BY <1>1, <2>6, <3>2, <4>2, <4>3, <4>7 DEF Heads
      <4>9. Owner(n)' = <<b[1], l.args[1]>>
        BY <1>1, <2>6, <3>2, <4>4, <4>7 DEF Owner
      <4> QED
        BY <3>2, <4>8, <4>9, OuterIs
    <3> QED
      BY <1>7, <1>13, <3>1, <3>2 DEF Opening
  <2> QED
    BY <2>5, <2>7 DEF OpenedBy, Outer
<1> QED
  BY <1>4, <1>8, <1>9, <1>10, <1>12, <1>13 DEF FileRight, d, c, o, Reach, Grows, AtLevel, HasHost, HasVolume

-----------------------------------------------------------------------------
(* The lines, after a line.                                                *)
(* Of the nodes a line changes none, or makes one that it begins.                 *)
Begins(l, o, c) ==
  /\ o = 0 => l.word \notin {"host", "volume"} /\ DOMAIN nodes' = DOMAIN nodes
  /\ o # 0 => c \notin DOMAIN nodes /\ DOMAIN nodes' = DOMAIN nodes \cup {c}

LEMMA LinesAfter ==
  ASSUME ReaderTyped, Families, LinesRight, Makers, FileRight(Current),
         NEW l, NEW f, NEW L, NEW b, NEW r, NEW n, LineRead(l, f, L, b, r, n),
         text' = Append(text, r),
         NEW o, NEW c, Opening(l, L, b, o, c), Begins(l, o, c)
  PROVE  /\ LinesRight' /\ Makers' /\ Families'
         /\ \A p \in DOMAIN nodes : ~ Made(n, p)'
         /\ BlockOf(n)' = b /\ b \in DOMAIN nodes
         /\ o # 0 => Beginning(c)' = n
<1>1. /\ l.indent \in Nat /\ Placed(l) /\ f = Current /\ L = LevelOf(l) /\ b = Here(l)
      /\ r \in TextLine /\ r.file = f.file /\ r.indent = l.indent /\ r.word = l.word
      /\ r.args = l.args /\ n = Len(text) + 1
  BY DEF LineRead
<1>2. text \in Seq(TextLine)
  BY DEF ReaderTyped
<1>3. BlockOf(n)' = b /\ Nested(n)'
  BY <1>1, LinePlaced
<1>4. b \in DOMAIN nodes /\ AtLevel(b, L)
  <2>1. PICK S : S = Above(f.file, l.indent)
    OBVIOUS
  <2> QED
    BY <1>1, <2>1, Placement
<1>5. /\ DOMAIN text' = DOMAIN text \cup {n} /\ n \notin DOMAIN text
      /\ text'[n] = r /\ text' \in Seq(TextLine) /\ Len(text') = n /\ n \in Nat
  BY <1>1, <1>2, Latest
<1>6. o # 0 => o = 2 \/ o = 3
  BY DEF Opening
<1>7. ASSUME NEW p
      PROVE  Made(n, p)' <=> o # 0 /\ p = c
  <2>0. PICK q : q = <<r.args[1], "">>
    OBVIOUS
  <2>1. Made(n, p)' <=> \/ r.word = "host" /\ p = q
                        \/ r.word = "volume" /\ p = <<b[1], r.args[1]>>
    BY <1>3, <1>5, <2>0 DEF Made
  <2>2. CASE o = 0
    BY <1>1, <2>1, <2>2 DEF Begins
  <2>3. CASE o = 2
    <3>1. l.word = "host" /\ c[1] = l.args[1] /\ c = HostOf(c)
      BY <2>3 DEF Opening
    <3>2. c = q
      BY <1>1, <2>0, <3>1 DEF HostOf
    <3> QED
      BY <1>1, <2>1, <2>3, <3>1, <3>2
  <2>4. CASE o = 3
    <3>1. l.word = "volume" /\ c = <<b[1], l.args[1]>>
      BY <2>4 DEF Opening
    <3> QED
      BY <1>1, <2>1, <2>4, <3>1
  <2> QED
    BY <1>6, <2>2, <2>3, <2>4
<1>8. \A p \in DOMAIN nodes : ~ Made(n, p)'
  BY <1>7 DEF Begins
<1>9. DOMAIN nodes \subseteq DOMAIN nodes' /\ (o # 0 => c \in DOMAIN nodes' /\ c \notin DOMAIN nodes)
      /\ (o = 0 => DOMAIN nodes' = DOMAIN nodes)
      /\ (o # 0 => DOMAIN nodes' = DOMAIN nodes \cup {c})
  BY DEF Begins
<1>10. o # 0 => c # Root
  BY <1>9 DEF Families
<1>11. LinesRight'
  <2> SUFFICES ASSUME NEW k \in DOMAIN text'
               PROVE  /\ Nested(k)'
                      /\ BlockOf(k)' \in DOMAIN nodes'
                      /\ \A p : Made(k, p)' => p \in DOMAIN nodes' /\ p # Root
    BY DEF LinesRight, Root
  <2>1. CASE k = n
    BY <1>3, <1>4, <1>7, <1>9, <1>10, <2>1
  <2>2. CASE k \in DOMAIN text
    <3>1. /\ Nested(k) /\ BlockOf(k) \in DOMAIN nodes
          /\ \A p : Made(k, p) => p \in DOMAIN nodes /\ p # Root
      BY <2>2 DEF LinesRight
    <3>2. Nested(k)' /\ BlockOf(k)' = BlockOf(k)
      BY <1>1, <1>2, <2>2, <3>1, EarlierBlock
    <3>3. \A p : Made(k, p)' <=> Made(k, p)
      BY <1>1, <1>2, <2>2, <3>1, MadeEarlier
    <3> QED
      BY <1>9, <3>1, <3>2, <3>3
  <2> QED
    BY <1>5, <2>1, <2>2
<1>12. ASSUME o # 0
       PROVE  Maker(c)' /\ Beginning(c)' = n
  <2>1. \A j \in DOMAIN text : ~ Made(j, c)'
    BY <1>1, <1>2, <1>9, <1>12, MadeEarlier DEF LinesRight
  <2>2. \A j \in DOMAIN text' : Made(j, c)' <=> j = n
    BY <1>5, <1>7, <1>12, <2>1
  <2>3. Maker(c)'
    BY <1>5, <2>2 DEF Maker
  <2>4. {j \in DOMAIN text' : Made(j, c)'} = {n}
    BY <1>5, <2>2
  <2>5. Greatest({n}) = n
    <3>1. {n} \in SUBSET (0 .. n) /\ n \in {n} /\ \A j \in {n} : j <= n
      BY <1>5
    <3> QED
      BY <1>5, <3>1, GreatestUnique
  <2>6. Beginning(c)' = n
    BY <2>4, <2>5 DEF Beginning, Greatest
  <2> QED
    BY <2>3, <2>6
<1>13. Makers'
  <2> SUFFICES ASSUME NEW p \in DOMAIN nodes', p # Root PROVE Maker(p)'
    BY DEF Makers, Root
  <2>1. CASE o # 0 /\ p = c
    BY <1>12, <2>1
  <2>2. CASE p \in DOMAIN nodes
    <3>1. Maker(p) /\ ~ Made(n, p)'
      BY <1>8, <2>2 DEF Makers
    <3>2. \A k \in DOMAIN text : Nested(k)
      BY DEF LinesRight
    <3> QED
      BY <1>1, <1>2, <3>1, <3>2, MakerStays
  <2> QED
    BY <1>9, <2>1, <2>2
<1>14. Families'
  <2>1. o # 0 => HasHost(c) /\ (HostOf(c) = c \/ HostOf(c) = b)
    <3>1. o = 3 => HasHost(c)
      <4>1. o = 3 => HostOf(c) = b /\ HasHost(b)
        BY <1>4 DEF Opening, AtLevel
      <4> QED
        BY <4>1, HostIs
    <3> QED
      BY <1>6, <3>1 DEF Opening
  <2>2. Root \in DOMAIN nodes'
    BY <1>9 DEF Families
  <2>3. ASSUME NEW p \in DOMAIN nodes', p # Root
        PROVE  HasHost(p) /\ HostOf(p) \in DOMAIN nodes'
    BY <1>4, <1>9, <2>1, <2>3 DEF Families
  <2> QED
    BY <2>2, <2>3 DEF Families, Root, HasHost, HostOf
<1> QED
  BY <1>3, <1>4, <1>8, <1>11, <1>12, <1>13, <1>14

-----------------------------------------------------------------------------
(* The values, after a line.                                               *)
LEMMA ExemptStays ==
  ASSUME ReaderTyped, NEW l, NEW f, NEW L, NEW b, NEW r, NEW n, LineRead(l, f, L, b, r, n),
         text' = Append(text, r), NEW w
  PROVE  /\ Exempt(w) => Exempt(w)'
         /\ Overruns(DirectiveOf[l.word], l) => Exempt(l.word)'
<1>1. r \in TextLine /\ r.word = l.word /\ r.args = l.args /\ n = Len(text) + 1
  BY DEF LineRead
<1>2. text \in Seq(TextLine)
  BY DEF ReaderTyped
<1>3. \A k \in DOMAIN text : k \in DOMAIN text' /\ text'[k] = text[k]
  BY <1>1, <1>2
<1>4. n \in DOMAIN text' /\ text'[n] = r
  BY <1>1, <1>2, Latest
<1>5. Exempt(w) => Exempt(w)'
  BY <1>3 DEF Exempt, Overruns
<1>6. Overruns(DirectiveOf[l.word], l) => Exempt(l.word)'
  BY <1>1, <1>4 DEF Exempt, Overruns
<1> QED
  BY <1>5, <1>6

(* The values of the nodes that there were are those in force.                    *)
LEMMA OldValues ==
  ASSUME ReaderTyped, Families, LinesRight, Makers, FileRight(Current), ValuesRight,
         NEW l, NEW f, NEW L, NEW b, NEW r, NEW n, LineRead(l, f, L, b, r, n),
         text' = Append(text, r),
         NEW o, NEW c, Opening(l, L, b, o, c), Begins(l, o, c),
         \A p \in DOMAIN nodes : \A w \in Word :
           w # l.word \/ p # b => Exempt(w)' \/ Held(p, w)' = Held(p, w),
         \/ l.word \notin Word
         \/ Exempt(l.word)'
         \/ Held(b, l.word)' = Value(DirectiveOf[l.word].form, l.args)
  PROVE  \A p \in DOMAIN nodes : \A w \in Word :
           Exempt(w)' \/ Held(p, w)' = InForce(w, p)'
<1> SUFFICES ASSUME NEW p \in DOMAIN nodes, NEW w \in Word, ~ Exempt(w)'
             PROVE  Held(p, w)' = InForce(w, p)'
  OBVIOUS
<1>1. r \in TextLine /\ r.word = l.word /\ r.args = l.args /\ n = Len(text) + 1
  BY DEF LineRead
<1>2. text \in Seq(TextLine) /\ p \in Names \X Names
  BY DEF ReaderTyped, NodesTyped
<1>3. /\ BlockOf(n)' = b /\ b \in DOMAIN nodes
      /\ \A q \in DOMAIN nodes : ~ Made(n, q)'
  BY LinesAfter
<1>4. \A k \in DOMAIN text : Nested(k)
  BY DEF LinesRight
<1>5. p # Root => Maker(p) /\ HostOf(p) \in DOMAIN nodes /\ HasHost(p)
  BY DEF Makers, Families
<1>6. PICK q : q = HostOf(p)
  OBVIOUS
<1>7. PICK h, v : Named(p, h, v) /\ NamedHost(q, h)
  <2>1. p = <<p[1], p[2]>>
    BY <1>2
  <2>2. Named(p, p[1], p[2]) /\ NamedHost(q, p[1])
    BY <1>6, <2>1 DEF Named, NamedHost, HostOf
  <2> QED
    BY <2>2
<1>8. HasVolume(p) => Maker(q) /\ ~ Made(n, q)'
  <2> SUFFICES ASSUME HasVolume(p) PROVE Maker(q) /\ ~ Made(n, q)'
    OBVIOUS
  <2>1. p # Root
    BY GlobalIs
  <2>2. q \in DOMAIN nodes /\ q # Root
    BY <1>5, <1>6, <2>1, HostIs
  <2> QED
    BY <1>3, <2>2 DEF Makers
<1>9. p # Root => Maker(p) /\ ~ Made(n, p)'
  BY <1>3, <1>5
<1>10. InForce(w, p)' = IF r.word = w /\ b = p THEN Value(DirectiveOf[w].form, r.args)
                        ELSE InForce(w, p)
  <2>1. PICK bb : bb = BlockOf(n)'
    OBVIOUS
  <2> QED
    BY <1>1, <1>2, <1>3, <1>4, <1>7, <1>8, <1>9, InForceGrows
<1>11. CASE w = l.word /\ p = b
  BY <1>1, <1>10, <1>11
<1>12. CASE w # l.word \/ p # b
  <2>1. Held(p, w)' = Held(p, w)
    BY <1>12
  <2>2. ~ Exempt(w)
    BY ExemptStays
  <2>3. Held(p, w) = InForce(w, p)
    BY <2>2 DEF ValuesRight
  <2> QED
    BY <1>1, <1>10, <1>12, <2>1, <2>3
<1> QED
  BY <1>11, <1>12

(* And those of one that comes to be are those in force around it.                *)
LEMMA NewValues ==
  ASSUME ReaderTyped, Families, LinesRight, Makers, FileRight(Current),
         NEW l, NEW f, NEW L, NEW b, NEW r, NEW n, LineRead(l, f, L, b, r, n),
         text' = Append(text, r),
         NEW o, NEW c, o # 0, Opening(l, L, b, o, c), Begins(l, o, c),
         NEW w \in Word, Held(b, w)' = InForce(w, b)', DirectiveOf[w].form \in Assigned,
         Held(c, w)' = IF o = 2 /\ w \in {"group", "hostname"} THEN <<l.args[1]>>
                       ELSE IF w \in Inherited THEN Held(b, w)'
                       ELSE Initially[w]
  PROVE  Held(c, w)' = InForce(w, c)'
<1>1. /\ r \in TextLine /\ r.word = l.word /\ r.args = l.args /\ n = Len(text) + 1
      /\ Placed(l) /\ l.indent \in Nat /\ f = Current /\ L = LevelOf(l) /\ b = Here(l)
  BY DEF LineRead
<1>2. text \in Seq(TextLine) /\ Len(text) \in 0 .. Len(text)
  BY LineNumbers DEF ReaderTyped
<1>3. BlockOf(n)' = b /\ b \in DOMAIN nodes /\ Beginning(c)' = n
  BY LinesAfter
<1>4. \A k \in DOMAIN text : Nested(k) /\ BlockOf(k) # c
  BY DEF LinesRight, Begins
<1>5. b # c
  BY <1>3 DEF Begins
<1>6. LastSetting(w, c, n)' = 0
  <2>1. LastSetting(w, c, Len(text)) = 0
    BY <1>2, <1>4, LastSettingIs, LineNumbers
  <2>2. \A k \in DOMAIN text : Nested(k)
    BY <1>4
  <2> QED
    BY <1>1, <1>2, <1>3, <1>5, <2>1, <2>2, SettingsLatest
<1>7. Len(text') = n
  BY <1>1, <1>2, Latest
<1>8. CASE o = 2
  <2>1. L = 1 /\ c[1] = l.args[1] /\ c = HostOf(c) /\ HasHost(c)
    BY <1>8 DEF Opening
  <2>2. b = Root
    <3>1. PICK S : S = Above(f.file, l.indent)
      OBVIOUS
    <3>2. b = Outer(f.at, L)
      BY <1>1, <3>1, Placement
    <3> QED
      BY <2>1, <3>2, OuterIs
  <2>3. PICK h : h = c[1]
    OBVIOUS
  <2>4. PICK q : q = <<h, "">>
    OBVIOUS
  <2>5. c = q /\ c # Root
    BY <2>1, <2>3, <2>4, GlobalIs DEF HostOf
  <2>6. ~ HasVolume(c)
    BY <2>1, HostIs
  <2>7. InForce(w, c)' = HostInForce(w, h, n)'
    BY <1>7, <2>3, <2>5, <2>6 DEF InForce, HasVolume
  <2>8. GlobalInForce(w, n)' = InForce(w, b)'
    BY <1>7, <2>2 DEF InForce
  <2>9. HostInForce(w, h, n)' = IF w \in {"group", "hostname"} THEN <<h>>
                                ELSE IF w \in Inherited THEN GlobalInForce(w, n)'
                                ELSE Initially[w]
    BY <1>3, <1>6, <2>4, <2>5 DEF HostInForce
  <2> QED
    BY <1>8, <2>1, <2>3, <2>7, <2>8, <2>9
<1>9. CASE o = 3
  <2>1. L = 2 /\ HostOf(c) = b /\ HasVolume(c) /\ c = <<b[1], l.args[1]>>
    BY <1>9 DEF Opening
  <2>2. HasHost(b) /\ b # Root
    <3>1. PICK S : S = Above(f.file, l.indent)
      OBVIOUS
    <3>2. AtLevel(b, L)
      BY <1>1, <3>1, Placement
    <3> QED
      BY <2>1, <3>2, HostIs DEF AtLevel
  <2>3. c[1] = b[1] /\ c # Root /\ ~ HasVolume(b)
    BY <2>1, GlobalIs, HostIs
  <2>4. InForce(w, c)' = VolumeInForce(w, c, n)'
    BY <1>7, <2>1, <2>3 DEF InForce, HasVolume
  <2>5. InForce(w, b)' = HostInForce(w, b[1], n)'
    BY <1>7, <2>2, <2>3 DEF InForce, HasVolume
  <2>6. VolumeInForce(w, c, n)' = IF w \in Inherited THEN HostInForce(w, b[1], n)'
                                  ELSE Initially[w]
    BY <1>3, <1>6, <2>3 DEF VolumeInForce
  <2> QED
    BY <1>9, <2>4, <2>5, <2>6
<1> QED
  BY <1>8, <1>9 DEF Opening

(* What a line does to the values of nodes: it sets its own, or makes a node.       *)
ValuesSet(l, b, o, c) ==
  /\ \A p \in DOMAIN nodes : \A w \in Word :
       w # l.word \/ p # b => Exempt(w)' \/ Held(p, w)' = Held(p, w)
  /\ \/ l.word \notin Word
     \/ Exempt(l.word)'
     \/ Held(b, l.word)' = Value(DirectiveOf[l.word].form, l.args)
  /\ o # 0 =>
       \A w \in Word :
         Held(c, w)' = IF o = 2 /\ w \in {"group", "hostname"} THEN <<l.args[1]>>
                       ELSE IF w \in Inherited THEN Held(b, w)'
                       ELSE Initially[w]

LEMMA ValuesAfter ==
  ASSUME ReaderTyped, Families, LinesRight, Makers, FileRight(Current), ValuesRight,
         NEW l, NEW f, NEW L, NEW b, NEW r, NEW n, LineRead(l, f, L, b, r, n),
         text' = Append(text, r),
         NEW o, NEW c, Opening(l, L, b, o, c), Begins(l, o, c), ValuesSet(l, b, o, c)
  PROVE  ValuesRight'
<1>1. \A p \in DOMAIN nodes : \A w \in Word : Exempt(w)' \/ Held(p, w)' = InForce(w, p)'
  <2>1. /\ \A p \in DOMAIN nodes : \A w \in Word :
             w # l.word \/ p # b => Exempt(w)' \/ Held(p, w)' = Held(p, w)
        /\ \/ l.word \notin Word
           \/ Exempt(l.word)'
           \/ Held(b, l.word)' = Value(DirectiveOf[l.word].form, l.args)
    BY DEF ValuesSet
  <2> QED
    BY <2>1, OldValues
<1>2. b \in DOMAIN nodes
  BY LinesAfter
<1>3. o # 0 => \A w \in Word : Exempt(w)' \/ Held(c, w)' = InForce(w, c)'
  <2> SUFFICES ASSUME o # 0, NEW w \in Word, ~ Exempt(w)'
               PROVE  Held(c, w)' = InForce(w, c)'
    OBVIOUS
  <2>1. Held(b, w)' = InForce(w, b)'
    BY <1>1, <1>2
  <2>2. DirectiveOf[w].form \in Assigned
    BY DEF Exempt
  <2>3. Held(c, w)' = IF o = 2 /\ w \in {"group", "hostname"} THEN <<l.args[1]>>
                      ELSE IF w \in Inherited THEN Held(b, w)'
                      ELSE Initially[w]
    BY DEF ValuesSet
  <2> QED
    BY <2>1, <2>2, <2>3, NewValues
<1>4. DOMAIN nodes' \subseteq DOMAIN nodes \cup (IF o = 0 THEN {} ELSE {c})
  BY DEF Begins
<1> QED
  BY <1>1, <1>3, <1>4 DEF ValuesRight

(* The reader after a line that is obeyed.                                      *)
LEMMA AdvanceKeeps ==
  ASSUME ReadRight, phase = "read", NEW l \in subject, Placed(l), NEW c, Advance(l, c),
         NEW o, o = DirectiveOf[l.word].opens,
         Opening(l, LevelOf(l), Here(l), o, c), Begins(l, o, c), ValuesSet(l, Here(l), o, c),
         NodesTyped'
  PROVE  ReadRight'
<1>1. PICK f, L, b, n : f = Current /\ L = LevelOf(l) /\ b = Here(l) /\ n = Len(text) + 1
  OBVIOUS
<1>2. PICK r : r = [file |-> f.file, indent |-> l.indent, word |-> l.word, args |-> l.args]
  OBVIOUS
<1>3. /\ ReaderTyped /\ Families /\ LinesRight /\ Makers /\ FileRight(Current)
      /\ OthersOutside /\ ValuesRight
  BY DEF ReadRight
<1>4. f \in ReadFile /\ Len(files) \in DOMAIN files /\ DOMAIN files = 1 .. Len(files)
  BY <1>1, <1>3, CurrentIs
<1>5. l.indent \in Nat /\ r \in TextLine
  <2>1. subject \in Subjects
    BY <1>3 DEF ReaderTyped
  <2>2. l \in UNION Subjects /\ l.indent \in Nat
    BY <2>1, ConfigAssumption
  <2>3. f.file \in Nat
    BY <1>4 DEF ReadFile
  <2> QED
    BY <1>2, <2>2, <2>3 DEF TextLine
<1>6. LineRead(l, f, L, b, r, n)
  BY <1>1, <1>2, <1>5 DEF LineRead
<1>7. PICK g : g = [stack |-> OpenDepths(l), opens |-> o, at |-> c, file |-> f.file]
  OBVIOUS
<1>8. /\ text' = Append(text, r) /\ files' = [files EXCEPT ![Len(files)] = g]
      /\ subject' = subject /\ opened' = opened
  BY <1>1, <1>2, <1>7 DEF Advance
<1>9. Opening(l, L, b, o, c) /\ ValuesSet(l, b, o, c)
  BY <1>1
<1>10. /\ LinesRight' /\ Makers' /\ Families' /\ b \in DOMAIN nodes
  BY <1>3, <1>6, <1>8, <1>9, LinesAfter
<1>11. ValuesRight'
  BY <1>3, <1>6, <1>8, <1>9, ValuesAfter
<1>12. c \in DOMAIN nodes'
  BY <1>9, <1>10 DEF Begins, Opening
<1>13. g \in ReadFile
  <2>1. PICK d : d = OpenDepths(l)
    OBVIOUS
  <2>2. d \in Seq(Nat) /\ Sound(DirectiveOf[l.word])
    BY <1>1, <1>3, <1>5, <2>1, Levels
  <2>3. o \in {0, 2, 3}
    BY <2>2 DEF Sound
  <2>4. c \in Names \X Names
    BY <1>12 DEF NodesTyped
  <2>5. f.file \in Nat
    BY <1>4 DEF ReadFile
  <2> QED
    BY <1>7, <2>1, <2>2, <2>3, <2>4, <2>5 DEF ReadFile
<1>14. /\ files' \in Seq(ReadFile) /\ Len(files') = Len(files) /\ files'[Len(files)] = g
       /\ files' # <<>>
       /\ \A i \in 1 .. Len(files) - 1 : files'[i] = files[i]
  <2>1. files \in Seq(ReadFile) /\ files # <<>>
    BY <1>3 DEF ReaderTyped
  <2> QED
    BY <1>4, <1>8, <1>13, <2>1
<1>15. Current' = g
  BY <1>14 DEF Current
<1>16. FileRight(g)'
  <2>1. g.stack = OpenDepths(l) /\ g.file = f.file /\ g.at = c /\ g.opens = o
    BY <1>7
  <2> QED
    BY <1>3, <1>6, <1>8, <1>9, <1>12, <2>1, FileAfter
<1>17. FileRight(Current)'
  BY <1>15, <1>16 DEF FileRight, Grows, AtLevel, Reach, OpenedBy, Above, HasHost, HasVolume
<1>18. OthersOutside'
  BY <1>3, <1>14 DEF OthersOutside, Root
<1>19. ReaderTyped'
  <2>1. text \in Seq(TextLine) /\ opened \in Nat /\ subject \in Subjects
    BY <1>3 DEF ReaderTyped
  <2>2. text' \in Seq(TextLine)
    BY <1>5, <1>8, <2>1
  <2> QED
    BY <1>8, <1>14, <2>1, <2>2 DEF ReaderTyped, ReadFile, TextLine, Names
<1> QED
  BY <1>10, <1>11, <1>17, <1>18, <1>19 DEF ReadRight

-----------------------------------------------------------------------------
(* Lines that set a value.                                                 *)
LEMMA NodeChanged ==
  ASSUME NodesTyped, NEW p \in DOMAIN nodes, NEW s, NEW x, NEW y,
         s = [w \in Word |-> s[w]],
         nodes' = [nodes EXCEPT ![p] = [set |-> s, backup |-> x, prune |-> y]]
  PROVE  /\ NodesTyped' /\ DOMAIN nodes' = DOMAIN nodes
         /\ \A q \in DOMAIN nodes : \A w \in Word :
              Held(q, w)' = IF q = p THEN s[w] ELSE Held(q, w)
<1>1. DOMAIN nodes' = DOMAIN nodes
  OBVIOUS
<1>2. nodes'[p] = [set |-> s, backup |-> x, prune |-> y]
  OBVIOUS
<1>3. \A q \in DOMAIN nodes : q # p => nodes'[q] = nodes[q]
  OBVIOUS
<1>4. NodesTyped'
  <2>1. ASSUME NEW q \in DOMAIN nodes
        PROVE  nodes'[q] = [set |-> [w \in Word |-> nodes'[q].set[w]],
                            backup |-> nodes'[q].backup, prune |-> nodes'[q].prune]
    <3>1. CASE q = p
      BY <1>2, <3>1
    <3>2. CASE q # p
      BY <1>3, <3>2 DEF NodesTyped
    <3> QED
      BY <3>1, <3>2
  <2>2. nodes' = [q \in DOMAIN nodes |-> nodes'[q]]
    OBVIOUS
  <2>3. nodes' = [q \in DOMAIN nodes' |-> [set |-> [w \in Word |-> nodes'[q].set[w]],
                            backup |-> nodes'[q].backup, prune |-> nodes'[q].prune]]
    BY <1>1, <2>1, <2>2
  <2> QED
    BY <1>1, <2>3 DEF NodesTyped, Names
<1> QED
  BY <1>1, <1>2, <1>3, <1>4 DEF Held

LEMMA SetValueIs ==
  ASSUME NodesTyped, NEW p \in DOMAIN nodes, NEW u, NEW v, SetValue(p, u, v)
  PROVE  /\ NodesTyped' /\ DOMAIN nodes' = DOMAIN nodes
         /\ \A q \in DOMAIN nodes : \A w \in Word :
              Held(q, w)' = IF q = p /\ w = u THEN v ELSE Held(q, w)
<1> DEFINE e == nodes[p]
<1>1. e = [set |-> [w \in Word |-> e.set[w]], backup |-> e.backup, prune |-> e.prune]
  BY DEF NodesTyped
<1>2. PICK s : s = [e.set EXCEPT ![u] = v]
  OBVIOUS
<1>3. DOMAIN e.set = Word
  BY <1>1
<1>4. s = [w \in Word |-> s[w]] /\ \A w \in Word : s[w] = IF w = u THEN v ELSE e.set[w]
  BY <1>2, <1>3
<1>5. nodes' = [nodes EXCEPT ![p] = [set |-> s, backup |-> e.backup, prune |-> e.prune]]
  <2>1. [e EXCEPT !.set = s] = [set |-> s, backup |-> e.backup, prune |-> e.prune]
    BY <1>1
  <2>2. nodes' = [nodes EXCEPT ![p] = [e EXCEPT !.set = s]]
    BY <1>2 DEF SetValue
  <2> QED
    BY <2>1, <2>2
<1>6. \A w \in Word : e.set[w] = Held(p, w)
  BY DEF Held
<1> HIDE DEF e
<1>7. /\ NodesTyped' /\ DOMAIN nodes' = DOMAIN nodes
      /\ \A q \in DOMAIN nodes : \A w \in Word :
              Held(q, w)' = IF q = p THEN s[w] ELSE Held(q, w)
  BY <1>4, <1>5, NodeChanged
<1> QED
  BY <1>4, <1>6, <1>7

(* A line that begins no block stays in its own.                                 *)
LEMMA Plain ==
  ASSUME NEW l, Placed(l), DirectiveOf[l.word].form \notin {"host", "volume"},
         NEW L, NEW b
  PROVE  /\ DirectiveOf[l.word].opens = 0 /\ Opening(l, L, b, 0, b)
         /\ l.word \notin {"host", "volume"}
         /\ DOMAIN nodes' = DOMAIN nodes => Begins(l, 0, b)
<1>1. Sound(DirectiveOf[l.word]) /\ DirectiveOf[l.word].word = l.word
  BY Found DEF Placed
<1>2. DirectiveOf[l.word].opens = 0 /\ l.word \notin {"host", "volume"}
  BY <1>1 DEF Sound
<1> QED
  BY <1>2 DEF Opening, Begins

LEMMA Situation ==
  ASSUME ReadRight, NEW l \in subject, Placed(l), NEW b, b = Here(l)
  PROVE  /\ b \in DOMAIN nodes /\ NodesTyped /\ Sound(DirectiveOf[l.word])
         /\ DirectiveOf[l.word].word = l.word
         /\ LevelOf(l) \in DirectiveOf[l.word].levels
         /\ AtLevel(b, LevelOf(l))
         /\ LevelOf(l) = 1 => b = Root
<1>1. ReaderTyped /\ Families /\ FileRight(Current)
  BY DEF ReadRight
<1>2. l.indent \in Nat
  BY <1>1, ConfigAssumption DEF ReaderTyped
<1>3. PICK f, L, S : f = Current /\ L = LevelOf(l) /\ S = Above(f.file, l.indent)
  OBVIOUS
<1>4. b \in DOMAIN nodes /\ AtLevel(b, L) /\ b = Outer(f.at, L)
  BY <1>1, <1>2, <1>3, Placement
<1>5. /\ Sound(DirectiveOf[l.word]) /\ DirectiveOf[l.word].word = l.word
      /\ L \in DirectiveOf[l.word].levels
  BY <1>3, Found DEF Placed
<1>6. L = 1 => b = Root
  BY <1>4, OuterIs
<1> QED
  BY <1>1, <1>3, <1>4, <1>5, <1>6 DEF ReaderTyped

(* An obeyed line of a form that makes no node: what else it may change.            *)
LEMMA PlainKeeps ==
  ASSUME ReadRight, phase = "read", NEW l \in subject, Placed(l), NEW b, b = Here(l),
         DirectiveOf[l.word].form \notin {"host", "volume"}, Advance(l, b),
         NodesTyped', DOMAIN nodes' = DOMAIN nodes,
         \A p \in DOMAIN nodes : \A w \in Word :
           w # l.word \/ p # b => Exempt(w)' \/ Held(p, w)' = Held(p, w),
         \/ l.word \notin Word
         \/ Exempt(l.word)'
         \/ Held(b, l.word)' = Value(DirectiveOf[l.word].form, l.args)
  PROVE  ReadRight'
<1>1. /\ DirectiveOf[l.word].opens = 0 /\ Opening(l, LevelOf(l), b, 0, b)
      /\ Begins(l, 0, b)
  BY Plain
<1>2. ValuesSet(l, b, 0, b)
  BY DEF ValuesSet
<1> QED
  BY <1>1, <1>2, AdvanceKeeps

LEMMA AssignKeeps ==
  ASSUME ReadRight, phase = "read", NEW l \in subject, Assign(l)
  PROVE  ReadRight'
<1>1. PICK b : b = Here(l)
  OBVIOUS
<1>2. /\ Placed(l) /\ DirectiveOf[l.word].form \in Assigned
      /\ SetValue(b, l.word, Value(DirectiveOf[l.word].form, l.args)) /\ Advance(l, b)
  BY <1>1 DEF Assign, Orders, Obeys
<1>3. DirectiveOf[l.word].form \notin {"host", "volume"}
  BY <1>2 DEF Assigned
<1>4. b \in DOMAIN nodes /\ NodesTyped
  BY <1>1, <1>2, Situation
<1>5. PICK v : v = Value(DirectiveOf[l.word].form, l.args)
  OBVIOUS
<1>6. /\ NodesTyped' /\ DOMAIN nodes' = DOMAIN nodes
      /\ \A q \in DOMAIN nodes : \A w \in Word :
           Held(q, w)' = IF q = b /\ w = l.word THEN v ELSE Held(q, w)
  BY <1>2, <1>4, <1>5, SetValueIs
<1> QED
  BY <1>1, <1>2, <1>3, <1>4, <1>5, <1>6, PlainKeeps

(* A line that sets what is not assigned, or reads beyond its end.                 *)
LEMMA OtherValueKeeps ==
  ASSUME ReadRight, phase = "read", NEW l \in subject, Placed(l), NEW b, b = Here(l),
         DirectiveOf[l.word].form \notin {"host", "volume"}, Advance(l, b),
         \/ DirectiveOf[l.word].form \notin Assigned
         \/ Overruns(DirectiveOf[l.word], l),
         NodesTyped', DOMAIN nodes' = DOMAIN nodes,
         \A q \in DOMAIN nodes : \A w \in Word : w # l.word => Held(q, w)' = Held(q, w)
  PROVE  ReadRight'
<1>1. Exempt(l.word)'
  <2>1. CASE DirectiveOf[l.word].form \notin Assigned
    BY <2>1 DEF Exempt, Overruns
  <2>2. CASE Overruns(DirectiveOf[l.word], l)
    <3>1. PICK f, L, n, r :
            /\ f = Current /\ L = LevelOf(l) /\ n = Len(text) + 1
            /\ r = [file |-> f.file, indent |-> l.indent, word |-> l.word, args |-> l.args]
      OBVIOUS
    <3>2. text' = Append(text, r) /\ text \in Seq(TextLine)
      BY <3>1 DEF Advance, ReadRight, ReaderTyped
    <3>3. n \in DOMAIN text' /\ text'[n] = r
      BY <3>1, <3>2
    <3> QED
      BY <2>2, <3>1, <3>3 DEF Exempt, Overruns
  <2> QED
    BY <2>1, <2>2
<1>2. \A q \in DOMAIN nodes : \A w \in Word :
        w # l.word \/ q # b => Exempt(w)' \/ Held(q, w)' = Held(q, w)
  BY <1>1
<1> QED
  BY <1>1, <1>2, PlainKeeps

LEMMA RecordIs ==
  ASSUME NodesTyped, NEW p \in DOMAIN nodes
  PROVE  /\ nodes[p] = [set |-> nodes[p].set, backup |-> nodes[p].backup,
                        prune |-> nodes[p].prune]
         /\ nodes[p].set = [w \in Word |-> nodes[p].set[w]]
BY DEF NodesTyped

LEMMA ExtendKeeps ==
  ASSUME ReadRight, phase = "read", NEW l \in subject, Extend(l)
  PROVE  ReadRight'
<1>1. PICK b : b = Here(l)
  OBVIOUS
<1>2. PICK v : SetValue(Root, l.word, v)
  BY DEF Extend
<1>3. Placed(l) /\ DirectiveOf[l.word].form = "appended" /\ Advance(l, b)
  BY <1>1 DEF Extend, Orders, Obeys
<1>4. Root \in DOMAIN nodes /\ NodesTyped
  BY DEF ReadRight, Families, ReaderTyped
<1>5. /\ NodesTyped' /\ DOMAIN nodes' = DOMAIN nodes
      /\ \A q \in DOMAIN nodes : \A w \in Word :
           Held(q, w)' = IF q = Root /\ w = l.word THEN v ELSE Held(q, w)
  BY <1>2, <1>4, SetValueIs
<1>6. DirectiveOf[l.word].form \notin {"host", "volume"} \cup Assigned
  BY <1>3 DEF Assigned
<1> QED
  BY <1>1, <1>3, <1>5, <1>6, OtherValueKeeps

LEMMA OverrunKeeps ==
  ASSUME ReadRight, phase = "read", NEW l \in subject, Overrun(l)
  PROVE  ReadRight'
<1>1. PICK b : b = Here(l)
  OBVIOUS
<1>2. PICK v : SetValue(Root, l.word, v)
  BY DEF Overrun
<1>3. Placed(l) /\ Overruns(DirectiveOf[l.word], l) /\ Advance(l, b)
  BY <1>1 DEF Overrun
<1>4. Root \in DOMAIN nodes /\ NodesTyped
  BY DEF ReadRight, Families, ReaderTyped
<1>5. /\ NodesTyped' /\ DOMAIN nodes' = DOMAIN nodes
      /\ \A q \in DOMAIN nodes : \A w \in Word :
           Held(q, w)' = IF q = Root /\ w = l.word THEN v ELSE Held(q, w)
  BY <1>2, <1>4, SetValueIs
<1>6. DirectiveOf[l.word].form \notin {"host", "volume"}
  BY <1>3 DEF Overruns
<1> QED
  BY <1>1, <1>3, <1>5, <1>6, OtherValueKeeps

LEMMA ParameterKeeps ==
  ASSUME ReadRight, phase = "read", NEW l \in subject, SetParameter(l)
  PROVE  ReadRight'
<1>1. PICK b : b = Here(l)
  OBVIOUS
<1>2. /\ Placed(l) /\ DirectiveOf[l.word].form = "parameter" /\ Advance(l, b)
  BY <1>1 DEF SetParameter, Orders, Obeys
<1>3. b \in DOMAIN nodes /\ NodesTyped
  BY <1>1, <1>2, Situation
<1>4. PICK s : s = nodes[b].set
  OBVIOUS
<1>5. s = [w \in Word |-> s[w]] /\ nodes[b] = [set |-> s, backup |-> nodes[b].backup, prune |-> nodes[b].prune]
  BY <1>3, <1>4, RecordIs
<1>6. \E x, y : nodes' = [nodes EXCEPT ![b] = [set |-> s, backup |-> x, prune |-> y]]
  <2>1. \/ \E x : nodes' = [nodes EXCEPT ![b].backup = x]
        \/ \E y : nodes' = [nodes EXCEPT ![b].prune = y]
    BY <1>1 DEF SetParameter
  <2>2. ASSUME NEW x, nodes' = [nodes EXCEPT ![b].backup = x]
        PROVE  nodes' = [nodes EXCEPT ![b] = [set |-> s, backup |-> x, prune |-> nodes[b].prune]]
    <3>1. [nodes[b] EXCEPT !.backup = x] = [set |-> s, backup |-> x, prune |-> nodes[b].prune]
      BY <1>5
    <3> QED
      BY <2>2, <3>1
  <2>3. ASSUME NEW y, nodes' = [nodes EXCEPT ![b].prune = y]
        PROVE  nodes' = [nodes EXCEPT ![b] = [set |-> s, backup |-> nodes[b].backup, prune |-> y]]
    <3>1. [nodes[b] EXCEPT !.prune = y] = [set |-> s, backup |-> nodes[b].backup, prune |-> y]
      BY <1>5
    <3> QED
      BY <2>3, <3>1
  <2> QED
    BY <2>1, <2>2, <2>3
<1>7. /\ NodesTyped' /\ DOMAIN nodes' = DOMAIN nodes
      /\ \A q \in DOMAIN nodes : \A w \in Word :
           Held(q, w)' = IF q = b THEN s[w] ELSE Held(q, w)
  BY <1>3, <1>5, <1>6, NodeChanged
<1>8. \A q \in DOMAIN nodes : \A w \in Word : Held(q, w)' = Held(q, w)
  BY <1>4, <1>7 DEF Held
<1>9. DirectiveOf[l.word].form \notin {"host", "volume"} \cup Assigned
  BY <1>2 DEF Assigned
<1> QED
  BY <1>1, <1>2, <1>7, <1>8, <1>9, OtherValueKeeps

LEMMA PrunePolicyKeeps ==
  ASSUME ReadRight, phase = "read", NEW l \in subject, SetPrunePolicy(l)
  PROVE  ReadRight'
<1>1. PICK b : b = Here(l)
  OBVIOUS
<1>2. /\ Placed(l) /\ DirectiveOf[l.word].form = "policy" /\ Advance(l, b)
  BY <1>1 DEF SetPrunePolicy, Orders, Obeys
<1>3. b \in DOMAIN nodes /\ NodesTyped
  BY <1>1, <1>2, Situation
<1>4. DirectiveOf[l.word].form \notin {"host", "volume"} \cup Assigned
  BY <1>2 DEF Assigned
<1>5. PICK u : u = l.word
  OBVIOUS
<1>6. CASE SetValue(b, u, l.args)
  <2>1. /\ NodesTyped' /\ DOMAIN nodes' = DOMAIN nodes
        /\ \A q \in DOMAIN nodes : \A w \in Word :
             Held(q, w)' = IF q = b /\ w = u THEN l.args ELSE Held(q, w)
    BY <1>3, <1>6, SetValueIs
  <2> QED
    BY <1>1, <1>2, <1>4, <1>5, <2>1, OtherValueKeeps
<1>7. ASSUME NEW v, NEW y, nodes' = [nodes EXCEPT ![b].set[u] = v, ![b].prune = y]
      PROVE  ReadRight'
  <2>1. PICK e : e = nodes[b]
    OBVIOUS
  <2>2. PICK s : s = [e.set EXCEPT ![u] = v]
    OBVIOUS
  <2>3. /\ e = [set |-> e.set, backup |-> e.backup, prune |-> e.prune]
        /\ e.set = [w \in Word |-> e.set[w]]
    BY <1>3, <2>1, RecordIs
  <2>4. /\ s = [w \in Word |-> s[w]]
        /\ \A w \in Word : w # u => s[w] = e.set[w]
    BY <2>2, <2>3
  <2>5. nodes' = [nodes EXCEPT ![b] = [set |-> s, backup |-> e.backup, prune |-> y]]
    <3>1. [[e EXCEPT !.set = s] EXCEPT !.prune = y] = [set |-> s, backup |-> e.backup, prune |-> y]
      <4>1. [e EXCEPT !.set = s] = [set |-> s, backup |-> e.backup, prune |-> e.prune]
        BY <2>3
      <4>2. PICK a, z : a = e.backup /\ z = e.prune
        OBVIOUS
      <4>3. [[set |-> s, backup |-> a, prune |-> z] EXCEPT !.prune = y]
              = [set |-> s, backup |-> a, prune |-> y]
        OBVIOUS
      <4> QED
        BY <4>1, <4>2, <4>3
    <3>2. nodes' = [nodes EXCEPT ![b] = [[e EXCEPT !.set = s] EXCEPT !.prune = y]]
      BY <1>3, <1>7, <2>1, <2>2
    <3> QED
      BY <3>1, <3>2
  <2>6. /\ NodesTyped' /\ DOMAIN nodes' = DOMAIN nodes
        /\ \A q \in DOMAIN nodes : \A w \in Word :
             Held(q, w)' = IF q = b THEN s[w] ELSE Held(q, w)
    BY <1>3, <2>4, <2>5, NodeChanged
  <2>7. \A q \in DOMAIN nodes : \A w \in Word : w # u => Held(q, w)' = Held(q, w)
    BY <2>1, <2>4, <2>6 DEF Held
  <2> QED
    BY <1>1, <1>2, <1>4, <1>5, <2>6, <2>7, OtherValueKeeps
<1>8. \/ SetValue(b, u, l.args)
      \/ \E v, y : nodes' = [nodes EXCEPT ![b].set[u] = v, ![b].prune = y]
  BY <1>1, <1>5 DEF SetPrunePolicy
<1> QED
  BY <1>6, <1>7, <1>8

LEMMA ExcludeKeeps ==
  ASSUME ReadRight, phase = "read", NEW l \in subject, AddExclude(l)
  PROVE  ReadRight'
<1>1. PICK b : b = Here(l)
  OBVIOUS
<1>2. PICK v : SetValue(b, l.word, v)
  BY <1>1 DEF AddExclude
<1>3. Placed(l) /\ DirectiveOf[l.word].form = "exclude" /\ Advance(l, b)
  BY <1>1 DEF AddExclude, Orders, Obeys
<1>4. b \in DOMAIN nodes /\ NodesTyped
  BY <1>1, <1>3, Situation
<1>5. /\ NodesTyped' /\ DOMAIN nodes' = DOMAIN nodes
      /\ \A q \in DOMAIN nodes : \A w \in Word :
           Held(q, w)' = IF q = b /\ w = l.word THEN v ELSE Held(q, w)
  BY <1>2, <1>4, SetValueIs
<1>6. DirectiveOf[l.word].form \notin {"host", "volume"} \cup Assigned
  BY <1>3 DEF Assigned
<1> QED
  BY <1>1, <1>3, <1>5, <1>6, OtherValueKeeps

LEMMA StoreKeeps ==
  ASSUME ReadRight, phase = "read", NEW l \in subject, AddStore(l) \/ AddDevice(l)
  PROVE  ReadRight'
<1>1. PICK b : b = Here(l)
  OBVIOUS
<1>2. /\ Placed(l) /\ DirectiveOf[l.word].form \in {"store", "store-pattern", "device"}
      /\ Advance(l, b) /\ nodes' = nodes
  BY <1>1 DEF AddStore, AddDevice, Orders, Obeys
<1>3. NodesTyped
  BY DEF ReadRight, ReaderTyped
<1>4. NodesTyped' /\ DOMAIN nodes' = DOMAIN nodes
  BY <1>2, <1>3 DEF NodesTyped, Names
<1>5. \A q \in DOMAIN nodes : \A w \in Word : Held(q, w)' = Held(q, w)
  BY <1>2 DEF Held
<1>6. DirectiveOf[l.word].form \notin {"host", "volume"} \cup Assigned
  BY <1>2 DEF Assigned
<1> QED
  BY <1>1, <1>2, <1>4, <1>5, <1>6, OtherValueKeeps

-----------------------------------------------------------------------------
(* Lines that make a host or a volume.                                     *)
IsName(c) == c \in Names \X Names

IsValues(s) == s = [w \in Word |-> s[w]]

IsRecord(e, s) == \E x, y : e = [set |-> s, backup |-> x, prune |-> y]

LEMMA NodeMade ==
  ASSUME NodesTyped, NEW c, IsName(c), c \notin DOMAIN nodes,
         NEW s, IsValues(s), NEW e, IsRecord(e, s), nodes' = With(nodes, c, e)
  PROVE  /\ NodesTyped' /\ DOMAIN nodes' = DOMAIN nodes \cup {c}
         /\ \A q \in DOMAIN nodes : \A w \in Word : Held(q, w)' = Held(q, w)
         /\ \A w \in Word : Held(c, w)' = s[w]
<1>1. DOMAIN nodes' = DOMAIN nodes \cup {c} /\ DOMAIN nodes \subseteq Names \X Names
  BY DEF With, NodesTyped
<1>0. c \in Names \X Names
  BY DEF IsName
<1>8. PICK x, y : e = [set |-> s, backup |-> x, prune |-> y]
  BY DEF IsRecord
<1>9. s = [w \in Word |-> s[w]]
  BY DEF IsValues
<1>2. nodes'[c] = [set |-> s, backup |-> x, prune |-> y]
  BY <1>8 DEF With
<1>3. \A q \in DOMAIN nodes : nodes'[q] = nodes[q]
  BY DEF With
<1>4. ASSUME NEW q \in DOMAIN nodes'
      PROVE  nodes'[q] = [set |-> [w \in Word |-> nodes'[q].set[w]],
                          backup |-> nodes'[q].backup, prune |-> nodes'[q].prune]
  <2>1. CASE q = c
    BY <1>2, <1>9, <2>1
  <2>2. CASE q \in DOMAIN nodes
    BY <1>3, <2>2 DEF NodesTyped
  <2> QED
    BY <1>1, <2>1, <2>2
<1>5. nodes' = [q \in DOMAIN nodes' |-> nodes'[q]]
  BY DEF With
<1>6. nodes' = [q \in DOMAIN nodes' |-> [set |-> [w \in Word |-> nodes'[q].set[w]],
                          backup |-> nodes'[q].backup, prune |-> nodes'[q].prune]]
  BY <1>4, <1>5
<1>7. NodesTyped'
  BY <1>0, <1>1, <1>6 DEF NodesTyped, Names
<1> QED
  BY <1>1, <1>2, <1>3, <1>7 DEF Held

(* The values of a node that is made by the line l in the block b.                *)
ValuesMade(l, b, o) ==
  [w \in Word |-> IF o = 2 /\ w \in {"group", "hostname"} THEN <<l.args[1]>>
                  ELSE IF w \in Inherited THEN nodes[b].set[w]
                  ELSE Initially[w]]

(* A line that makes a node.                                                   *)
LEMMA MadeKeeps ==
  ASSUME ReadRight, phase = "read", NEW l \in subject, Placed(l), NEW b, b = Here(l),
         DirectiveOf[l.word].form \in {"host", "volume"},
         NEW o, o = DirectiveOf[l.word].opens,
         NEW c, IsName(c), c \notin DOMAIN nodes, Advance(l, c),
         Opening(l, LevelOf(l), b, o, c),
         NEW s, s = ValuesMade(l, b, o),
         NEW e, e = [nodes[b] EXCEPT !.set = s], nodes' = With(nodes, c, e)
  PROVE  ReadRight'
<1>1. b \in DOMAIN nodes /\ NodesTyped /\ Sound(DirectiveOf[l.word])
  BY Situation
<1>2. nodes[b] = [set |-> nodes[b].set, backup |-> nodes[b].backup, prune |-> nodes[b].prune]
  BY <1>1, RecordIs
<1>3. e = [set |-> s, backup |-> nodes[b].backup, prune |-> nodes[b].prune]
  BY <1>2
<1>4. IsRecord(e, s)
  BY <1>3 DEF IsRecord
<1>5. IsValues(s)
  BY DEF ValuesMade, IsValues
<1>6. /\ NodesTyped' /\ DOMAIN nodes' = DOMAIN nodes \cup {c}
      /\ \A q \in DOMAIN nodes : \A w \in Word : Held(q, w)' = Held(q, w)
      /\ \A w \in Word : Held(c, w)' = s[w]
  BY <1>1, <1>4, <1>5, NodeMade
<1>7. o # 0 /\ Begins(l, o, c)
  BY <1>1, <1>6 DEF Sound, Begins
<1>8. Exempt(l.word)'
  BY DEF Exempt, Assigned, Overruns
<1>9. ASSUME NEW w \in Word
      PROVE  Held(c, w)' = IF o = 2 /\ w \in {"group", "hostname"} THEN <<l.args[1]>>
                           ELSE IF w \in Inherited THEN Held(b, w)'
                           ELSE Initially[w]
  <2>1. Held(b, w)' = nodes[b].set[w]
    BY <1>1, <1>6 DEF Held
  <2> QED
    BY <1>6, <2>1 DEF ValuesMade
<1>10. ValuesSet(l, b, o, c)
  BY <1>6, <1>8, <1>9 DEF ValuesSet
<1> QED
  BY <1>6, <1>7, <1>10, AdvanceKeeps

LEMMA HostKeeps ==
  ASSUME ReadRight, phase = "read", NEW l \in subject, AddHost(l)
  PROVE  ReadRight'
<1>0. PICK h, c : h = l.args[1] /\ c = <<h, "">>
  OBVIOUS
<1>1. PICK b, o : b = Here(l) /\ o = DirectiveOf[l.word].opens
  OBVIOUS
<1>2. /\ Placed(l) /\ DirectiveOf[l.word].form = "host" /\ Advance(l, c)
      /\ nodes' = With(nodes, c, HostNode(h, nodes[Root]))
      /\ Sensible(DirectiveOf[l.word], l)
  BY <1>0 DEF AddHost, Orders, Obeys
<1>3. h \in HostName /\ c \notin DOMAIN nodes
  BY <1>0, <1>2 DEF Sensible, Assigned
<1>4. h # "" /\ h \in Names
  BY <1>3, ConfigAssumption DEF Names
<1>5. IsName(c) /\ c[1] = h /\ c = HostOf(c) /\ HasHost(c)
  BY <1>0, <1>4 DEF HostOf, HasHost, Names, IsName
<1>6. /\ DirectiveOf[l.word].word = l.word /\ Sound(DirectiveOf[l.word])
      /\ LevelOf(l) \in DirectiveOf[l.word].levels /\ (LevelOf(l) = 1 => b = Root)
  BY <1>1, <1>2, Situation
<1>7. LevelOf(l) = 1 /\ o = 2 /\ l.word = "host" /\ b = Root
  BY <1>1, <1>2, <1>6 DEF Sound
<1>8. Opening(l, LevelOf(l), b, o, c)
  BY <1>0, <1>1, <1>5, <1>7 DEF Opening
<1>9. PICK s : s = ValuesMade(l, b, o)
  OBVIOUS
<1>10. PICK e : e = [nodes[b] EXCEPT !.set = s] /\ nodes' = With(nodes, c, e)
  <2>1. HostNode(h, nodes[Root]) = [nodes[b] EXCEPT !.set = s]
    BY <1>0, <1>1, <1>7, <1>9 DEF HostNode, ValuesMade
  <2> QED
    BY <1>2, <2>1
<1> QED
  BY <1>1, <1>2, <1>3, <1>5, <1>8, <1>9, <1>10, MadeKeeps

LEMMA VolumeKeeps ==
  ASSUME ReadRight, phase = "read", NEW l \in subject, AddVolume(l)
  PROVE  ReadRight'
<1>1. PICK b, v, c, o : /\ b = Here(l) /\ v = l.args[1] /\ c = <<b[1], v>>
                        /\ o = DirectiveOf[l.word].opens
  OBVIOUS
<1>2. /\ Placed(l) /\ DirectiveOf[l.word].form = "volume" /\ Advance(l, c)
      /\ nodes' = With(nodes, c, VolumeNode(nodes[b]))
      /\ Sensible(DirectiveOf[l.word], l)
  BY <1>1 DEF AddVolume, Orders, Obeys
<1>3. v \in VolumeName /\ c \notin DOMAIN nodes
  BY <1>1, <1>2 DEF Sensible, Assigned
<1>4. v # "" /\ v \in Names
  BY <1>3, ConfigAssumption DEF Names
<1>5. /\ DirectiveOf[l.word].word = l.word /\ Sound(DirectiveOf[l.word])
      /\ LevelOf(l) \in DirectiveOf[l.word].levels /\ AtLevel(b, LevelOf(l))
      /\ b \in DOMAIN nodes /\ NodesTyped
  BY <1>1, <1>2, Situation
<1>6. LevelOf(l) = 2 /\ o = 3 /\ l.word = "volume"
  BY <1>1, <1>2, <1>5 DEF Sound
<1>7. b \in Names \X Names
  BY <1>5 DEF NodesTyped
<1>8. IsName(c) /\ c[2] = v /\ HasVolume(c) /\ HostOf(c) = HostOf(b)
  BY <1>1, <1>4, <1>7 DEF HasVolume, HostOf, IsName
<1>9. HostOf(b) = b
  <2>1. ~ HasVolume(b)
    BY <1>5, <1>6 DEF AtLevel
  <2>2. PICK x \in Names, y \in Names : b = <<x, y>>
    BY <1>7
  <2>3. y = ""
    BY <2>1, <2>2 DEF HasVolume
  <2> QED
    BY <2>2, <2>3 DEF HostOf
<1>10. Opening(l, LevelOf(l), b, o, c)
  BY <1>1, <1>6, <1>8, <1>9 DEF Opening
<1>11. PICK s : s = ValuesMade(l, b, o)
  OBVIOUS
<1>12. PICK e : e = [nodes[b] EXCEPT !.set = s] /\ nodes' = With(nodes, c, e)
  <2>1. s = [w \in Word |-> IF w \in Inherited THEN nodes[b].set[w] ELSE Initially[w]]
    BY <1>6, <1>11 DEF ValuesMade
  <2>2. VolumeNode(nodes[b]) = [nodes[b] EXCEPT !.set = s]
    BY <2>1 DEF VolumeNode
  <2> QED
    BY <1>2, <2>2
<1> QED
  BY <1>1, <1>2, <1>3, <1>8, <1>10, <1>11, <1>12, MadeKeeps

-----------------------------------------------------------------------------
(* Included files.                                                         *)
(* A file of which nothing has been read.                                      *)
IsFresh(g) == g.stack = <<0>> /\ g.opens = 0 /\ g.at = Root

LEMMA FreshGrows ==
  ASSUME NEW g, IsFresh(g)
  PROVE  Grows(g.stack) /\ Reach(g) = 1 /\ AtLevel(g.at, Reach(g))
<1>1. Grows(g.stack)
  BY DEF Grows, IsFresh
<1>2. Reach(g) = 1
  BY DEF Reach, IsFresh
<1>3. AtLevel(g.at, 1)
  BY GlobalIs DEF AtLevel, IsFresh
<1> QED
  BY <1>1, <1>2, <1>3

LEMMA FreshRight ==
  ASSUME NEW g, IsFresh(g)
  PROVE  /\ Root \in DOMAIN nodes => FileRight(g)
         /\ Root \in DOMAIN nodes' => FileRight(g)'
<1>1. Grows(g.stack) /\ Reach(g) = 1 /\ AtLevel(g.at, Reach(g))
  BY FreshGrows
<1>2. g.opens = 0 /\ g.at = Root /\ 2 .. Len(g.stack) = {}
  BY DEF IsFresh
<1>3. Root \in DOMAIN nodes => FileRight(g)
  BY <1>1, <1>2 DEF FileRight
<1>4. Grows(g.stack)' /\ AtLevel(g.at, Reach(g))'
  BY <1>1 DEF Grows, AtLevel, Reach, HasHost, HasVolume
<1>5. Root \in DOMAIN nodes' => FileRight(g)'
  BY <1>2, <1>4 DEF FileRight
<1> QED
  BY <1>3, <1>5

LEMMA NewFileFresh ==
  ASSUME NEW m \in Nat, NEW g, g = NewFile(m)
  PROVE  IsFresh(g) /\ g \in ReadFile
<1>1. g = [stack |-> <<0>>, opens |-> 0, at |-> Root, file |-> m]
  BY DEF NewFile
<1>2. Root \in Names \X Names
  BY DEF Root, Names
<1> QED
  BY <1>1, <1>2 DEF IsFresh, ReadFile

(* The files that an included one, or none, is put in front of.                  *)
InFront(S, s, n, g, new, t) ==
  /\ s \in Seq(S) /\ s # <<>> /\ n = Len(s)
  /\ g \in S /\ new \in Seq(S)
  /\ t = [s EXCEPT ![n] = g] \o new

LEMMA FilesIncluded ==
  ASSUME NEW S, NEW s, NEW n, NEW g, NEW new, NEW t, InFront(S, s, n, g, new, t)
  PROVE  /\ t \in Seq(S) /\ t # <<>> /\ Len(t) = n + Len(new) /\ n \in Nat \ {0}
         /\ \A i \in 1 .. n - 1 : t[i] = s[i]
         /\ t[n] = g
         /\ \A i \in 1 .. Len(new) : t[n + i] = new[i]
<1> DEFINE e == [s EXCEPT ![n] = g]
<1>0. s \in Seq(S) /\ s # <<>> /\ n = Len(s) /\ g \in S /\ new \in Seq(S)
  BY DEF InFront
<1>1. n \in Nat \ {0} /\ DOMAIN s = 1 .. n
  BY <1>0
<1>2. /\ e \in Seq(S) /\ Len(e) = n /\ e[n] = g
      /\ \A i \in 1 .. n - 1 : e[i] = s[i]
  BY <1>0, <1>1
<1>3. t = e \o new
  BY DEF InFront
<1> HIDE DEF e
<1>4. t \in Seq(S) /\ Len(t) = n + Len(new) /\ Len(new) \in Nat
  <2>1. e \in Seq(S) /\ new \in Seq(S) /\ Len(e) = n
    BY <1>0, <1>2
  <2>2. e \o new \in Seq(S)
    BY <2>1
  <2>3. Len(e \o new) = Len(e) + Len(new)
    BY <2>1
  <2>4. Len(new) \in Nat
    BY <2>1
  <2> QED
    BY <1>3, <2>1, <2>2, <2>3, <2>4
<1>5. \A i \in 1 .. n : t[i] = e[i]
  BY <1>0, <1>1, <1>2, <1>3
<1>6. \A i \in 1 .. Len(new) : t[n + i] = new[i]
  BY <1>0, <1>1, <1>2, <1>3
<1>7. t # <<>>
  BY <1>1, <1>4
<1> QED
  BY <1>1, <1>2, <1>4, <1>5, <1>6, <1>7

LEMMA IncludeKeeps ==
  ASSUME ReadRight, phase = "read", NEW l \in subject, Include(l), phase' = phase
  PROVE  ReadRight'
<1>1. PICK f, L, b, n : f = Current /\ L = LevelOf(l) /\ b = Here(l) /\ n = Len(text) + 1
  OBVIOUS
<1>2. PICK r : r = [file |-> f.file, indent |-> l.indent, word |-> l.word, args |-> l.args]
  OBVIOUS
<1>3. PICK g : g = [stack |-> OpenDepths(l), opens |-> 0, at |-> Root, file |-> f.file]
  OBVIOUS
<1>4. /\ ReaderTyped /\ Families /\ LinesRight /\ Makers /\ FileRight(Current)
      /\ OthersOutside /\ ValuesRight
  BY DEF ReadRight
<1>5. Placed(l) /\ DirectiveOf[l.word].form = "include"
  BY DEF Include, Orders, Obeys
<1>6. PICK m \in 0 .. MaxFiles - opened :
        /\ files' = [files EXCEPT ![Len(files)] = g] \o [i \in 1 .. m |-> NewFile(opened + m + 1 - i)]
        /\ opened' = opened + m
        /\ text' = Append(text, r)
        /\ UNCHANGED <<subject, nodes>>
  BY <1>1, <1>2, <1>3 DEF Include
<1>7. /\ opened \in Nat /\ m \in Nat /\ opened + m \in Nat /\ text \in Seq(TextLine)
      /\ files \in Seq(ReadFile) /\ files # <<>> /\ subject \in Subjects /\ NodesTyped
  <2>1. /\ opened \in Nat /\ text \in Seq(TextLine)
        /\ files \in Seq(ReadFile) /\ files # <<>> /\ subject \in Subjects /\ NodesTyped
    BY <1>4 DEF ReaderTyped
  <2>2. MaxFiles \in Nat
    BY ConfigAssumption
  <2>3. m \in Nat /\ opened + m \in Nat
    <3>1. m \in 0 .. MaxFiles - opened
      BY <1>6
    <3> QED
      BY <2>1, <2>2, <3>1
  <2> QED
    BY <2>1, <2>3
<1>8. f \in ReadFile /\ Len(files) \in DOMAIN files /\ DOMAIN files = 1 .. Len(files)
  BY <1>1, <1>4, CurrentIs
<1>9. l.indent \in Nat /\ r \in TextLine
  <2>1. l \in UNION Subjects /\ l.indent \in Nat
    BY <1>7, ConfigAssumption
  <2>2. f.file \in Nat
    BY <1>8 DEF ReadFile
  <2> QED
    BY <1>2, <2>1, <2>2 DEF TextLine
<1>10. LineRead(l, f, L, b, r, n)
  BY <1>1, <1>2, <1>5, <1>9 DEF LineRead
<1>11. /\ Sound(DirectiveOf[l.word]) /\ L \in DirectiveOf[l.word].levels
       /\ L = 1 => b = Root
  BY <1>1, <1>5, Situation
<1>12. L = 1 /\ b = Root
  BY <1>5, <1>11 DEF Sound
<1>13. PICK d : d = OpenDepths(l)
  OBVIOUS
<1>14. d = <<0>>
  <2>1. d \in Seq(Nat) /\ Len(d) = L /\ Grows(d)
    BY <1>1, <1>4, <1>5, <1>9, <1>13, Levels
  <2> QED
    BY <1>12, <2>1 DEF Grows
<1>15. DirectiveOf[l.word].form \notin {"host", "volume"} \cup Assigned
  BY <1>5 DEF Assigned
<1>16. Opening(l, L, b, 0, b) /\ Begins(l, 0, b)
  <2>1. DOMAIN nodes' = DOMAIN nodes
    BY <1>6
  <2> QED
    BY <1>5, <1>15, <2>1, Plain
<1>17. /\ LinesRight' /\ Makers' /\ Families'
  BY <1>4, <1>6, <1>10, <1>16, LinesAfter
<1>18. ValuesSet(l, b, 0, b)
  <2>1. Exempt(l.word)'
    BY <1>15 DEF Exempt, Overruns
  <2>2. \A p \in DOMAIN nodes : \A w \in Word : Held(p, w)' = Held(p, w)
    BY <1>6 DEF Held
  <2> QED
    BY <2>1, <2>2 DEF ValuesSet
<1>19. ValuesRight'
  BY <1>4, <1>6, <1>10, <1>16, <1>18, ValuesAfter
<1>20. g = [stack |-> <<0>>, opens |-> 0, at |-> Root, file |-> f.file] /\ f.file \in Nat
  BY <1>3, <1>8, <1>13, <1>14 DEF ReadFile
<1>21. IsFresh(g) /\ g \in ReadFile
  <2>1. g = NewFile(f.file)
    BY <1>20 DEF NewFile
  <2> QED
    BY <1>20, <2>1, NewFileFresh
<1>22. PICK new : new = [i \in 1 .. m |-> NewFile(opened + m + 1 - i)]
  OBVIOUS
<1>23. \A i \in 1 .. m : IsFresh(new[i]) /\ new[i] \in ReadFile
  <2> SUFFICES ASSUME NEW i \in 1 .. m PROVE IsFresh(new[i]) /\ new[i] \in ReadFile
    OBVIOUS
  <2>1. PICK k : k = opened + m + 1 - i
    OBVIOUS
  <2>2. k \in Nat
    BY <1>7, <2>1
  <2>3. new[i] = NewFile(k)
    BY <1>22, <2>1
  <2> QED
    BY <2>2, <2>3, NewFileFresh
<1>24. new \in Seq(ReadFile) /\ Len(new) = m
  <2>1. DOMAIN new = 1 .. m /\ new = [i \in 1 .. m |-> new[i]]
    BY <1>22
  <2>2. m \in Nat /\ \A i \in 1 .. m : new[i] \in ReadFile
    BY <1>7, <1>23
  <2>3. new \in [1 .. m -> ReadFile]
    BY <2>1, <2>2
  <2> QED
    BY <2>2, <2>3
<1>25. PICK z : z = Len(files)
  OBVIOUS
<1>26. files' = [files EXCEPT ![z] = g] \o new
  BY <1>6, <1>22, <1>25
<1>27. PICK t : t = files'
  OBVIOUS
<1>28. /\ t \in Seq(ReadFile) /\ t # <<>> /\ Len(t) = z + m /\ z \in Nat \ {0}
       /\ \A i \in 1 .. z - 1 : t[i] = files[i]
       /\ t[z] = g
       /\ \A i \in 1 .. m : t[z + i] = new[i]
  <2>1. PICK s : s = files
    OBVIOUS
  <2>2. /\ s \in Seq(ReadFile) /\ s # <<>> /\ z = Len(s) /\ g \in ReadFile
        /\ new \in Seq(ReadFile) /\ Len(new) = m
    BY <1>7, <1>21, <1>24, <1>25, <2>1
  <2>3. t = [s EXCEPT ![z] = g] \o new
    BY <1>26, <1>27, <2>1
  <2>4. InFront(ReadFile, s, z, g, new, t)
    BY <2>2, <2>3 DEF InFront
  <2>5. /\ t \in Seq(ReadFile) /\ t # <<>> /\ Len(t) = z + Len(new) /\ z \in Nat \ {0}
        /\ \A i \in 1 .. z - 1 : t[i] = s[i]
        /\ t[z] = g
        /\ \A i \in 1 .. Len(new) : t[z + i] = new[i]
    BY <2>4, FilesIncluded
  <2> QED
    BY <2>1, <2>2, <2>5
<1>29. \A i \in 1 .. Len(t) : IsFresh(t[i])
  <2> SUFFICES ASSUME NEW i \in 1 .. z + m PROVE IsFresh(t[i])
    BY <1>28
  <2>1. CASE i \in 1 .. z - 1
    BY <1>4, <1>25, <1>28, <2>1 DEF OthersOutside, IsFresh
  <2>2. CASE i = z
    BY <1>21, <1>28, <2>2
  <2>3. CASE i \in z + 1 .. z + m
    <3>1. PICK j : j = i - z
      OBVIOUS
    <3>2. j \in 1 .. m /\ i = z + j
      BY <1>7, <1>28, <2>3, <3>1
    <3> QED
      BY <1>23, <1>28, <3>2
  <2> QED
    BY <1>7, <1>28, <2>1, <2>2, <2>3
<1>30. Len(t) \in 1 .. Len(t) /\ \A i \in 1 .. Len(t) - 1 : i \in 1 .. Len(t)
  BY <1>7, <1>28
<1>31. FileRight(Current)'
  <2>1. PICK h : h = Current'
    OBVIOUS
  <2>2. h = t[Len(t)]
    BY <1>27, <2>1 DEF Current
  <2>3. IsFresh(h)
    BY <1>29, <1>30, <2>2
  <2>4. Root \in DOMAIN nodes'
    BY <1>17 DEF Families, Root
  <2>5. FileRight(h)'
    BY <2>3, <2>4, FreshRight
  <2> QED
    BY <2>1, <2>5 DEF FileRight, OpenedBy, Above
<1>32. OthersOutside'
  BY <1>27, <1>29, <1>30 DEF OthersOutside, IsFresh
<1>33. ReaderTyped'
  <2>1. text' \in Seq(TextLine)
    BY <1>6, <1>7, <1>9
  <2>2. NodesTyped'
    BY <1>6, <1>7 DEF NodesTyped
  <2>3. opened' \in Nat /\ subject' \in Subjects
    BY <1>6, <1>7
  <2> QED
    BY <1>27, <1>28, <2>1, <2>2, <2>3 DEF ReaderTyped
<1> QED
  BY <1>17, <1>19, <1>31, <1>32, <1>33 DEF ReadRight

-----------------------------------------------------------------------------
(* Steps that read no line.                                                *)
(* What is said of the lines and the nodes does not depend on the files.            *)
LEMMA TextStays ==
  ASSUME text' = text, NEW k
  PROVE  /\ Outside(k)' = Outside(k)
         /\ BlockOf(k)' = BlockOf(k)
         /\ Nested(k)' <=> Nested(k)
         /\ \A p : Made(k, p)' <=> Made(k, p)
         /\ \A f, i : Above(f, i)' = Above(f, i)
         /\ \A level : Heads(k, level)' <=> Heads(k, level)
         /\ Owner(k)' = Owner(k)
<1>1. Outside(k)' = Outside(k) /\ \A f, i : Above(f, i)' = Above(f, i)
  BY DEF Outside, Above
<1>2. PICK g : g = Greatest(Outside(k))
  OBVIOUS
<1>3. Greatest(Outside(k))' = g
  BY <1>1, <1>2 DEF Greatest
<1>4. Opener(k)' = Opener(k) /\ Opener(k) = text[g]
  BY <1>2, <1>3 DEF Opener
<1>5. \A level : Heads(k, level)' <=> Heads(k, level)
  BY <1>1, <1>4 DEF Heads
<1>6. Owner(k)' = Owner(k)
  BY <1>4 DEF Owner
<1>7. Outside(g)' = Outside(g)
  BY DEF Outside
<1>8. PICK h : h = Greatest(Outside(g))
  OBVIOUS
<1>9. Greatest(Outside(g))' = h
  BY <1>7, <1>8 DEF Greatest
<1>10. BlockOf(k)' = BlockOf(k)
  BY <1>1, <1>2, <1>3, <1>4, <1>8, <1>9 DEF BlockOf
<1>11. Nested(k)' <=> Nested(k)
  <2>1. Opener(g)' = Opener(g)
    BY <1>8, <1>9 DEF Opener
  <2> QED
    BY <1>1, <1>2, <1>3, <1>7, <2>1 DEF Nested, Heads
<1>12. \A p : Made(k, p)' <=> Made(k, p)
  BY <1>10 DEF Made
<1> QED
  BY <1>1, <1>5, <1>6, <1>10, <1>11, <1>12

LEMMA SettingStays ==
  ASSUME text' = text, NEW w, NEW p, NEW n
  PROVE  LastSetting(w, p, n)' = LastSetting(w, p, n)
<1>1. \A k : BlockOf(k)' = BlockOf(k)
  BY TextStays
<1> QED
  BY <1>1 DEF LastSetting, Greatest

LEMMA BeginningStays ==
  ASSUME text' = text, NEW p
  PROVE  Beginning(p)' = Beginning(p)
<1>1. \A k : Made(k, p)' <=> Made(k, p)
  BY TextStays
<1> QED
  BY <1>1 DEF Beginning, Greatest

LEMMA InForceStays ==
  ASSUME text' = text, NEW w, NEW p
  PROVE  InForce(w, p)' = InForce(w, p)
<1>1. ASSUME NEW n PROVE GlobalInForce(w, n)' = GlobalInForce(w, n)
  <2>1. PICK k : k = LastSetting(w, Root, n)
    OBVIOUS
  <2>2. LastSetting(w, Root, n)' = k
    BY <2>1, SettingStays
  <2> QED
    BY <2>1, <2>2 DEF GlobalInForce
<1>2. ASSUME NEW h, NEW n PROVE HostInForce(w, h, n)' = HostInForce(w, h, n)
  <2>1. PICK q : NamedHost(q, h)
    BY DEF NamedHost
  <2>2. PICK k, m : k = LastSetting(w, q, n) /\ m = Beginning(q)
    OBVIOUS
  <2>3. LastSetting(w, q, n)' = k /\ Beginning(q)' = m
    BY <2>2, SettingStays, BeginningStays
  <2>4. GlobalInForce(w, m)' = GlobalInForce(w, m)
    BY <1>1
  <2> QED
    BY <2>1, <2>2, <2>3, <2>4 DEF HostInForce, NamedHost
<1>3. ASSUME NEW n PROVE VolumeInForce(w, p, n)' = VolumeInForce(w, p, n)
  <2>1. PICK k, m, h : k = LastSetting(w, p, n) /\ m = Beginning(p) /\ h = p[1]
    OBVIOUS
  <2>2. LastSetting(w, p, n)' = k /\ Beginning(p)' = m
    BY <2>1, SettingStays, BeginningStays
  <2>3. HostInForce(w, h, m)' = HostInForce(w, h, m)
    BY <1>2
  <2> QED
    BY <2>1, <2>2, <2>3 DEF VolumeInForce
<1>4. PICK n, h : n = Len(text) /\ h = p[1]
  OBVIOUS
<1>5. /\ GlobalInForce(w, n)' = GlobalInForce(w, n)
      /\ HostInForce(w, h, n)' = HostInForce(w, h, n)
      /\ VolumeInForce(w, p, n)' = VolumeInForce(w, p, n)
  BY <1>1, <1>2, <1>3
<1>6. Len(text)' = n
  BY <1>4
<1> QED
  BY <1>4, <1>5, <1>6 DEF InForce

LEMMA RestStays ==
  ASSUME ReadRight, UNCHANGED <<nodes, text>>
  PROVE  Families' /\ LinesRight' /\ Makers' /\ ValuesRight'
<1>1. Families /\ LinesRight /\ Makers /\ ValuesRight
  BY DEF ReadRight
<1>2. Families'
  BY <1>1 DEF Families
<1>3. LinesRight'
  BY <1>1, TextStays DEF LinesRight
<1>4. Makers'
  BY <1>1, TextStays DEF Makers, Maker
<1>5. ValuesRight'
  BY <1>1, InForceStays DEF ValuesRight, Exempt, Held
<1> QED
  BY <1>2, <1>3, <1>4, <1>5

LEMMA StutterKeeps ==
  ASSUME ReadRight, UNCHANGED <<subject, nodes, files, opened, text>>
  PROVE  ReadRight'
<1>1. ReaderTyped /\ FileRight(Current) /\ OthersOutside
  BY DEF ReadRight
<1>2. ReaderTyped'
  BY <1>1 DEF ReaderTyped, NodesTyped
<1>3. OthersOutside'
  BY <1>1 DEF OthersOutside
<1>4. FileRight(Current)'
  <2>1. PICK f : f = Current
    OBVIOUS
  <2>2. Current' = f
    BY <2>1 DEF Current
  <2>3. FileRight(f)'
    <3>1. FileRight(f)
      BY <1>1, <2>1
    <3>2. ASSUME NEW F, NEW i, NEW m, OpenedBy(Above(F, i), m, f.at)
          PROVE  OpenedBy(Above(F, i), m, f.at)'
      <4>1. PICK S, g : S = Above(F, i) /\ g = Greatest(S)
        OBVIOUS
      <4>2. Above(F, i)' = S
        BY <4>1, TextStays
      <4>3. Greatest(Above(F, i))' = g
        BY <4>1, <4>2 DEF Greatest
      <4>4. S # {} /\ Heads(g, m) /\ Owner(g) = Outer(f.at, m)
        BY <3>2, <4>1 DEF OpenedBy
      <4>5. Heads(g, m)' /\ Owner(g)' = Outer(f.at, m)
        BY <4>4, TextStays
      <4> QED
        BY <4>2, <4>3, <4>4, <4>5 DEF OpenedBy, Outer
    <3>3. AtLevel(f.at, Reach(f))'
      BY <3>1 DEF FileRight, AtLevel, Reach, HasHost, HasVolume
    <3>4. Grows(f.stack)'
      BY <3>1 DEF FileRight, Grows
    <3> QED
      BY <3>1, <3>2, <3>3, <3>4 DEF FileRight
  <2> QED
    BY <2>2, <2>3 DEF FileRight
<1> QED
  BY <1>2, <1>3, <1>4, RestStays DEF ReadRight

LEMMA EndKeeps ==
  ASSUME ReadRight, Len(files) > 1, files' = Front(files),
         UNCHANGED <<subject, nodes, opened, text>>
  PROVE  ReadRight'
<1>1. ReaderTyped /\ OthersOutside /\ Families /\ files \in Seq(ReadFile)
  BY DEF ReadRight, ReaderTyped
<1>2. PICK n, s, t : n = Len(files) - 1 /\ s = files /\ t = files'
  OBVIOUS
<1>3. /\ t \in Seq(ReadFile) /\ t # <<>> /\ Len(t) = n /\ n \in 1 .. n
      /\ \A i \in 1 .. n : t[i] = s[i]
  <2>1. t = SubSeq(s, 1, n) /\ s \in Seq(ReadFile) /\ n \in Nat /\ n >= 1 /\ n <= Len(s)
    BY <1>1, <1>2 DEF Front
  <2> QED
    BY <2>1
<1>4. \A i \in 1 .. n : IsFresh(s[i])
  BY <1>1, <1>2 DEF OthersOutside, IsFresh
<1>5. ReaderTyped'
  BY <1>1, <1>2, <1>3 DEF ReaderTyped, NodesTyped
<1>6. OthersOutside'
  <2>1. \A i \in 1 .. n - 1 : i \in 1 .. n
    BY <1>3
  <2> QED
    BY <1>2, <1>3, <1>4, <2>1 DEF OthersOutside, IsFresh
<1>7. FileRight(Current)'
  <2>1. PICK f : f = t[n]
    OBVIOUS
  <2>2. Current' = f
    BY <1>2, <1>3, <2>1 DEF Current
  <2>3. IsFresh(f) /\ Root \in DOMAIN nodes'
    BY <1>1, <1>3, <1>4, <2>1 DEF Families, Root
  <2>4. FileRight(f)'
    BY <2>3, FreshRight
  <2> QED
    BY <2>2, <2>4 DEF FileRight
<1> QED
  BY <1>5, <1>6, <1>7, RestStays DEF ReadRight

-----------------------------------------------------------------------------
(* The theorem.                                                            *)
LEMMA EmptyText ==
  ASSUME text = <<>>, NEW w
  PROVE  InForce(w, Root) = Initially[w]
<1>1. LastSetting(w, Root, 0) = Greatest({0})
  <2>1. {k \in 1 .. 0 : text[k].word = w /\ BlockOf(k) = Root} = {}
    OBVIOUS
  <2> QED
    BY <2>1 DEF LastSetting
<1>2. Greatest({0}) = 0
  <2>1. 0 \in Nat /\ {0} \in SUBSET (0 .. 0) /\ 0 \in {0} /\ \A j \in {0} : j <= 0
    OBVIOUS
  <2> QED
    BY <2>1, GreatestUnique
<1>3. Len(text) = 0
  OBVIOUS
<1> QED
  BY <1>1, <1>2, <1>3 DEF InForce, GlobalInForce

LEMMA BeginsRight ==
  ReadInit => ReadingInv
<1> SUFFICES ASSUME ReadInit PROVE ReadRight
  BY DEF ReadingInv
<1>1. /\ subject \in Subjects /\ nodes = [p \in {Root} |-> GlobalNode] /\ text = <<>>
      /\ opened = 1 /\ files = <<NewFile(1)>>
  BY DEF ReadInit
<1>2. PICK g : g = NewFile(1)
  OBVIOUS
<1>3. IsFresh(g) /\ g \in ReadFile /\ files = <<g>>
  BY <1>1, <1>2, NewFileFresh
<1>4. files \in Seq(ReadFile) /\ files # <<>> /\ Len(files) = 1 /\ Current = g
  BY <1>3 DEF Current
<1>5. DOMAIN nodes = {Root} /\ nodes[Root] = GlobalNode
  BY <1>1
<1>6. NodesTyped
  <2>1. Root \in Names \X Names
    BY DEF Root, Names
  <2>2. Initially = [w \in Word |-> Initially[w]]
    BY DEF Initially
  <2>3. PICK e : e = GlobalNode
    OBVIOUS
  <2>4. e = [set |-> [w \in Word |-> e.set[w]], backup |-> e.backup, prune |-> e.prune]
    BY <2>2, <2>3 DEF GlobalNode
  <2> QED
    BY <1>1, <2>1, <2>3, <2>4 DEF NodesTyped
<1>7. ReaderTyped
  BY <1>1, <1>4, <1>6 DEF ReaderTyped
<1>8. Families
  BY <1>5 DEF Families
<1>9. DOMAIN text = {}
  BY <1>1
<1>10. LinesRight
  BY <1>9 DEF LinesRight
<1>11. Makers
  BY <1>5 DEF Makers
<1>12. FileRight(Current)
  BY <1>3, <1>4, <1>5, FreshRight
<1>13. OthersOutside
  BY <1>4 DEF OthersOutside
<1>14. ValuesRight
  <2> SUFFICES ASSUME NEW w \in Word PROVE Held(Root, w) = InForce(w, Root)
    BY <1>5 DEF ValuesRight
  <2>1. Held(Root, w) = Initially[w]
    BY <1>5 DEF Held, GlobalNode
  <2> QED
    BY <1>1, <2>1, EmptyText
<1> QED
  BY <1>7, <1>8, <1>10, <1>11, <1>12, <1>13, <1>14 DEF ReadRight

LEMMA LineKeeps ==
  ASSUME ReadRight, phase = "read", NEW l \in subject, ReadLine(l), phase' # "failed"
  PROVE  ReadRight'
<1>1. CASE Refuse(l)
  BY <1>1 DEF Refuse
<1>2. CASE Include(l)
  BY <1>2, IncludeKeeps DEF Include
<1>3. CASE ~ Refuse(l) /\ ~ Include(l)
  BY <1>3, OverrunKeeps, AssignKeeps, ExtendKeeps, ParameterKeeps, PrunePolicyKeeps,
     StoreKeeps, HostKeeps, VolumeKeeps, ExcludeKeeps DEF ReadLine
<1> QED
  BY <1>1, <1>2, <1>3

LEMMA ReadingStays ==
  ReadingInv /\ [ReadNext]_reader => ReadingInv'
<1> SUFFICES ASSUME ReadingInv, [ReadNext]_reader, phase' \in {"read", "validate", "valid"}
             PROVE  ReadRight'
  BY DEF ReadingInv
<1>1. ASSUME NEW l \in Offered, ReadLine(l)
      PROVE  ReadRight'
  <2>1. CASE phase = "read"
    <3>1. ReadRight /\ l \in subject
      BY <1>1, <2>1 DEF ReadingInv, Offered
    <3> QED
      BY <1>1, <2>1, <3>1, LineKeeps
  <2>2. CASE phase = "reread"
    <3>1. phase' \in {"failed", "reread"}
      BY <1>1, <2>2 DEF ReadLine, Refuse, Overrun, Assign, Extend, SetParameter,
         SetPrunePolicy, AddStore, AddDevice, AddHost, AddVolume, AddExclude, Include,
         Advance
    <3> QED
      BY <3>1
  <2> QED
    BY <1>1, <2>1, <2>2 DEF Offered
<1>2. CASE EndFile
  <2>1. phase = "read" /\ UNCHANGED <<subject, nodes, opened, text>>
    BY <1>2 DEF EndFile
  <2>2. ReadRight
    BY <2>1 DEF ReadingInv
  <2>3. CASE Len(files) > 1
    BY <1>2, <2>1, <2>2, <2>3, EndKeeps DEF EndFile
  <2>4. CASE ~ (Len(files) > 1)
    BY <1>2, <2>1, <2>2, <2>4, StutterKeeps DEF EndFile
  <2> QED
    BY <2>3, <2>4
<1>3. CASE Validate \/ ReadingOver \/ UNCHANGED reader
  <2>1. phase \in {"read", "validate", "valid"} /\ UNCHANGED <<subject, nodes, files, opened, text>>
    BY <1>3 DEF Validate, ReadingOver, reader
  <2> QED
    BY <2>1, StutterKeeps DEF ReadingInv
<1>4. CASE Dump
  BY <1>4 DEF Dump
<1> QED
  BY <1>1, <1>2, <1>3, <1>4 DEF ReadNext

LEMMA ReadingIsRight ==
  ReadingInv => SettingsInForce
<1> SUFFICES ASSUME ReadRight, phase \in {"read", "validate", "valid"}
             PROVE  SettingsInForce
  BY DEF ReadingInv, SettingsInForce
<1>1. LinesRight /\ Makers /\ ValuesRight
  BY DEF ReadRight
<1>2. ContextKnown
  <2> SUFFICES ASSUME NEW l \in Offered, Placed(l)
               PROVE  /\ Here(l) \in DOMAIN nodes
                      /\ LevelOf(l) >= 2 <=> HasHost(Here(l))
                      /\ LevelOf(l) = 3 <=> HasVolume(Here(l))
    BY DEF ContextKnown, HasHost, HasVolume
  <2>1. l \in subject
    BY DEF Offered
  <2>2. PICK b : b = Here(l)
    OBVIOUS
  <2>3. b \in DOMAIN nodes /\ AtLevel(b, LevelOf(l))
    BY <2>1, <2>2, Situation
  <2> QED
    BY <2>2, <2>3 DEF AtLevel
<1>3. \A k \in DOMAIN text : Outside(k) # {} => Opener(k).word \in {"host", "volume"}
  BY <1>1 DEF LinesRight, Nested, Heads, Opener
<1>4. \A p \in DOMAIN nodes \ {Root} : Cardinality({k \in DOMAIN text : Made(k, p)}) = 1
  <2> SUFFICES ASSUME NEW p \in DOMAIN nodes \ {Root}
               PROVE  Cardinality({k \in DOMAIN text : Made(k, p)}) = 1
    OBVIOUS
  <2>1. PICK k \in DOMAIN text : \A j \in DOMAIN text : Made(j, p) <=> j = k
    BY <1>1 DEF Makers, Maker
  <2>2. {j \in DOMAIN text : Made(j, p)} = {k}
    BY <2>1
  <2> QED
    BY <2>2, FS_Singleton
<1>5. \A p \in DOMAIN nodes : \A w \in Word : Exempt(w) \/ Held(p, w) = InForce(w, p)
  BY <1>1 DEF ValuesRight
<1> QED
  BY <1>2, <1>3, <1>4, <1>5 DEF SettingsInForce, Exempt

(* A line that readOneFile() obeys is about the block that its indentation shows,  *)
(* and there is one; every host and volume was made by one line; and what it      *)
(* holds of each directive is the last that its stanza says, or else what was     *)
(* in force around the stanza where it began: for every set of lines, however      *)
(* many, and every way of including files.                                      *)
THEOREM SettingsAlwaysInForce == ReadSpec => []SettingsInForce
<1>1. ReadInit => ReadingInv
  BY BeginsRight
<1>2. ReadingInv /\ [ReadNext]_reader => ReadingInv'
  BY ReadingStays
<1>3. ReadingInv => SettingsInForce
  BY ReadingIsRight
<1> QED
  BY <1>1, <1>2, <1>3, PTL DEF ReadSpec

-----------------------------------------------------------------------------
(* What --dump-config writes, read again. First the words that it may write, and where. *)
(* The directives that set a value, by where they may be.                        *)
BaseWords ==
  {"max-age", "backup-policy", "prune-policy", "ssh-timeout", "rsync-command",
   "rsync-base-options", "rsync-extra-options", "backup-time", "backup-job-timeout",
   "rsync-io-timeout", "hook-timeout", "pre-volume-hook", "post-volume-hook",
   "rsync-link-dest", "rsync-remote"}

GraphWords ==
  {"color-graph-background", "color-graph-foreground", "color-month-guide",
   "color-host-guide", "color-volume-guide", "device-color-strategy",
   "horizontal-padding", "vertical-padding", "backup-indicator-width",
   "backup-indicator-height", "graph-target-width", "backup-indicator-key-width",
   "host-name-font", "volume-name-font", "device-name-font", "time-label-font"}

TopWords ==
  BaseWords \cup GraphWords \cup Unwritten \cup
  {"public", "logs", "keep-prune-logs", "prune-timeout", "color-good", "color-bad",
   "sendmail", "database", "lock", "stylesheet", "pre-device-hook",
   "post-device-hook", "rm", "host-check", "group"}

HostWords ==
  BaseWords \cup {"hostname", "priority", "host-check", "group", "user", "devices"}

VolumeWords ==
  BaseWords \cup {"traverse", "check-mounted", "group", "devices", "check-file"}

ValueForms == Assigned \cup {"policy"}

(* An entry of the table of directives has the form and the levels of its word.     *)
WordsOfLevel(n) ==
  IF n = 1 THEN TopWords ELSE IF n = 2 THEN HostWords ELSE VolumeWords

WellPlaced(d) ==
  /\ d.form \in ValueForms => d.levels = {n \in 1 .. 3 : d.word \in WordsOfLevel(n)}
  /\ d.form \in ValueForms <=> d.word \in TopWords \cup HostWords \cup VolumeWords
  /\ d.form = "policy" <=> d.word = "prune-policy"
  /\ d.form = "parameter" <=> d.word \in {"backup-parameter", "prune-parameter"}
  /\ d.form = "appended" <=> d.word \in {"report", "graph-layout"}
  /\ d.form = "exclude" <=> d.word = "exclude"
  /\ d.form = "device" <=> d.word = "device"

WellFormed(d) ==
  /\ d.word \in {"group", "hostname", "backup-policy"} => d.form = "text"
  /\ d.word \in {"group", "hostname", "backup-policy"} \/ d.form \in {"policy", "exclude", "device", "host"} =>
       d.least = 1 /\ d.most = 1
  /\ d.form = "boolean" => d.least \in {0, 1} /\ d.most = 1
  /\ d.form = "parameter" => d.least = 2 /\ d.most = 2 /\ d.levels = 1 .. 3
  /\ d.form = "volume" => d.least = 2 /\ d.most = 2
  /\ d.form = "appended" => d.least = 0 /\ d.most = Many /\ d.levels = {1}
  /\ d.form = "exclude" => d.levels = {3}
  /\ d.form = "device" => d.levels = {1}
  /\ d.word \in {"pre-device-hook", "post-device-hook", "pre-volume-hook",
                 "post-volume-hook"} => d.form = "list"
  /\ d.word = "rsync-link-dest" => d.form = "boolean"

Correct(d) == WellPlaced(d) /\ WellFormed(d)

(* Every directive that there is, is in its place and of its form.            *)
LEMMA FormsAndLevels ==
  \A d \in AllDirectives : Correct(d)
<1> USE DEF Correct, WellPlaced, WellFormed, ValueForms, Assigned, Many, WordsOfLevel, TopWords,
        HostWords, VolumeWords, BaseWords, GraphWords, Unwritten, Directives
<1>1. \A d \in GlobalDirectives : Correct(d)
  BY DEF GlobalDirectives
<1>2. \A d \in PlainDirectives : Correct(d)
  BY DEF PlainDirectives
<1>3. \A d \in GraphDirectives : Correct(d)
  BY DEF GraphDirectives
<1>4. \A d \in LayoutDirectives : Correct(d)
  BY DEF LayoutDirectives
<1>5. \A d \in PolicyDirectives : Correct(d)
  BY DEF PolicyDirectives
<1>6. \A d \in HookDirectives : Correct(d)
  BY DEF HookDirectives
<1>7. \A d \in RsyncDirectives : Correct(d)
  BY DEF RsyncDirectives
<1>8. \A d \in TimeDirectives : Correct(d)
  BY DEF TimeDirectives
<1>9. \A d \in HostDirectives : Correct(d)
  BY DEF HostDirectives
<1>10. \A d \in VolumeDirectives : Correct(d)
  BY DEF VolumeDirectives
<1> QED
  BY <1>1, <1>2, <1>3, <1>4, <1>5, <1>6, <1>7, <1>8, <1>9, <1>10 DEF AllDirectives, Inheritable

-----------------------------------------------------------------------------
(* What reading a line does, and where a sequence of lines leads.             *)
(* So is the one that a word finds.                                           *)
LEMMA FoundCorrect ==
  ASSUME NEW w, Known(w)
  PROVE  /\ DirectiveOf[w] \in AllDirectives /\ DirectiveOf[w].word = w
         /\ Correct(DirectiveOf[w]) /\ Sound(DirectiveOf[w])
<1>1. \E d \in AllDirectives : d.word = w
  BY DEF Known, DirectiveOf
<1>2. DirectiveOf[w] = CHOOSE d \in AllDirectives : d.word = w
  BY DEF Known, DirectiveOf
<1> QED
  BY <1>1, <1>2, FormsAndLevels, TableOfDirectives

(* What of the graph is written, and what a node takes over from around it, word by word. *)
LEMMA GraphIs == GraphWritten = GraphWords
<1>1. \A d \in GraphDirectives : d.word \in GraphWords
  BY DEF GraphWords, GraphDirectives, Directives
<1>2. ASSUME NEW w \in GraphWords
      PROVE  \E d \in GraphDirectives : d.word = w
  <2> DEFINE Entry(form, least, most) ==
               [word |-> w, form |-> form, least |-> least, most |-> most, levels |-> {1},
                opens |-> 0]
  <2>1. \/ Entry("color", 1, 4) \in GraphDirectives
        \/ Entry("strategy", 1, Many) \in GraphDirectives
        \/ Entry("measure", 0, Many) \in GraphDirectives
        \/ Entry("text", 1, 1) \in GraphDirectives
    BY DEF GraphWords, GraphDirectives, Directives
  <2> QED
    BY <2>1
<1> QED
  BY <1>1, <1>2 DEF GraphWritten

LEMMA InheritedIs ==
  Inherited = BaseWords \cup {"backup-parameter", "prune-parameter", "host-check", "group",
                              "devices"}
<1> DEFINE W == BaseWords \cup {"backup-parameter", "prune-parameter", "host-check", "group"}
<1>1. \A d \in Inheritable : d.word \in W
  BY DEF Inheritable, PolicyDirectives, HookDirectives, RsyncDirectives, TimeDirectives,
     Directives, BaseWords
<1>2. ASSUME NEW w \in W
      PROVE  \E d \in Inheritable : d.word = w
  <2> DEFINE Entry(form, least, most, levels) ==
               [word |-> w, form |-> form, least |-> least, most |-> most,
                levels |-> levels, opens |-> 0]
  <2>1. CASE w \in {"max-age", "backup-policy", "backup-parameter", "prune-parameter",
                    "prune-policy"}
    <3>1. \/ Entry("interval", 1, 1, 1 .. 3) \in PolicyDirectives
          \/ Entry("text", 1, 1, 1 .. 3) \in PolicyDirectives
          \/ Entry("parameter", 2, 2, 1 .. 3) \in PolicyDirectives
          \/ Entry("policy", 1, 1, 1 .. 3) \in PolicyDirectives
      BY <2>1 DEF PolicyDirectives, Directives
    <3> QED
      BY <3>1 DEF Inheritable
  <2>2. CASE w \in {"pre-volume-hook", "post-volume-hook", "backup-job-timeout",
                    "rsync-io-timeout", "hook-timeout", "host-check"}
    <3>1. \/ Entry("list", 0, Many, 1 .. 3) \in HookDirectives
          \/ Entry("interval", 1, 1, 1 .. 3) \in HookDirectives
          \/ Entry("check", 1, Many, {1, 2}) \in HookDirectives
      BY <2>2 DEF HookDirectives, Directives
    <3> QED
      BY <3>1 DEF Inheritable
  <2>3. CASE w \in {"ssh-timeout", "rsync-command", "rsync-remote", "rsync-link-dest",
                    "rsync-base-options", "rsync-extra-options"}
    <3>1. \/ Entry("interval", 1, 1, 1 .. 3) \in RsyncDirectives
          \/ Entry("text", 1, 1, 1 .. 3) \in RsyncDirectives
          \/ Entry("boolean", 1, 1, 1 .. 3) \in RsyncDirectives
          \/ Entry("list", 1, Many, 1 .. 3) \in RsyncDirectives
          \/ Entry("list", 0, Many, 1 .. 3) \in RsyncDirectives
      BY <2>3 DEF RsyncDirectives, Directives
    <3> QED
      BY <3>1 DEF Inheritable
  <2>4. CASE w \in {"backup-time", "group"}
    <3>1. \/ Entry("times", 1, 1, 1 .. 3) \in TimeDirectives
          \/ Entry("text", 1, 1, 1 .. 3) \in TimeDirectives
      BY <2>4 DEF TimeDirectives, Directives
    <3> QED
      BY <3>1 DEF Inheritable
  <2> QED
    BY <2>1, <2>2, <2>3, <2>4 DEF BaseWords
<1> QED
  BY <1>1, <1>2 DEF Inherited

-----------------------------------------------------------------------------
(* Reading what has been written. A state of the reader: the nodes and devices that     *)
(* there are, and the node that the last line was about.                         *)
Level(p) == IF p = Root THEN 1 ELSE IF HasVolume(p) THEN 3 ELSE 2

Within(p, l) ==
  /\ l.indent = 4 * (Level(p) - 1)
  /\ Known(l.word) /\ Level(p) \in DirectiveOf[l.word].levels
  /\ Checks(DirectiveOf[l.word], l) /\ ~ Overruns(DirectiveOf[l.word], l)

WithValue(e, w, v) == [e EXCEPT !.set[w] = v]

SetsValue(e, l, x) ==
  /\ DirectiveOf[l.word].form \in Assigned
  /\ Reads(DirectiveOf[l.word].form, l.args)
  /\ x = WithValue(e, l.word, Value(DirectiveOf[l.word].form, l.args))

SetsPolicy(e, l, x) ==
  /\ DirectiveOf[l.word].form = "policy"
  /\ l.args \notin DOMAIN Reading["path"]
  /\ x = WithValue(e, l.word, l.args)

SetsList(e, l, x) ==
  /\ DirectiveOf[l.word].form = "appended"
  /\ x = WithValue(e, l.word, IF l.args[1] = "+" THEN e.set[l.word] \o Tail(l.args)
                              ELSE l.args)

SetsParameter(e, l, x) ==
  /\ DirectiveOf[l.word].form = "parameter"
  /\ <<ParameterName(l.args)>> \in DOMAIN Reading["parameter"]
  /\ x = IF l.word = "backup-parameter"
           THEN [e EXCEPT !.backup = Changed(@, l.args)]
           ELSE [e EXCEPT !.prune = Changed(@, l.args)]

SetsExclude(e, l, x) ==
  /\ DirectiveOf[l.word].form = "exclude"
  /\ x = WithValue(e, l.word, Append(e.set[l.word], l.args[1]))

Sets(e, l, x) ==
  SetsValue(e, l, x) \/ SetsPolicy(e, l, x) \/ SetsList(e, l, x) \/ SetsParameter(e, l, x)
    \/ SetsExclude(e, l, x)

TakesSetting(s, l, t) ==
  /\ Within(s.at, l)
  /\ \E x : /\ Sets(s.nodes[s.at], l, x)
            /\ t = [nodes |-> [s.nodes EXCEPT ![s.at] = x], devices |-> s.devices,
                    at |-> s.at]

TakesDevice(s, l, t) ==
  /\ Within(s.at, l) /\ s.at = Root /\ DirectiveOf[l.word].form = "device"
  /\ t = [nodes |-> s.nodes, devices |-> s.devices \cup {l.args[1]}, at |-> s.at]

TakesHost(s, l, t) ==
  \E h \in HostName :
    /\ l.indent = 0 /\ l.word = "host" /\ l.args = <<h>>
    /\ <<h, "">> \notin DOMAIN s.nodes
    /\ t = [nodes |-> With(s.nodes, <<h, "">>, HostNode(h, s.nodes[Root])),
            devices |-> s.devices, at |-> <<h, "">>]

TakesVolume(s, l, t) ==
  \E h \in HostName, v \in VolumeName :
    /\ l.indent = 4 /\ l.word = "volume" /\ l.args = <<v, "path">>
    /\ s.at[1] = h
    /\ <<h, v>> \notin DOMAIN s.nodes
    /\ t = [nodes |-> With(s.nodes, <<h, v>>, VolumeNode(s.nodes[<<h, "">>])),
            devices |-> s.devices, at |-> <<h, v>>]

Takes(s, l, t) ==
  TakesSetting(s, l, t) \/ TakesDevice(s, l, t) \/ TakesHost(s, l, t) \/ TakesVolume(s, l, t)

Passage(D, r) == \A i \in 1 .. Len(D) : Takes(r[i - 1], D[i], r[i])

(* The lines D lead from s to t.                                               *)
Leads(D, s, t) ==
  \E r : r[0] = s /\ r[Len(D)] = t /\ Passage(D, r)

(* No lines lead nowhere, one line where it leads, and more as far as their parts do. *)
LEMMA LeadsNowhere ==
  ASSUME NEW s
  PROVE  Leads(<<>>, s, s)
<1>1. PICK r : r = [i \in {0} |-> s]
  OBVIOUS
<1>2. r[0] = s /\ Passage(<<>>, r)
  BY <1>1 DEF Passage
<1> QED
  BY <1>1, <1>2 DEF Leads

LEMMA LeadsOneLine ==
  ASSUME NEW s, NEW t, NEW l, Takes(s, l, t)
  PROVE  Leads(<<l>>, s, t)
<1>1. PICK r : r = [i \in {0, 1} |-> IF i = 0 THEN s ELSE t]
  OBVIOUS
<1>2. r[0] = s /\ r[1] = t
  BY <1>1
<1>3. Passage(<<l>>, r)
  BY <1>2 DEF Passage
<1> QED
  BY <1>2, <1>3 DEF Leads

LEMMA LeadsOn ==
  ASSUME NEW S, NEW D \in Seq(S), NEW E \in Seq(S), NEW s, NEW t, NEW u,
         Leads(D, s, t), Leads(E, t, u)
  PROVE  Leads(D \o E, s, u)
<1>1. PICK r : r[0] = s /\ r[Len(D)] = t /\ Passage(D, r)
  BY DEF Leads
<1>2. PICK q : q[0] = t /\ q[Len(E)] = u /\ Passage(E, q)
  BY DEF Leads
<1>3. Len(D) \in Nat /\ Len(E) \in Nat /\ Len(D \o E) = Len(D) + Len(E)
  OBVIOUS
<1> DEFINE n == Len(D)
           m == Len(E)
<1>4. PICK f : f = [i \in 0 .. n + m |-> IF i <= n THEN r[i] ELSE q[i - n]]
  OBVIOUS
<1>5. f[0] = s
  BY <1>1, <1>3, <1>4
<1>6. f[n + m] = u
  <2>1. CASE m = 0
    BY <1>1, <1>2, <1>3, <1>4, <2>1
  <2>2. CASE m > 0
    BY <1>2, <1>3, <1>4, <2>2
  <2> QED
    BY <1>3, <2>1, <2>2
<1>7. ASSUME NEW i \in 1 .. n + m
      PROVE  Takes(f[i - 1], (D \o E)[i], f[i])
  <2>1. CASE i <= n
    <3>1. f[i - 1] = r[i - 1] /\ f[i] = r[i] /\ (D \o E)[i] = D[i] /\ i \in 1 .. n
      BY <1>3, <1>4, <2>1
    <3> QED
      BY <1>1, <3>1 DEF Passage
  <2>2. CASE i > n
    <3>1. i - n \in 1 .. m /\ (D \o E)[i] = E[i - n] /\ f[i] = q[i - n]
      BY <1>3, <1>4, <2>2
    <3>2. f[i - 1] = q[(i - n) - 1]
      <4>1. CASE i = n + 1
        <5>1. i - 1 = n /\ (i - n) - 1 = 0 /\ n \in 0 .. n + m /\ n <= n
          BY <1>3, <4>1
        <5>2. f[n] = r[n]
          BY <1>4, <5>1
        <5> QED
          BY <1>1, <1>2, <5>1, <5>2
      <4>2. CASE i > n + 1
        <5>1. i - 1 \in 0 .. n + m /\ ~ (i - 1 <= n) /\ (i - 1) - n = (i - n) - 1
          BY <1>3, <4>2
        <5> QED
          BY <1>4, <5>1
      <4> QED
        BY <1>3, <2>2, <4>1, <4>2
    <3> QED
      BY <1>2, <3>1, <3>2 DEF Passage
  <2> QED
    BY <1>3, <2>1, <2>2
<1> QED
  BY <1>3, <1>5, <1>6, <1>7 DEF Leads, Passage

(* The first line, and the others.                                             *)
LEMMA LeadsFirst ==
  ASSUME NEW S, NEW D \in Seq(S), D # <<>>, NEW s, NEW t, Leads(D, s, t)
  PROVE  \E u : Takes(s, D[1], u) /\ Leads(Tail(D), u, t)
<1>1. PICK r : r[0] = s /\ r[Len(D)] = t /\ Passage(D, r)
  BY DEF Leads
<1>2. PICK f : f = [i \in 0 .. Len(D) - 1 |-> r[i + 1]]
  OBVIOUS
<1>3. /\ Len(D) \in Nat /\ Len(D) > 0 /\ Len(Tail(D)) = Len(D) - 1
      /\ \A i \in 1 .. Len(D) - 1 : Tail(D)[i] = D[i + 1]
  OBVIOUS
<1>4. f[0] = r[1] /\ f[Len(D) - 1] = t
  BY <1>1, <1>2, <1>3
<1>5. \A i \in 1 .. Len(D) - 1 : f[i - 1] = r[i] /\ f[i] = r[i + 1]
  BY <1>2, <1>3
<1>6. ASSUME NEW i \in 1 .. Len(D) - 1
      PROVE  Takes(f[i - 1], Tail(D)[i], f[i])
  <2>1. i + 1 \in 1 .. Len(D) /\ (i + 1) - 1 = i
    BY <1>3
  <2>2. Takes(r[i], D[i + 1], r[i + 1])
    BY <1>1, <2>1 DEF Passage
  <2> QED
    BY <1>3, <1>5, <2>2
<1>7. Takes(s, D[1], r[1])
  <2>1. 1 \in 1 .. Len(D) /\ 1 - 1 = 0
    BY <1>3
  <2> QED
    BY <1>1, <2>1 DEF Passage
<1> QED
  BY <1>3, <1>4, <1>6, <1>7 DEF Leads, Passage

(* Where no line is left the reader has arrived.                              *)
LEMMA LeadsLast ==
  ASSUME NEW s, NEW t, Leads(<<>>, s, t)
  PROVE  s = t
BY DEF Leads

(* What FlattenSeq() builds up: the sequences put together, from the first on.      *)
Flattens(g, s) ==
  \A i \in 1 .. Len(s) : g[i] = IF i = 1 THEN s[i] ELSE g[i - 1] \o s[i]

(* A sequence of sequences can be flattened from its front on.                *)
LEMMA FlattensExist ==
  ASSUME NEW X, NEW s \in Seq(Seq(X))
  PROVE  \E g \in [1 .. Len(s) -> Seq(X)] : Flattens(g, s)
<1> DEFINE Does(m, g) ==
             /\ g \in [1 .. m -> Seq(X)]
             /\ \A i \in 1 .. m : g[i] = IF i = 1 THEN s[i] ELSE g[i - 1] \o s[i]
           Fails == {m \in Nat : m <= Len(s) /\ ~ \E g : Does(m, g)}
<1>0. Fails = {} => \E g : Does(Len(s), g)
  <2>1. Len(s) \in Nat
    OBVIOUS
  <2> HIDE DEF Does
  <2> QED
    BY <2>1
<1> SUFFICES ASSUME Fails # {} PROVE FALSE
  BY <1>0 DEF Flattens
<1>1. PICK m \in Fails : \A k \in Fails : m <= k
  <2>1. Fails \in SUBSET Nat
    OBVIOUS
  <2> HIDE DEF Fails
  <2> QED
    BY <2>1, LeastNumber
<1>2. m \in Nat /\ m <= Len(s) /\ Len(s) \in Nat /\ ~ \E g : Does(m, g)
  <2>1. Len(s) \in Nat
    OBVIOUS
  <2> HIDE DEF Does
  <2> QED
    BY <1>1, <2>1
<1>3. m # 0
  <2> SUFFICES ASSUME m = 0 PROVE FALSE
    OBVIOUS
  <2> DEFINE g == [i \in 1 .. m |-> <<>>]
  <2>1. Does(m, g)
    OBVIOUS
  <2> HIDE DEF Does
  <2> QED
    BY <1>2, <2>1
<1>4. PICK l \in Nat : m = l + 1
  <2>1. m - 1 \in Nat /\ m = (m - 1) + 1
    BY <1>2, <1>3
  <2> QED
    BY <2>1
<1>5. PICK g : Does(l, g)
  <2>1. l \notin Fails /\ l <= Len(s)
    <3> HIDE DEF Fails
    <3> QED
      BY <1>1, <1>2, <1>4
  <2> HIDE DEF Does
  <2> QED
    BY <2>1
<1> DEFINE h == [i \in 1 .. m |-> IF i <= l THEN g[i] ELSE IF m = 1 THEN s[m] ELSE g[l] \o s[m]]
<1>6. m \in 1 .. Len(s) /\ s[m] \in Seq(X)
  BY <1>2, <1>3
<1>7. m # 1 => l \in 1 .. l /\ g[l] \in Seq(X)
  BY <1>4, <1>5
<1>8. \A i \in 1 .. l : g[i] \in Seq(X) /\ i \in 1 .. m
  BY <1>4, <1>5
<1>9. m # 1 => g[l] \o s[m] \in Seq(X)
  BY <1>6, <1>7
<1>10. h \in [1 .. m -> Seq(X)]
  <2>1. ASSUME NEW i \in 1 .. m
        PROVE  (IF i <= l THEN g[i] ELSE IF m = 1 THEN s[m] ELSE g[l] \o s[m]) \in Seq(X)
    <3>1. i <= l => i \in 1 .. l
      OBVIOUS
    <3> QED
      BY <1>6, <1>8, <1>9, <3>1
  <2> QED
    BY <2>1
<1>11. ASSUME NEW i \in 1 .. m
       PROVE  h[i] = IF i = 1 THEN s[i] ELSE h[i - 1] \o s[i]
  <2>1. CASE i <= l
    <3>1. i \in 1 .. l /\ h[i] = g[i] /\ (i # 1 => i - 1 \in 1 .. m /\ i - 1 <= l)
      BY <1>4, <2>1
    <3>2. i # 1 => h[i - 1] = g[i - 1]
      BY <3>1
    <3>3. g[i] = IF i = 1 THEN s[i] ELSE g[i - 1] \o s[i]
      BY <1>5, <3>1
    <3> HIDE DEF h
    <3> QED
      BY <3>1, <3>2, <3>3
  <2>2. CASE ~ (i <= l)
    <3>1. i = m /\ m - 1 = l
      BY <1>4, <2>2
    <3>2. m # 1 => l \in 1 .. m /\ h[l] = g[l]
      BY <1>4
    <3>3. h[m] = IF m = 1 THEN s[m] ELSE g[l] \o s[m]
      BY <1>4, <1>6
    <3> HIDE DEF h
    <3> QED
      BY <3>1, <3>2, <3>3
  <2> QED
    BY <2>1, <2>2
<1>12. Does(m, h)
  <2> HIDE DEF h
  <2> QED
    BY <1>10, <1>11
<1> HIDE DEF Does
<1> QED
  BY <1>2, <1>12

(* And FlattenSeq is that.                                                    *)
LEMMA FlattenIs ==
  ASSUME NEW X, NEW s \in Seq(Seq(X)), Len(s) > 0
  PROVE  \E g \in [1 .. Len(s) -> Seq(X)] : Flattens(g, s) /\ FlattenSeq(s) = g[Len(s)]
<1> DEFINE Rule(f) == f = [i \in 1 .. Len(s) |-> IF i = 1 THEN s[i] ELSE f[i - 1] \o s[i]]
<1>1. PICK g \in [1 .. Len(s) -> Seq(X)] : Flattens(g, s)
  BY FlattensExist
<1>2. Rule(g)
  BY <1>1 DEF Flattens
<1>3. FlattenSeq(s) = (CHOOSE f : Rule(f))[Len(s)]
  BY DEF FlattenSeq
<1> DEFINE iter == CHOOSE f : Rule(f)
<1>4. Rule(iter)
  <2> HIDE DEF Rule
  <2> QED
    BY <1>2
<1>5. \A i \in 1 .. Len(s) : iter[i] = IF i = 1 THEN s[i] ELSE iter[i - 1] \o s[i]
  <2> HIDE DEF iter
  <2> QED
    BY <1>4
<1>6. FlattenSeq(s) = iter[Len(s)]
  BY <1>3
<1> HIDE DEF iter, Rule
<1> DEFINE Fails == {i \in 1 .. Len(s) : iter[i] # g[i]}
<1>7. Fails = {}
  <2> SUFFICES ASSUME Fails # {} PROVE FALSE
    OBVIOUS
  <2>1. PICK i \in Fails : \A j \in Fails : i <= j
    <3>1. Fails \in SUBSET Nat
      OBVIOUS
    <3> HIDE DEF Fails
    <3> QED
      BY <3>1, LeastNumber
  <2>2. i \in 1 .. Len(s) /\ Len(s) \in Nat /\ iter[i] # g[i]
    BY <2>1
  <2>3. i # 1
    BY <1>1, <1>5, <2>2 DEF Flattens
  <2>4. i - 1 \in 1 .. Len(s) /\ ~ (i <= i - 1)
    BY <2>2, <2>3
  <2>5. iter[i - 1] = g[i - 1]
    BY <2>1, <2>4
  <2> QED
    BY <1>1, <1>5, <2>2, <2>3, <2>5 DEF Flattens
<1>8. Len(s) \in 1 .. Len(s)
  OBVIOUS
<1> QED
  BY <1>1, <1>6, <1>7, <1>8


(* A function of numbers that begins with a sequence that leads on from each state      *)
(* to the next.                                                                *)
LEMMA LeadsThrough ==
  ASSUME NEW X, NEW ss \in Seq(Seq(X)), NEW b,
         \A k \in 1 .. Len(ss) : Leads(ss[k], b[k - 1], b[k])
  PROVE  FlattenSeq(ss) \in Seq(X) /\ Leads(FlattenSeq(ss), b[0], b[Len(ss)])
<1>1. Len(ss) \in Nat /\ \A k \in 1 .. Len(ss) : ss[k] \in Seq(X)
  OBVIOUS
<1>2. CASE Len(ss) = 0
  <2>1. FlattenSeq(ss) = <<>> /\ ss = <<>>
    BY <1>2 DEF FlattenSeq
  <2> QED
    BY <1>2, <2>1, LeadsNowhere
<1>3. CASE Len(ss) > 0
  <2>1. PICK g \in [1 .. Len(ss) -> Seq(X)] : Flattens(g, ss) /\ FlattenSeq(ss) = g[Len(ss)]
    BY <1>3, FlattenIs
  <2> DEFINE Fails == {k \in 1 .. Len(ss) : ~ Leads(g[k], b[0], b[k])}
  <2>2. Fails = {}
    <3> SUFFICES ASSUME Fails # {} PROVE FALSE
      OBVIOUS
    <3>1. PICK k \in Fails : \A j \in Fails : k <= j
      <4>1. Fails \in SUBSET Nat
        OBVIOUS
      <4> HIDE DEF Fails
      <4> QED
        BY <4>1, LeastNumber
    <3>2. k \in 1 .. Len(ss) /\ ~ Leads(g[k], b[0], b[k]) /\ Leads(ss[k], b[k - 1], b[k])
      OBVIOUS
    <3>3. CASE k = 1
      <4>1. 1 \in 1 .. Len(ss)
        BY <3>2, <3>3
      <4>2. g[1] = ss[1]
        BY <2>1, <4>1 DEF Flattens
      <4>3. k - 1 = 0
        BY <3>3
      <4> QED
        BY <3>2, <3>3, <4>2, <4>3
    <3>4. CASE k # 1
      <4>1. k - 1 \in 1 .. Len(ss) /\ ~ (k <= k - 1)
        BY <3>2, <3>4
      <4>2. Leads(g[k - 1], b[0], b[k - 1])
        BY <3>1, <4>1
      <4>3. g[k] = g[k - 1] \o ss[k]
        BY <2>1, <3>2, <3>4 DEF Flattens
      <4>4. g[k - 1] \in Seq(X) /\ ss[k] \in Seq(X)
        BY <1>1, <2>1, <3>2, <4>1
      <4> QED
        BY <3>2, <4>2, <4>3, <4>4, LeadsOn
    <3> QED
      BY <3>3, <3>4
  <2>3. Len(ss) \in 1 .. Len(ss)
    BY <1>1, <1>3
  <2> QED
    BY <2>1, <2>2, <2>3
<1> QED
  BY <1>1, <1>2, <1>3

(* A finite set in the order that it is put in.                                *)
LEMMA Ordering ==
  ASSUME NEW S, IsFiniteSet(S), NEW q, q = SetToSeq(S)
  PROVE  /\ q \in Seq(S) /\ Len(q) \in Nat /\ DOMAIN q = 1 .. Len(q)
         /\ \A i \in 1 .. Len(q) : q[i] \in S
         /\ \A x \in S : \E i \in 1 .. Len(q) : q[i] = x
         /\ \A i, j \in 1 .. Len(q) : q[i] = q[j] => i = j
<1> DEFINE n == Cardinality(S)
<1>1. n \in Nat /\ ExistsBijection(1 .. n, S)
  BY FS_CardinalityType
<1>2. PICK f \in Bijection(1 .. n, S) : TRUE
  BY <1>1 DEF ExistsBijection
<1>3. f \in [1 .. n -> S] /\ IsInjective(f)
  BY <1>2 DEF Bijection, Injection, IsInjective
<1>4. q \in [1 .. n -> S] /\ IsInjective(q)
  BY <1>3 DEF SetToSeq
<1>5. q \in Seq(S) /\ Len(q) = n
  BY <1>1, <1>4
<1>6. \A x \in S : \E i \in 1 .. n : q[i] = x
  <2>1. IsFiniteSet(1 .. n) /\ Cardinality(1 .. n) = n
    BY <1>1, FS_Interval
  <2>2. q \in Injection(1 .. n, S)
    BY <1>4 DEF IsInjective, Injection
  <2>3. q \in Surjection(1 .. n, S)
    BY <2>1, <2>2, FS_Injection
  <2> QED
    BY <2>3 DEF Surjection
<1>7. \A i, j \in 1 .. n : q[i] = q[j] => i = j
  BY <1>4 DEF IsInjective
<1> QED
  BY <1>1, <1>4, <1>5, <1>6, <1>7

-----------------------------------------------------------------------------
(* The reader, while it reads a dump: it takes each line that can be taken.   *)
(* The blocks that are open in a dump, n deep.                                  *)
StackOf(n) == [i \in 1 .. n |-> 4 * (i - 1)]

InsideOf(p) == [stack |-> StackOf(Level(p)), opens |-> 0, at |-> p, file |-> 1]

OpenedAt(p) == [stack |-> StackOf(Level(p) - 1), opens |-> Level(p), at |-> p, file |-> 1]

InBlock(f, p) == f = InsideOf(p) \/ (p # Root /\ f = OpenedAt(p))

Standing(s) ==
  /\ nodes = s.nodes /\ devices = s.devices
  /\ Len(files) = 1 /\ files = <<files[1]>> /\ InBlock(files[1], s.at)
  /\ s.at \in Names \X Names

(* The depths of the blocks that a dump has open: four more for each level.   *)
LEMMA StackIs ==
  ASSUME NEW n \in 0 .. 3
  PROVE  /\ StackOf(n) \in Seq(Nat) /\ Len(StackOf(n)) = n /\ DOMAIN StackOf(n) = 1 .. n
         /\ \A i \in 1 .. n : StackOf(n)[i] = 4 * (i - 1)
BY DEF StackOf

(* A line of a dump is at the level that its depth says, and about what is outside it there. *)
LEMMA LevelInBlock ==
  ASSUME NEW f, files = <<f>>, NEW p, InBlock(f, p), NEW n \in 1 .. 3, n <= Level(p),
         NEW l, l.indent = 4 * (n - 1)
  PROVE  LevelOf(l) = n /\ OpenDepths(l) = StackOf(n) /\ Here(l) = Outer(p, n)
<1>1. PICK m \in 0 .. 3 : f.stack = StackOf(m) /\ f.at = p /\ m >= 1
                         /\ (m = Level(p) \/ (m = Level(p) - 1 /\ f.opens = Level(p)))
  <2>1. Level(p) \in 1 .. 3 /\ (p # Root => Level(p) > 1)
    BY DEF Level
  <2>2. CASE f = InsideOf(p)
    BY <2>1, <2>2 DEF InsideOf
  <2>3. CASE p # Root /\ f = OpenedAt(p)
    BY <2>1, <2>3 DEF OpenedAt
  <2> QED
    BY <2>2, <2>3 DEF InBlock
<1>2. Current = f /\ Depths = StackOf(m)
  BY <1>1 DEF Current, Depths
<1>3. /\ StackOf(m) \in Seq(Nat) /\ Len(StackOf(m)) = m /\ DOMAIN StackOf(m) = 1 .. m
      /\ \A i \in 1 .. m : StackOf(m)[i] = 4 * (i - 1)
  BY <1>1, StackIs
<1>4. CASE n <= m
  <2>1. n \in DOMAIN Depths /\ Depths[n] = l.indent
    BY <1>2, <1>3, <1>4
  <2>2. \A i \in DOMAIN Depths : Depths[i] = l.indent => i = n
    BY <1>2, <1>3
  <2>3. Fits(l)
    BY <2>1 DEF Fits
  <2>4. LevelOf(l) = n
    BY <2>1, <2>2, <2>3 DEF LevelOf
  <2>5. SubSeq(StackOf(m), 1, n) = StackOf(n)
    BY <1>3, <1>4 DEF StackOf
  <2> QED
    BY <1>1, <1>2, <2>3, <2>4, <2>5 DEF OpenDepths, Here
<1>5. CASE n > m
  <2>1. n = m + 1 /\ f.opens = n
    BY <1>1, <1>5 DEF Level
  <2>2. ~ Fits(l)
    BY <1>2, <1>3, <2>1 DEF Fits
  <2>3. l.indent > Depths[Len(Depths)]
    BY <1>1, <1>2, <1>3, <2>1
  <2>4. LevelOf(l) = n
    BY <1>2, <2>1, <2>2, <2>3 DEF LevelOf
  <2>5. Append(StackOf(m), 4 * m) = StackOf(n)
    BY <1>3, <2>1 DEF StackOf
  <2>6. l.indent = 4 * m
    BY <2>1
  <2> QED
    BY <1>1, <1>2, <2>2, <2>4, <2>5, <2>6 DEF OpenDepths, Here
<1> QED
  BY <1>1, <1>4, <1>5

(* What a line of the dump does.                                               *)
TheRestStays ==
  /\ phase' = "reread" /\ script' = Tail(script)
  /\ UNCHANGED <<subject, kept>>

(* What reading a line of a dump makes of the file.                           *)
LEMMA AdvanceInBlock ==
  ASSUME phase = "reread", NEW f, files = <<f>>, NEW p, InBlock(f, p), NEW n \in 1 .. 3,
         n <= Level(p), NEW l, l.indent = 4 * (n - 1), NEW c, Advance(l, c)
  PROVE  /\ TheRestStays
         /\ files' = <<[stack |-> StackOf(n), opens |-> DirectiveOf[l.word].opens, at |-> c,
                        file |-> 1]>>
<1>1. OpenDepths(l) = StackOf(n)
  BY LevelInBlock
<1>2. Current = f /\ f.file = 1 /\ Len(files) = 1
  BY DEF Current, InBlock, InsideOf, OpenedAt
<1>3. PICK g : g = [stack |-> OpenDepths(l), opens |-> DirectiveOf[l.word].opens, at |-> c,
                    file |-> 1]
  OBVIOUS
<1>4. files' = [files EXCEPT ![1] = g]
  BY <1>2, <1>3 DEF Advance
<1>5. files' = <<g>>
  BY <1>4
<1> QED
  BY <1>1, <1>3, <1>5 DEF Advance, TheRestStays

(* What is at its own level is about itself.                                  *)
LEMMA HereAtLevel ==
  ASSUME NEW p \in Names \X Names
  PROVE  Outer(p, Level(p)) = p
<1>1. CASE p = Root
  BY <1>1, OuterIs DEF Level
<1>2. CASE p # Root /\ HasVolume(p)
  BY <1>2, OuterIs DEF Level
<1>3. CASE p # Root /\ ~ HasVolume(p)
  <2>1. Level(p) = 2 /\ Outer(p, 2) = HostOf(p)
    BY <1>3, OuterIs DEF Level
  <2>2. PICK a \in Names, b \in Names : p = <<a, b>>
    OBVIOUS
  <2>3. b = ""
    BY <1>3, <2>2 DEF HasVolume
  <2>4. HostOf(p) = <<a, "">>
    BY <2>2 DEF HostOf
  <2> QED
    BY <2>1, <2>2, <2>3, <2>4
<1> QED
  BY <1>1, <1>2, <1>3

(* A line that sets something.                                                 *)
LEMMA SettingRead ==
  ASSUME phase = "reread", NEW l, ReadLine(l), NEW s, Standing(s), NEW t,
         TakesSetting(s, l, t)
  PROVE  Standing(t)' /\ TheRestStays
<1>1. PICK p, f, n : p = s.at /\ f = files[1] /\ n = Level(p)
  OBVIOUS
<1>2. PICK x : /\ Sets(nodes[p], l, x)
               /\ t = [nodes |-> [nodes EXCEPT ![p] = x], devices |-> devices, at |-> p]
  BY <1>1 DEF TakesSetting, Standing
<1>3. files = <<f>> /\ InBlock(f, p) /\ p \in Names \X Names
  BY <1>1 DEF Standing
<1>4. n \in 1 .. 3 /\ n <= Level(p)
  BY <1>1 DEF Level
<1>5. /\ l.indent = 4 * (n - 1) /\ Known(l.word) /\ n \in DirectiveOf[l.word].levels
      /\ Checks(DirectiveOf[l.word], l) /\ ~ Overruns(DirectiveOf[l.word], l)
  BY <1>1 DEF TakesSetting, Within
<1>6. LevelOf(l) = n /\ Here(l) = p
  <2>1. LevelOf(l) = n /\ Here(l) = Outer(p, n)
    BY <1>3, <1>4, <1>5, LevelInBlock
  <2> QED
    BY <1>1, <1>3, <2>1, HereAtLevel
<1>7. PICK d : d = DirectiveOf[l.word]
  OBVIOUS
<1>8. Sound(d) /\ Correct(d) /\ d.word = l.word
  BY <1>5, <1>7, FoundCorrect
<1>9. d.form \in Assigned \cup {"policy", "appended", "parameter", "exclude"}
  BY <1>2, <1>7 DEF Sets, SetsValue, SetsPolicy, SetsList, SetsParameter, SetsExclude
<1>10. Sensible(d, l)
  <2>1. d.form \in Assigned => Reads(d.form, l.args)
    BY <1>2, <1>7 DEF Sets, SetsValue, SetsPolicy, SetsList, SetsParameter, SetsExclude, Assigned
  <2>2. d.form = "parameter" => <<ParameterName(l.args)>> \in DOMAIN Reading["parameter"]
    BY <1>2, <1>7 DEF Sets, SetsValue, SetsPolicy, SetsList, SetsParameter, SetsExclude, Assigned
  <2> QED
    BY <1>9, <2>1, <2>2 DEF Sensible, Assigned
<1>11. Obeys(l)
  BY <1>5, <1>6, <1>7, <1>10 DEF Obeys, Placed
<1>12. ASSUME Advance(l, p)
       PROVE  TheRestStays /\ files' = <<InsideOf(p)>>
  <2>1. d.opens = 0
    BY <1>8, <1>9 DEF Sound, Assigned
  <2>2. /\ TheRestStays
        /\ files' = <<[stack |-> StackOf(n), opens |-> DirectiveOf[l.word].opens, at |-> p,
                       file |-> 1]>>
    BY <1>3, <1>4, <1>5, <1>12, AdvanceInBlock
  <2> QED
    BY <1>1, <1>7, <2>1, <2>2 DEF InsideOf
<1>13. ASSUME Advance(l, p), nodes' = t.nodes, devices' = devices
       PROVE  Standing(t)' /\ TheRestStays
  <2>1. TheRestStays /\ files' = <<InsideOf(p)>>
    BY <1>12, <1>13
  <2>2. t.at = p /\ t.devices = devices
    BY <1>2
  <2>3. Len(files') = 1 /\ files'[1] = InsideOf(p)
    BY <2>1
  <2>4. InBlock(files'[1], t.at)
    BY <2>2, <2>3 DEF InBlock
  <2> QED
    BY <1>3, <1>13, <2>1, <2>2, <2>3, <2>4 DEF Standing, InBlock, InsideOf, OpenedAt, Names
<1>14. t.nodes = [nodes EXCEPT ![p] = x]
  BY <1>2
<1>15. CASE d.form \in Assigned
  <2>1. Assign(l)
    BY <1>5, <1>7, <1>11, <1>15 DEF ReadLine, Refuse, Overrun, Extend, SetParameter, SetPrunePolicy,
       AddStore, AddDevice, AddHost, AddVolume, AddExclude, Include, Orders, Assigned
  <2>2. x = WithValue(nodes[p], l.word, Value(d.form, l.args))
    BY <1>2, <1>7, <1>15 DEF Sets, SetsValue, SetsPolicy, SetsList, SetsParameter, SetsExclude, Assigned
  <2>3. nodes' = [nodes EXCEPT ![p] = x] /\ devices' = devices /\ Advance(l, p)
    BY <1>6, <1>7, <2>1, <2>2 DEF Assign, SetValue, WithValue
  <2> QED
    BY <1>13, <1>14, <2>3
<1>16. CASE d.form = "policy"
  <2>1. SetPrunePolicy(l)
    BY <1>5, <1>7, <1>11, <1>16 DEF ReadLine, Refuse, Overrun, Assign, Extend, SetParameter,
       AddStore, AddDevice, AddHost, AddVolume, AddExclude, Include, Orders, Assigned
  <2>2. x = WithValue(nodes[p], l.word, l.args) /\ l.args \notin DOMAIN Reading["path"]
    BY <1>2, <1>7, <1>16 DEF Sets, SetsValue, SetsPolicy, SetsList, SetsParameter, SetsExclude, Assigned
  <2>3. nodes' = [nodes EXCEPT ![p] = x] /\ devices' = devices /\ Advance(l, p)
    BY <1>6, <2>1, <2>2 DEF SetPrunePolicy, SetValue, WithValue
  <2> QED
    BY <1>13, <1>14, <2>3
<1>17. CASE d.form = "appended"
  <2>1. Extend(l)
    BY <1>5, <1>7, <1>11, <1>17 DEF ReadLine, Refuse, Overrun, Assign, SetParameter, SetPrunePolicy,
       AddStore, AddDevice, AddHost, AddVolume, AddExclude, Include, Orders, Assigned
  <2>2. p = Root
    <3>1. n = 1
      BY <1>5, <1>7, <1>8, <1>17 DEF Sound
    <3> QED
      BY <1>1, <3>1 DEF Level
  <2>3. x = WithValue(nodes[p], l.word, IF l.args[1] = "+"
                                        THEN nodes[p].set[l.word] \o Tail(l.args) ELSE l.args)
    BY <1>2, <1>7, <1>17 DEF Sets, SetsValue, SetsPolicy, SetsList, SetsParameter, SetsExclude, Assigned
  <2>4. nodes' = [nodes EXCEPT ![p] = x] /\ devices' = devices /\ Advance(l, p)
    BY <1>6, <2>1, <2>2, <2>3 DEF Extend, SetValue, WithValue
  <2> QED
    BY <1>13, <1>14, <2>4
<1>18. CASE d.form = "parameter"
  <2>1. SetParameter(l)
    BY <1>5, <1>7, <1>11, <1>18 DEF ReadLine, Refuse, Overrun, Assign, Extend, SetPrunePolicy,
       AddStore, AddDevice, AddHost, AddVolume, AddExclude, Include, Orders, Assigned
  <2>2. x = IF l.word = "backup-parameter"
              THEN [nodes[p] EXCEPT !.backup = Changed(@, l.args)]
              ELSE [nodes[p] EXCEPT !.prune = Changed(@, l.args)]
    BY <1>2, <1>7, <1>18 DEF Sets, SetsValue, SetsPolicy, SetsList, SetsParameter, SetsExclude, Assigned
  <2>3. nodes' = [nodes EXCEPT ![p] = x] /\ devices' = devices /\ Advance(l, p)
    BY <1>6, <2>1, <2>2 DEF SetParameter
  <2> QED
    BY <1>13, <1>14, <2>3
<1>19. CASE d.form = "exclude"
  <2>1. AddExclude(l)
    BY <1>5, <1>7, <1>11, <1>19 DEF ReadLine, Refuse, Overrun, Assign, Extend, SetParameter, SetPrunePolicy,
       AddStore, AddDevice, AddHost, AddVolume, Include, Orders, Assigned
  <2>2. x = WithValue(nodes[p], l.word, Append(nodes[p].set[l.word], l.args[1]))
    BY <1>2, <1>7, <1>19 DEF Sets, SetsValue, SetsPolicy, SetsList, SetsParameter, SetsExclude, Assigned
  <2>3. nodes' = [nodes EXCEPT ![p] = x] /\ devices' = devices /\ Advance(l, p)
    BY <1>6, <2>1, <2>2 DEF AddExclude, SetValue, WithValue
  <2> QED
    BY <1>13, <1>14, <2>3
<1> QED
  BY <1>9, <1>15, <1>16, <1>17, <1>18, <1>19

(* A line that names a device, a host or a volume.                            *)
LEMMA DeviceRead ==
  ASSUME phase = "reread", NEW l, ReadLine(l), NEW s, Standing(s), NEW t,
         TakesDevice(s, l, t)
  PROVE  Standing(t)' /\ TheRestStays
<1>1. PICK f : f = files[1]
  OBVIOUS
<1>2. files = <<f>> /\ InBlock(f, Root) /\ Root \in Names \X Names /\ s.at = Root
  BY <1>1 DEF Standing, TakesDevice
<1>3. Level(Root) = 1
  BY DEF Level
<1>4. /\ l.indent = 4 * (1 - 1) /\ Known(l.word) /\ 1 \in DirectiveOf[l.word].levels
      /\ Checks(DirectiveOf[l.word], l) /\ ~ Overruns(DirectiveOf[l.word], l)
      /\ DirectiveOf[l.word].form = "device"
  BY <1>2, <1>3 DEF TakesDevice, Within
<1>5. LevelOf(l) = 1 /\ Here(l) = Root
  <2>1. LevelOf(l) = 1 /\ Here(l) = Outer(Root, 1)
    BY <1>2, <1>3, <1>4, LevelInBlock
  <2> QED
    BY <2>1, OuterIs
<1>6. Obeys(l)
  <2>1. Sensible(DirectiveOf[l.word], l)
    BY <1>4 DEF Sensible, Assigned
  <2> QED
    BY <1>4, <1>5, <2>1 DEF Obeys, Placed
<1>7. AddDevice(l)
  BY <1>4, <1>6 DEF ReadLine, Refuse, Overrun, Assign, Extend, SetParameter, SetPrunePolicy,
     AddStore, AddHost, AddVolume, AddExclude, Include, Orders, Assigned
<1>8. Advance(l, Root) /\ devices' = devices \cup {l.args[1]} /\ nodes' = nodes
  BY <1>5, <1>7 DEF AddDevice
<1>9. Sound(DirectiveOf[l.word])
  BY <1>4, FoundCorrect
<1>10. TheRestStays /\ files' = <<InsideOf(Root)>>
  <2>1. DirectiveOf[l.word].opens = 0
    BY <1>4, <1>9 DEF Sound
  <2>2. /\ TheRestStays
        /\ files' = <<[stack |-> StackOf(1), opens |-> DirectiveOf[l.word].opens, at |-> Root,
                       file |-> 1]>>
    BY <1>2, <1>3, <1>4, <1>8, AdvanceInBlock
  <2> QED
    BY <1>3, <2>1, <2>2 DEF InsideOf
<1>11. t = [nodes |-> nodes, devices |-> devices \cup {l.args[1]}, at |-> Root]
  BY <1>2 DEF TakesDevice, Standing
<1>12. Len(files') = 1 /\ files'[1] = InsideOf(Root) /\ InBlock(files'[1], t.at)
  BY <1>10, <1>11 DEF InBlock
<1> QED
  BY <1>2, <1>8, <1>10, <1>11, <1>12 DEF Standing, InBlock, InsideOf, OpenedAt, Names

LEMMA HostRead ==
  ASSUME phase = "reread", NEW l, ReadLine(l), NEW s, Standing(s), NEW t,
         TakesHost(s, l, t)
  PROVE  Standing(t)' /\ TheRestStays
<1>1. PICK p, f : p = s.at /\ f = files[1]
  OBVIOUS
<1>2. PICK h \in HostName :
        /\ l.indent = 0 /\ l.word = "host" /\ l.args = <<h>>
        /\ <<h, "">> \notin DOMAIN nodes
        /\ t = [nodes |-> With(nodes, <<h, "">>, HostNode(h, nodes[Root])),
                devices |-> devices, at |-> <<h, "">>]
  BY DEF TakesHost, Standing
<1>3. files = <<f>> /\ InBlock(f, p) /\ p \in Names \X Names
  BY <1>1 DEF Standing
<1>20. l.indent = 0 /\ l.word = "host"
  BY <1>2, Zenon
<1>21. Len(l.args) = 1 /\ l.args[1] = h
  <2>1. l.args = <<h>>
    BY <1>2, Zenon
  <2> QED
    BY <2>1
<1>22. PICK c : c = <<h, "">>
  OBVIOUS
<1>23. c \notin DOMAIN nodes /\ t.nodes = With(nodes, c, HostNode(h, nodes[Root]))
       /\ t.at = c /\ t.devices = devices
  BY <1>2, <1>22
<1>4. 1 <= Level(p) /\ l.indent = 4 * (1 - 1)
  BY <1>20 DEF Level
<1>5. LevelOf(l) = 1
  BY <1>3, <1>4, LevelInBlock
<1>6. PICK d : d = DirectiveOf[l.word]
  OBVIOUS
<1>7. Known(l.word)
  <2>1. [word |-> "host", form |-> "host", least |-> 1, most |-> 1, levels |-> {1}, opens |-> 2]
          \in AllDirectives
    BY DEF AllDirectives, HostDirectives
  <2> QED
    BY <1>20, <2>1 DEF Known, DirectiveOf
<1>8. d.form = "host" /\ d.levels = {1} /\ d.opens = 2 /\ d.least = 1 /\ d.most = 1
  <2>1. Sound(d) /\ Correct(d) /\ d.word = "host"
    BY <1>20, <1>6, <1>7, FoundCorrect
  <2> QED
    BY <2>1 DEF Sound, Correct, WellFormed
<1>9. Obeys(l)
  <2>1. Checks(d, l) /\ ~ Overruns(d, l)
    BY <1>8, <1>21 DEF Checks, Overruns
  <2>2. Sensible(d, l)
    BY <1>8, <1>21, <1>22, <1>23 DEF Sensible, Assigned
  <2> QED
    BY <1>5, <1>6, <1>7, <1>8, <2>1, <2>2 DEF Obeys, Placed
<1>10. AddHost(l)
  BY <1>6, <1>8, <1>9 DEF ReadLine, Refuse, Overrun, Assign, Extend, SetParameter, SetPrunePolicy,
     AddStore, AddDevice, AddVolume, AddExclude, Include, Orders, Assigned, Overruns
<1>12. nodes' = t.nodes /\ devices' = devices /\ Advance(l, c)
  BY <1>10, <1>21, <1>22, <1>23 DEF AddHost
<1>13. c # Root /\ ~ HasVolume(c) /\ c \in Names \X Names
  BY <1>22, ConfigAssumption DEF Root, HasVolume, Names
<1>14. TheRestStays /\ files' = <<OpenedAt(c)>>
  <2>1. Level(c) = 2
    BY <1>13 DEF Level
  <2>2. /\ TheRestStays
        /\ files' = <<[stack |-> StackOf(1), opens |-> DirectiveOf[l.word].opens, at |-> c,
                       file |-> 1]>>
    BY <1>3, <1>4, <1>12, AdvanceInBlock
  <2>3. Level(c) - 1 = 1
    BY <2>1
  <2> QED
    BY <1>6, <1>8, <2>1, <2>2, <2>3 DEF OpenedAt
<1>16. Len(files') = 1 /\ files'[1] = OpenedAt(c) /\ InBlock(files'[1], t.at)
  BY <1>13, <1>14, <1>23 DEF InBlock
<1> QED
  BY <1>12, <1>13, <1>14, <1>23, <1>16 DEF Standing, InBlock, InsideOf, OpenedAt, Names

LEMMA VolumeRead ==
  ASSUME phase = "reread", NEW l, ReadLine(l), NEW s, Standing(s), NEW t,
         TakesVolume(s, l, t)
  PROVE  Standing(t)' /\ TheRestStays
<1>1. PICK p, f : p = s.at /\ f = files[1]
  OBVIOUS
<1>2. PICK h \in HostName, v \in VolumeName :
        /\ l.indent = 4 /\ l.word = "volume" /\ l.args = <<v, "path">>
        /\ p[1] = h
        /\ <<h, v>> \notin DOMAIN nodes
        /\ t = [nodes |-> With(nodes, <<h, v>>, VolumeNode(nodes[<<h, "">>])),
                devices |-> devices, at |-> <<h, v>>]
  BY <1>1 DEF TakesVolume, Standing
<1>3. files = <<f>> /\ InBlock(f, p) /\ p \in Names \X Names
  BY <1>1 DEF Standing
<1>20. l.indent = 4 /\ l.word = "volume"
  BY <1>2, Zenon
<1>21. Len(l.args) = 2 /\ l.args[1] = v
  <2>1. l.args = <<v, "path">>
    BY <1>2, Zenon
  <2> QED
    BY <2>1
<1>22. PICK b, c : b = <<h, "">> /\ c = <<h, v>>
  OBVIOUS
<1>23. c \notin DOMAIN nodes /\ t.nodes = With(nodes, c, VolumeNode(nodes[b]))
       /\ t.at = c /\ t.devices = devices
  BY <1>2, <1>22
<1>24. HostOf(p) = b
  <2>1. p[1] = h
    BY <1>2, Zenon
  <2> QED
    BY <1>22, <2>1 DEF HostOf
<1>4. 2 <= Level(p) /\ l.indent = 4 * (2 - 1)
  <2>1. h # ""
    BY ConfigAssumption
  <2>2. b # Root
    BY <1>22, <2>1 DEF Root
  <2>3. p # Root
    BY <1>24, <2>2, GlobalIs
  <2> QED
    BY <1>20, <2>3 DEF Level
<1>5. LevelOf(l) = 2 /\ Here(l) = b
  <2>1. LevelOf(l) = 2 /\ Here(l) = Outer(p, 2)
    BY <1>3, <1>4, LevelInBlock
  <2> QED
    BY <1>24, <2>1, OuterIs
<1>6. PICK d : d = DirectiveOf[l.word]
  OBVIOUS
<1>7. Known(l.word)
  <2>1. [word |-> "volume", form |-> "volume", least |-> 2, most |-> 2, levels |-> {2}, opens |-> 3]
          \in AllDirectives
    BY DEF AllDirectives, VolumeDirectives
  <2> QED
    BY <1>20, <2>1 DEF Known, DirectiveOf
<1>8. d.form = "volume" /\ d.levels = {2} /\ d.opens = 3 /\ d.least = 2 /\ d.most = 2
  <2>1. Sound(d) /\ Correct(d) /\ d.word = "volume"
    BY <1>20, <1>6, <1>7, FoundCorrect
  <2> QED
    BY <2>1 DEF Sound, Correct, WellFormed
<1>9. Obeys(l)
  <2>1. Checks(d, l) /\ ~ Overruns(d, l)
    BY <1>8, <1>21 DEF Checks, Overruns
  <2>2. Sensible(d, l)
    <3>1. Here(l)[1] = h
      <4>1. b[1] = h
        BY <1>22
      <4> QED
        BY <1>5, <4>1, Zenon
    <3> QED
      <4>1. <<Here(l)[1], l.args[1]>> = c
        BY <1>21, <1>22, <3>1
      <4> QED
        BY <1>8, <1>21, <1>23, <4>1 DEF Sensible, Assigned
  <2> QED
    BY <1>5, <1>6, <1>7, <1>8, <2>1, <2>2 DEF Obeys, Placed
<1>10. AddVolume(l)
  BY <1>6, <1>8, <1>9 DEF ReadLine, Refuse, Overrun, Assign, Extend, SetParameter, SetPrunePolicy,
     AddStore, AddDevice, AddHost, AddExclude, Include, Orders, Assigned, Overruns
<1>12. nodes' = t.nodes /\ devices' = devices /\ Advance(l, c)
  <2>1. b[1] = h
    BY <1>22
  <2>2. nodes' = With(nodes, c, VolumeNode(nodes[b])) /\ Advance(l, c) /\ devices' = devices
    BY <1>5, <1>10, <1>21, <1>22, <2>1 DEF AddVolume
  <2> QED
    BY <1>23, <2>2
<1>13. c # Root /\ HasVolume(c) /\ c \in Names \X Names
  BY <1>22, ConfigAssumption DEF Root, HasVolume, Names
<1>14. TheRestStays /\ files' = <<OpenedAt(c)>>
  <2>1. Level(c) = 3
    BY <1>13 DEF Level
  <2>2. /\ TheRestStays
        /\ files' = <<[stack |-> StackOf(2), opens |-> DirectiveOf[l.word].opens, at |-> c,
                       file |-> 1]>>
    BY <1>3, <1>4, <1>12, AdvanceInBlock
  <2>3. Level(c) - 1 = 2
    BY <2>1
  <2> QED
    BY <1>6, <1>8, <2>1, <2>2, <2>3 DEF OpenedAt
<1>16. Len(files') = 1 /\ files'[1] = OpenedAt(c) /\ InBlock(files'[1], t.at)
  BY <1>13, <1>14, <1>23 DEF InBlock
<1> QED
  BY <1>12, <1>13, <1>14, <1>23, <1>16 DEF Standing, InBlock, InsideOf, OpenedAt, Names

(* What the dump leads to is what reading it does.                               *)
LEMMA LineReadBack ==
  ASSUME phase = "reread", NEW l, ReadLine(l), NEW s, Standing(s), NEW t, Takes(s, l, t)
  PROVE  Standing(t)' /\ TheRestStays
BY SettingRead, DeviceRead, HostRead, VolumeRead DEF Takes

-----------------------------------------------------------------------------
(* Lines about one node.                                                      *)
(* The lines of one node.                                                      *)
IsNode(e) == e = [set |-> [w \in Word |-> e.set[w]], backup |-> e.backup, prune |-> e.prune]

IsState(s) ==
  /\ s = [nodes |-> s.nodes, devices |-> s.devices, at |-> s.at]
  /\ s.nodes = [q \in DOMAIN s.nodes |-> s.nodes[q]]

WithNode(s, p, x) ==
  [nodes |-> [s.nodes EXCEPT ![p] = x], devices |-> s.devices, at |-> p]

NodePath(D, p, r) ==
  \A i \in 1 .. Len(D) : Within(p, D[i]) /\ Sets(r[i - 1], D[i], r[i])

LeadsNode(D, p, e, x) ==
  \E r : r[0] = e /\ r[Len(D)] = x /\ NodePath(D, p, r)

(* What lines make of a node, the reader makes of it.                         *)
LEMMA NodeLeads ==
  ASSUME NEW D, Len(D) \in Nat, NEW s, IsState(s), NEW p, s.at = p, p \in DOMAIN s.nodes,
         NEW x, LeadsNode(D, p, s.nodes[p], x)
  PROVE  Leads(D, s, WithNode(s, p, x)) /\ IsState(WithNode(s, p, x))
<1>1. PICK r : r[0] = s.nodes[p] /\ r[Len(D)] = x /\ NodePath(D, p, r)
  BY DEF LeadsNode
<1>2. PICK q : q = [i \in 0 .. Len(D) |-> WithNode(s, p, r[i])]
  OBVIOUS
<1>3. q[0] = s
  <2>1. [s.nodes EXCEPT ![p] = s.nodes[p]] = s.nodes
    BY DEF IsState
  <2>2. WithNode(s, p, s.nodes[p]) = s
    BY <2>1 DEF WithNode, IsState
  <2> QED
    BY <1>1, <1>2, <2>2
<1>4. q[Len(D)] = WithNode(s, p, x)
  BY <1>1, <1>2
<1>5. ASSUME NEW i \in 1 .. Len(D)
      PROVE  Takes(q[i - 1], D[i], q[i])
  <2>1. Within(p, D[i]) /\ Sets(r[i - 1], D[i], r[i])
    BY <1>1 DEF NodePath
  <2>2. PICK a, b : a = q[i - 1] /\ b = q[i]
    OBVIOUS
  <2>3. a = WithNode(s, p, r[i - 1]) /\ b = WithNode(s, p, r[i])
    BY <1>2, <2>2
  <2>4. a.at = p /\ a.devices = s.devices /\ a.nodes[p] = r[i - 1]
    BY <2>3 DEF WithNode
  <2>5. [a.nodes EXCEPT ![p] = r[i]] = [s.nodes EXCEPT ![p] = r[i]]
    <3>1. a.nodes = [s.nodes EXCEPT ![p] = r[i - 1]]
      BY <2>3 DEF WithNode
    <3> QED
      BY <3>1
  <2>6. b = [nodes |-> [a.nodes EXCEPT ![p] = r[i]], devices |-> a.devices, at |-> p]
    BY <2>3, <2>4, <2>5 DEF WithNode
  <2>7. TakesSetting(a, D[i], b)
    BY <2>1, <2>4, <2>6 DEF TakesSetting
  <2> QED
    BY <2>2, <2>7 DEF Takes
<1>6. Leads(D, s, WithNode(s, p, x))
  BY <1>3, <1>4, <1>5 DEF Leads, Passage
<1>7. IsState(WithNode(s, p, x))
  BY DEF IsState, WithNode
<1> QED
  BY <1>6, <1>7

(* Lines about one node may be put together.                                  *)
LEMMA NodePathOn ==
  ASSUME NEW S, NEW D \in Seq(S), NEW E \in Seq(S), NEW p, NEW e, NEW x, NEW y,
         LeadsNode(D, p, e, x), LeadsNode(E, p, x, y)
  PROVE  LeadsNode(D \o E, p, e, y)
<1>1. PICK r : r[0] = e /\ r[Len(D)] = x /\ NodePath(D, p, r)
  BY DEF LeadsNode
<1>2. PICK q : q[0] = x /\ q[Len(E)] = y /\ NodePath(E, p, q)
  BY DEF LeadsNode
<1>3. Len(D) \in Nat /\ Len(E) \in Nat /\ Len(D \o E) = Len(D) + Len(E)
  OBVIOUS
<1> DEFINE n == Len(D)
           m == Len(E)
<1>4. PICK f : f = [i \in 0 .. n + m |-> IF i <= n THEN r[i] ELSE q[i - n]]
  OBVIOUS
<1>5. f[0] = e
  BY <1>1, <1>3, <1>4
<1>6. f[n + m] = y
  <2>1. CASE m = 0
    BY <1>1, <1>2, <1>3, <1>4, <2>1
  <2>2. CASE m > 0
    BY <1>2, <1>3, <1>4, <2>2
  <2> QED
    BY <1>3, <2>1, <2>2
<1>7. ASSUME NEW i \in 1 .. n + m
      PROVE  Within(p, (D \o E)[i]) /\ Sets(f[i - 1], (D \o E)[i], f[i])
  <2>1. CASE i <= n
    <3>1. f[i - 1] = r[i - 1] /\ f[i] = r[i] /\ (D \o E)[i] = D[i] /\ i \in 1 .. n
      BY <1>3, <1>4, <2>1
    <3> QED
      BY <1>1, <3>1 DEF NodePath
  <2>2. CASE i > n
    <3>1. i - n \in 1 .. m /\ (D \o E)[i] = E[i - n] /\ f[i] = q[i - n]
      BY <1>3, <1>4, <2>2
    <3>2. f[i - 1] = q[(i - n) - 1]
      <4>1. CASE i = n + 1
        <5>1. i - 1 = n /\ (i - n) - 1 = 0 /\ n \in 0 .. n + m /\ n <= n
          BY <1>3, <4>1
        <5>2. f[n] = r[n]
          BY <1>4, <5>1
        <5> QED
          BY <1>1, <1>2, <5>1, <5>2
      <4>2. CASE i > n + 1
        <5>1. i - 1 \in 0 .. n + m /\ ~ (i - 1 <= n) /\ (i - 1) - n = (i - n) - 1
          BY <1>3, <4>2
        <5> QED
          BY <1>4, <5>1
      <4> QED
        BY <1>3, <2>2, <4>1, <4>2
    <3> QED
      BY <1>2, <3>1, <3>2 DEF NodePath
  <2> QED
    BY <1>3, <2>1, <2>2
<1> QED
  BY <1>3, <1>5, <1>6, <1>7 DEF LeadsNode, NodePath

(* The depth of a row is that of its node.                                    *)
LEMMA RowIs ==
  ASSUME NEW p, NEW w, NEW a
  PROVE  Row(p, w, a) = [indent |-> 4 * (Level(p) - 1), word |-> w, args |-> a]
<1>1. PICK m : m = (IF p = Root THEN 0 ELSE IF p[2] = "" THEN 4 ELSE 8)
  OBVIOUS
<1>2. Row(p, w, a) = [indent |-> m, word |-> w, args |-> a]
  BY <1>1, Zenon DEF Row
<1>3. m = 4 * (Level(p) - 1)
  <2>1. CASE p = Root
    BY <1>1, <2>1 DEF Level
  <2>2. CASE p # Root /\ HasVolume(p)
    <3>1. m = 8
      BY <1>1, <2>2, Zenon DEF HasVolume
    <3> QED
      BY <2>2, <3>1 DEF Level
  <2>3. CASE p # Root /\ ~ HasVolume(p)
    <3>1. m = 4
      BY <1>1, <2>3, Zenon DEF HasVolume
    <3> QED
      BY <2>3, <3>1 DEF Level
  <2> QED
    BY <2>1, <2>2, <2>3
<1> QED
  BY <1>2, <1>3

(* Lines that each set a value, in any order.                                   *)
ValueLine(p, D, i, w, v) ==
  /\ D[i] = [indent |-> 4 * (Level(p) - 1), word |-> w, args |-> v]
  /\ Within(p, D[i])
  /\ \/ /\ DirectiveOf[w].form \in Assigned /\ Reads(DirectiveOf[w].form, v)
        /\ Value(DirectiveOf[w].form, v) = v
     \/ DirectiveOf[w].form = "policy" /\ v \notin DOMAIN Reading["path"]

SetTo(e, W, v) ==
  [set |-> [w \in Word |-> IF w \in W THEN v[w] ELSE e.set[w]], backup |-> e.backup,
   prune |-> e.prune]

(* Lines that set some words, in any order and each as often as they like to the same
   value, set just those.                                                     *)
LEMMA ValuesLead ==
  ASSUME NEW D, Len(D) \in Nat, NEW p, NEW e, IsNode(e), NEW W \in SUBSET Word, NEW v,
         \A i \in 1 .. Len(D) : \E w \in W : ValueLine(p, D, i, w, v[w]),
         \A w \in W : \E i \in 1 .. Len(D) : D[i].word = w
  PROVE  LeadsNode(D, p, e, SetTo(e, W, v))
<1> DEFINE Done(k) == {D[i].word : i \in 1 .. k}
<1>1. PICK r : r = [k \in 0 .. Len(D) |-> SetTo(e, Done(k), v)]
  OBVIOUS
<1>2. r[0] = e
  <2>1. Done(0) = {}
    OBVIOUS
  <2> HIDE DEF Done
  <2>2. SetTo(e, {}, v) = e
    BY DEF SetTo, IsNode
  <2> QED
    BY <1>1, <2>1, <2>2
<1>3. r[Len(D)] = SetTo(e, W, v)
  <2>1. ASSUME NEW i \in 1 .. Len(D)
        PROVE  D[i].word \in W
    <3>1. PICK w \in W : ValueLine(p, D, i, w, v[w])
      OBVIOUS
    <3> HIDE DEF Done
    <3>2. D[i].word = w
      BY <3>1 DEF ValueLine
    <3> QED
      BY <3>2
  <2>2. Done(Len(D)) = W
    <3>1. Done(Len(D)) \subseteq W
      BY <2>1
    <3>2. ASSUME NEW w \in W PROVE w \in Done(Len(D))
      <4>1. \E i \in 1 .. Len(D) : D[i].word = w
        BY <3>2
      <4>2. PICK i \in 1 .. Len(D) : D[i].word = w
        BY <4>1
      <4> QED
        BY <4>2
    <3> HIDE DEF Done
    <3> QED
      BY <3>1, <3>2
  <2> HIDE DEF Done
  <2> QED
    BY <1>1, <2>2
<1>4. ASSUME NEW k \in 1 .. Len(D)
      PROVE  Within(p, D[k]) /\ Sets(r[k - 1], D[k], r[k])
  <2>1. PICK w \in W : ValueLine(p, D, k, w, v[w])
    OBVIOUS
  <2>2. D[k].word = w /\ D[k].args = v[w] /\ Within(p, D[k])
    BY <2>1 DEF ValueLine
  <2>3. Done(k) = Done(k - 1) \cup {w}
    <3>1. 1 .. k = (1 .. k - 1) \cup {k}
      OBVIOUS
    <3> QED
      BY <2>2, <3>1
  <2> HIDE DEF Done
  <2>4. PICK a, b : a = r[k - 1] /\ b = r[k]
    OBVIOUS
  <2>5. a = SetTo(e, Done(k - 1), v) /\ b = SetTo(e, Done(k), v)
    BY <1>1, <2>4
  <2>6. b = WithValue(a, w, v[w])
    <3>1. PICK F, G : F = a.set /\ G = b.set
      OBVIOUS
    <3>2. /\ F = [u \in Word |-> IF u \in Done(k - 1) THEN v[u] ELSE e.set[u]]
          /\ G = [u \in Word |-> IF u \in Done(k) THEN v[u] ELSE e.set[u]]
      BY <2>5, <3>1 DEF SetTo
    <3>3. G = [F EXCEPT ![w] = v[w]]
      BY <2>3, <3>2
    <3>4. a = [set |-> F, backup |-> e.backup, prune |-> e.prune]
      BY <2>5, <3>1 DEF SetTo
    <3>5. b = [set |-> G, backup |-> e.backup, prune |-> e.prune]
      BY <2>5, <3>1 DEF SetTo
    <3> QED
      BY <3>3, <3>4, <3>5 DEF WithValue
  <2>7. SetsValue(a, D[k], b) \/ SetsPolicy(a, D[k], b)
    BY <2>1, <2>2, <2>6 DEF ValueLine, SetsValue, SetsPolicy
  <2> QED
    BY <2>2, <2>4, <2>7 DEF Sets
<1> QED
  BY <1>2, <1>3, <1>4 DEF LeadsNode, NodePath

(* Sequences that are put together.                                            *)
LEMMA AsSequence ==
  ASSUME NEW D, Listed(D)
  PROVE  D \in Seq({D[i] : i \in 1 .. Len(D)})
<1>1. PICK S : S = {D[i] : i \in 1 .. Len(D)}
  OBVIOUS
<1>2. PICK n \in Nat : n = Len(D)
  BY DEF Listed
<1>3. D = [i \in 1 .. n |-> D[i]] /\ \A i \in 1 .. n : D[i] \in S
  BY <1>1, <1>2 DEF Listed
<1>4. D \in [1 .. n -> S]
  BY <1>3
<1> QED
  BY <1>1, <1>2, <1>4

(* A sequence is listed, and so are two together.                             *)
LEMMA SequenceListed ==
  ASSUME NEW S, NEW D \in Seq(S)
  PROVE  Listed(D)
BY DEF Listed

LEMMA JoinListed ==
  ASSUME NEW D, Listed(D), NEW E, Listed(E)
  PROVE  /\ Listed(D \o E)
         /\ \E S : D \in Seq(S) /\ E \in Seq(S)
<1>1. PICK S, T : D \in Seq(S) /\ E \in Seq(T)
  BY AsSequence
<1>2. PICK U : U = S \cup T
  OBVIOUS
<1>3. D \in Seq(U) /\ E \in Seq(U)
  BY <1>1, <1>2
<1>4. D \o E \in Seq(U)
  BY <1>3
<1> QED
  BY <1>3, <1>4, SequenceListed

(* Listed lines may be put together.                                          *)
LEMMA NodeJoin ==
  ASSUME NEW D, Listed(D), NEW E, Listed(E), NEW p, NEW e, NEW x, NEW y,
         LeadsNode(D, p, e, x), LeadsNode(E, p, x, y)
  PROVE  LeadsNode(D \o E, p, e, y) /\ Listed(D \o E)
BY JoinListed, NodePathOn

LEMMA Join ==
  ASSUME NEW D, Listed(D), NEW E, Listed(E), NEW s, NEW t, NEW u,
         Leads(D, s, t), Leads(E, t, u)
  PROVE  Leads(D \o E, s, u) /\ Listed(D \o E)
BY JoinListed, LeadsOn

(* So may any number of them, one stretch after another.                      *)
LEMMA Through ==
  ASSUME NEW ss, Listed(ss), NEW b,
         \A k \in 1 .. Len(ss) : Listed(ss[k]) /\ Leads(ss[k], b[k - 1], b[k])
  PROVE  Listed(FlattenSeq(ss)) /\ Leads(FlattenSeq(ss), b[0], b[Len(ss)])
<1>1. PICK X : X = UNION {{ss[k][i] : i \in 1 .. Len(ss[k])} : k \in 1 .. Len(ss)}
  OBVIOUS
<1>2. ASSUME NEW k \in 1 .. Len(ss)
      PROVE  ss[k] \in Seq(X)
  <2>1. PICK D, S : D = ss[k] /\ S = {D[i] : i \in 1 .. Len(D)}
    OBVIOUS
  <2>2. D \in Seq(S)
    BY <2>1, AsSequence
  <2>3. S \subseteq X
    BY <1>1, <2>1
  <2> QED
    BY <2>1, <2>2, <2>3
<1>3. ss \in Seq(Seq(X))
  <2>1. ss \in Seq({ss[i] : i \in 1 .. Len(ss)})
    BY AsSequence
  <2>2. {ss[i] : i \in 1 .. Len(ss)} \subseteq Seq(X)
    BY <1>2
  <2> QED
    BY <2>1, <2>2
<1> QED
  BY <1>3, LeadsThrough, SequenceListed

(* Parameters: what is written of those of a node, its parent's being those that        *)
(* it begins with.                                                             *)
IsParameters(f) ==
  /\ f = [n \in DOMAIN f |-> f[n]]
  /\ IsFiniteSet(DOMAIN f)
  /\ \A n \in DOMAIN f : n # "--remove" /\ <<n>> \in DOMAIN Reading["parameter"]

Mixed(mine, its, N) ==
  [n \in (DOMAIN its \ N) \cup (DOMAIN mine \cap N) |->
     IF n \in N THEN mine[n] ELSE its[n]]

(* Parameters of which some are those of the node and the others still those around it. *)
LEMMA MixedIs ==
  ASSUME NEW mine, IsParameters(mine), NEW its, IsParameters(its)
  PROVE  /\ Mixed(mine, its, {}) = its
         /\ Mixed(mine, its, DOMAIN mine \cup DOMAIN its) = mine
<1>1. mine = [n \in DOMAIN mine |-> mine[n]] /\ its = [n \in DOMAIN its |-> its[n]]
  BY DEF IsParameters
<1> QED
  BY <1>1 DEF Mixed

LEMMA MixedOn ==
  ASSUME NEW mine, NEW its, NEW N, NEW n
  PROVE  Mixed(mine, its, N \cup {n})
           = IF n \in DOMAIN mine THEN With(Mixed(mine, its, N), n, mine[n])
             ELSE Without(Mixed(mine, its, N), n)
BY DEF Mixed, With, Without

IsParameterWord(w) == w \in {"backup-parameter", "prune-parameter"}

(* Both kinds of parameters may be set everywhere.                            *)
LEMMA ParameterWords ==
  ASSUME NEW w, IsParameterWord(w)
  PROVE  /\ Known(w) /\ DirectiveOf[w].form = "parameter" /\ DirectiveOf[w].levels = 1 .. 3
         /\ DirectiveOf[w].least = 2 /\ DirectiveOf[w].most = 2
<1>1. [word |-> w, form |-> "parameter", least |-> 2, most |-> 2, levels |-> 1 .. 3, opens |-> 0]
        \in Directives({"backup-parameter", "prune-parameter"}, "parameter", 2, 2, 1 .. 3)
  BY DEF Directives, IsParameterWord
<1>2. Known(w)
  BY <1>1 DEF Known, DirectiveOf, AllDirectives, Inheritable, PolicyDirectives
<1> QED
  BY <1>2, FoundCorrect DEF Correct, WellPlaced, WellFormed, IsParameterWord

WithParameters(e, w, f) ==
  [set |-> e.set, backup |-> IF w = "backup-parameter" THEN f ELSE e.backup,
   prune |-> IF w = "backup-parameter" THEN e.prune ELSE f]

Parameters(e, w) == IF w = "backup-parameter" THEN e.backup ELSE e.prune

ParameterLine(p, w, mine, its, l, n) ==
  /\ Within(p, l) /\ l.word = w
  /\ ParameterName(l.args) = n /\ <<n>> \in DOMAIN Reading["parameter"]
  /\ n \in DOMAIN mine \cup DOMAIN its
  /\ \A f : Changed(f, l.args) = IF n \in DOMAIN mine THEN With(f, n, mine[n])
                                 ELSE Without(f, n)

(* Each row of parameters sets or removes one.                                *)
LEMMA ParameterRowIs ==
  ASSUME NEW p, NEW w, IsParameterWord(w), NEW mine, IsParameters(mine),
         NEW its, IsParameters(its), NEW l \in ParameterRows(p, w, mine, its)
  PROVE  \E n : ParameterLine(p, w, mine, its, l, n)
<1>1. PICK n, a : /\ l = Row(p, w, a)
                  /\ \/ n \in DOMAIN mine /\ a = <<n, mine[n]>>
                     \/ n \in DOMAIN its \ DOMAIN mine /\ a = <<"--remove", n>>
  BY DEF ParameterRows
<1>2. l = [indent |-> 4 * (Level(p) - 1), word |-> w, args |-> a]
  BY <1>1, RowIs
<1>3. l.indent = 4 * (Level(p) - 1) /\ l.word = w /\ l.args = a
  BY <1>2
<1>4. Len(a) = 2
  BY <1>1
<1>5. Within(p, l)
  <2>1. Level(p) \in 1 .. 3
    BY DEF Level
  <2> QED
    BY <1>3, <1>4, <2>1, ParameterWords DEF Within, Checks, Overruns
<1>6. n # "--remove" /\ <<n>> \in DOMAIN Reading["parameter"] /\ n \in DOMAIN mine \cup DOMAIN its
  BY <1>1 DEF IsParameters
<1>7. ParameterName(a) = n
  BY <1>1, <1>6 DEF ParameterName
<1>8. ASSUME NEW f
      PROVE  Changed(f, a) = IF n \in DOMAIN mine THEN With(f, n, mine[n]) ELSE Without(f, n)
  BY <1>1, <1>6 DEF Changed
<1> QED
  BY <1>3, <1>5, <1>6, <1>7, <1>8 DEF ParameterLine

(* All of them, in any order, turn what is around into what the node has.     *)
LEMMA ParametersLead ==
  ASSUME NEW p, NEW w, IsParameterWord(w), NEW mine, IsParameters(mine),
         NEW its, IsParameters(its), NEW e, IsNode(e), Parameters(e, w) = its,
         NEW D, Len(D) \in Nat,
         \A i \in 1 .. Len(D) : D[i] \in ParameterRows(p, w, mine, its),
         \A l \in ParameterRows(p, w, mine, its) : \E i \in 1 .. Len(D) : D[i] = l
  PROVE  LeadsNode(D, p, e, WithParameters(e, w, mine))
<1> DEFINE Done(k) == {ParameterName(D[i].args) : i \in 1 .. k}
<1>1. PICK r : r = [k \in 0 .. Len(D) |-> WithParameters(e, w, Mixed(mine, its, Done(k)))]
  OBVIOUS
<1>2. r[0] = e
  <2>1. Done(0) = {}
    OBVIOUS
  <2> HIDE DEF Done
  <2>2. r[0] = WithParameters(e, w, its)
    BY <1>1, <2>1, MixedIs
  <2> QED
    BY <2>2 DEF WithParameters, Parameters, IsNode
<1>3. r[Len(D)] = WithParameters(e, w, mine)
  <2>1. Done(Len(D)) = DOMAIN mine \cup DOMAIN its
    <3>1. ASSUME NEW i \in 1 .. Len(D)
          PROVE  ParameterName(D[i].args) \in DOMAIN mine \cup DOMAIN its
      <4>1. D[i] \in ParameterRows(p, w, mine, its)
        OBVIOUS
      <4> HIDE DEF Done
      <4> QED
        <5>1. PICK n : ParameterLine(p, w, mine, its, D[i], n)
          BY <4>1, ParameterRowIs
        <5> QED
          BY <5>1 DEF ParameterLine
    <3>2. ASSUME NEW n \in DOMAIN mine \cup DOMAIN its
          PROVE  \E i \in 1 .. Len(D) : ParameterName(D[i].args) = n
      <4> HIDE DEF Done
      <4>1. PICK l \in ParameterRows(p, w, mine, its) : ParameterName(l.args) = n
        <5>1. n # "--remove"
          BY DEF IsParameters
        <5>2. CASE n \in DOMAIN mine
          <6>1. PICK a : a = <<n, mine[n]>>
            OBVIOUS
          <6>2. Row(p, w, a) \in ParameterRows(p, w, mine, its)
            BY <5>2, <6>1 DEF ParameterRows
          <6>3. Row(p, w, a).args = a
            BY RowIs
          <6>4. ParameterName(a) = n
            BY <5>1, <6>1 DEF ParameterName
          <6> QED
            BY <6>2, <6>3, <6>4
        <5>3. CASE n \notin DOMAIN mine
          <6>1. PICK a : a = <<"--remove", n>>
            OBVIOUS
          <6>2. Row(p, w, a) \in ParameterRows(p, w, mine, its)
            BY <5>3, <6>1 DEF ParameterRows
          <6>3. Row(p, w, a).args = a
            BY RowIs
          <6>4. ParameterName(a) = n
            BY <6>1 DEF ParameterName
          <6> QED
            BY <6>2, <6>3, <6>4
        <5> QED
          BY <5>2, <5>3
      <4> QED
        BY <4>1
    <3>3. Done(Len(D)) \subseteq DOMAIN mine \cup DOMAIN its
      BY <3>1
    <3>4. \A n \in DOMAIN mine \cup DOMAIN its : n \in Done(Len(D))
      BY <3>2
    <3> HIDE DEF Done
    <3> QED
      BY <3>3, <3>4
  <2> HIDE DEF Done
  <2> QED
    <3>1. r[Len(D)] = WithParameters(e, w, Mixed(mine, its, DOMAIN mine \cup DOMAIN its))
      BY <1>1, <2>1
    <3>2. Mixed(mine, its, DOMAIN mine \cup DOMAIN its) = mine
      BY MixedIs
    <3> QED
      BY <3>1, <3>2
<1>4. ASSUME NEW k \in 1 .. Len(D)
      PROVE  Within(p, D[k]) /\ Sets(r[k - 1], D[k], r[k])
  <2>1. PICK l : l = D[k] /\ l \in ParameterRows(p, w, mine, its)
    OBVIOUS
  <2>8. PICK n : ParameterLine(p, w, mine, its, l, n)
    BY <2>1, ParameterRowIs
  <2>2. /\ Within(p, l) /\ l.word = w
        /\ ParameterName(l.args) = n /\ <<n>> \in DOMAIN Reading["parameter"]
        /\ \A f : Changed(f, l.args) = IF n \in DOMAIN mine THEN With(f, n, mine[n])
                                       ELSE Without(f, n)
    BY <2>8 DEF ParameterLine
  <2>3. Done(k) = Done(k - 1) \cup {n}
    <3>1. 1 .. k = (1 .. k - 1) \cup {k}
      OBVIOUS
    <3> QED
      BY <2>1, <2>2, <3>1
  <2> HIDE DEF Done
  <2>4. PICK a, b, f, g : /\ a = r[k - 1] /\ b = r[k] /\ f = Mixed(mine, its, Done(k - 1))
                          /\ g = Mixed(mine, its, Done(k))
    OBVIOUS
  <2>5. a = WithParameters(e, w, f) /\ b = WithParameters(e, w, g)
    BY <1>1, <2>4
  <2>6. g = Changed(f, l.args)
    <3>1. PICK N : N = Done(k - 1) /\ f = Mixed(mine, its, N) /\ g = Mixed(mine, its, N \cup {n})
      BY <2>3, <2>4
    <3>2. g = IF n \in DOMAIN mine THEN With(f, n, mine[n]) ELSE Without(f, n)
      <4>1. Mixed(mine, its, N \cup {n}) = IF n \in DOMAIN mine THEN With(Mixed(mine, its, N), n, mine[n])
                                          ELSE Without(Mixed(mine, its, N), n)
        BY MixedOn
      <4> QED
        BY <3>1, <4>1, Zenon
    <3> QED
      BY <2>2, <3>2
  <2>7. SetsParameter(a, l, b)
    <3>1. DirectiveOf[l.word].form = "parameter"
      BY <2>2, ParameterWords
    <3>2. b = IF w = "backup-parameter" THEN [a EXCEPT !.backup = Changed(@, l.args)]
              ELSE [a EXCEPT !.prune = Changed(@, l.args)]
      BY <2>5, <2>6 DEF WithParameters
    <3> QED
      BY <2>2, <3>1, <3>2 DEF SetsParameter
  <2> QED
    BY <2>1, <2>2, <2>4, <2>7 DEF Sets
<1> QED
  BY <1>2, <1>3, <1>4 DEF LeadsNode, NodePath

-----------------------------------------------------------------------------
(* What may be written of a node, and what the rows of a node give back.      *)
(* What is excluded, a line for each.                                          *)
LEMMA ExcludesLead ==
  ASSUME NEW p, Level(p) = 3, "exclude" \in Word, NEW e, IsNode(e), e.set["exclude"] = <<>>,
         NEW v, Listed(v), NEW D, D = [i \in DOMAIN v |-> Row(p, "exclude", <<v[i]>>)]
  PROVE  Listed(D) /\ LeadsNode(D, p, e, WithValue(e, "exclude", v))
<1>1. PICK S : v \in Seq(S)
  BY AsSequence
<1>2. PICK n \in Nat : n = Len(v) /\ DOMAIN v = 1 .. n /\ n \in 0 .. n
  BY <1>1
<1>3. Len(D) = n /\ Listed(D)
  BY <1>2 DEF Listed
<1>4. /\ Known("exclude") /\ DirectiveOf["exclude"].form = "exclude"
      /\ DirectiveOf["exclude"].levels = {3}
      /\ DirectiveOf["exclude"].least = 1 /\ DirectiveOf["exclude"].most = 1
  <2>1. Known("exclude")
    BY ConfigAssumption
  <2> QED
    BY <2>1, FoundCorrect DEF Correct, WellPlaced, WellFormed
<1>5. PICK r : r = [k \in 0 .. n |-> WithValue(e, "exclude", SubSeq(v, 1, k))]
  OBVIOUS
<1>6. r[0] = e
  <2>1. SubSeq(v, 1, 0) = <<>>
    BY <1>1
  <2>2. [e.set EXCEPT !["exclude"] = <<>>] = e.set
    <3>1. PICK s : s = e.set
      OBVIOUS
    <3>2. s = [w \in Word |-> s[w]]
      BY <3>1 DEF IsNode
    <3> QED
      BY <3>1, <3>2
  <2>3. WithValue(e, "exclude", <<>>) = e
    <3>1. WithValue(e, "exclude", <<>>) = [set |-> [e.set EXCEPT !["exclude"] = <<>>],
                                           backup |-> e.backup, prune |-> e.prune]
      BY DEF WithValue, IsNode
    <3>2. e = [set |-> e.set, backup |-> e.backup, prune |-> e.prune]
      BY DEF IsNode
    <3> QED
      BY <2>2, <3>1, <3>2
  <2>4. r[0] = WithValue(e, "exclude", SubSeq(v, 1, 0))
    BY <1>2, <1>5
  <2> QED
    BY <2>1, <2>3, <2>4, Zenon
<1>7. r[n] = WithValue(e, "exclude", v)
  <2>1. SubSeq(v, 1, n) = v
    BY <1>1, <1>2
  <2> QED
    BY <1>2, <1>5, <2>1
<1>8. ASSUME NEW k \in 1 .. n
      PROVE  Within(p, D[k]) /\ Sets(r[k - 1], D[k], r[k])
  <2>1. PICK l, c : l = D[k] /\ c = <<v[k]>>
    OBVIOUS
  <2>2. l = [indent |-> 4 * (Level(p) - 1), word |-> "exclude", args |-> c]
    <3>1. l = Row(p, "exclude", c)
      BY <1>2, <2>1
    <3> QED
      BY <3>1, RowIs
  <2>3. l.indent = 4 * (Level(p) - 1) /\ l.word = "exclude" /\ l.args = c
    BY <2>2
  <2>4. Len(c) = 1 /\ c[1] = v[k]
    BY <2>1
  <2>5. Within(p, l)
    BY <1>4, <2>3, <2>4 DEF Within, Checks, Overruns
  <2>6. PICK a, b : a = r[k - 1] /\ b = r[k]
    OBVIOUS
  <2>7. a = WithValue(e, "exclude", SubSeq(v, 1, k - 1)) /\ b = WithValue(e, "exclude", SubSeq(v, 1, k))
    BY <1>5, <2>6
  <2>8. Append(SubSeq(v, 1, k - 1), v[k]) = SubSeq(v, 1, k)
    BY <1>1, <1>2
  <2>9. a.set["exclude"] = SubSeq(v, 1, k - 1)
    <3>1. DOMAIN e.set = Word
      BY DEF IsNode
    <3>2. a.set = [e.set EXCEPT !["exclude"] = SubSeq(v, 1, k - 1)]
      BY <2>7 DEF WithValue, IsNode
    <3> QED
      BY <3>1, <3>2
  <2>10. b = WithValue(a, "exclude", SubSeq(v, 1, k))
    BY <2>7 DEF WithValue, IsNode
  <2>11. SetsExclude(a, l, b)
    BY <1>4, <2>3, <2>4, <2>8, <2>9, <2>10 DEF SetsExclude
  <2> QED
    BY <2>1, <2>5, <2>6, <2>11 DEF Sets
<1>9. LeadsNode(D, p, e, WithValue(e, "exclude", v))
  BY <1>3, <1>6, <1>7, <1>8 DEF LeadsNode, NodePath
<1> QED
  BY <1>3, <1>9

-----------------------------------------------------------------------------
(* A configuration that can be written. What no line of the file can have set is what it   *)
(* was to begin with.                                                          *)
Default(p, w) ==
  IF (w = "group" /\ p # Root) \/ (w = "hostname" /\ Level(p) = 2) THEN <<p[1]>>
  ELSE Initially[w]

Settable(p, w) ==
  /\ w \in {l.word : l \in subject}
  /\ Level(p) \in DirectiveOf[w].levels \/ w = "host-check"
  /\ DirectiveOf[w].form \in ValueForms \cup {"appended", "exclude"}

DeviceHooks == {"pre-device-hook", "post-device-hook"}

ValueKept(w, v) ==
  /\ DirectiveOf[w].form \in Assigned =>
       Settled(DirectiveOf[w], v) \/ (w \in DeviceHooks /\ v = <<>>)
  /\ DirectiveOf[w].form = "policy" => Len(v) = 1 /\ v \notin DOMAIN Reading["path"]
  /\ DirectiveOf[w].form \in {"appended", "exclude"} => Listed(v)

NodeKept(p) ==
  /\ IsParameters(nodes[p].backup) /\ IsParameters(nodes[p].prune)
  /\ \A w \in Word : ValueKept(w, Held(p, w)) /\ (Settable(p, w) \/ Held(p, w) = Default(p, w))

NodesNamed ==
  \A p \in DOMAIN nodes :
    /\ p # Root => p[1] \in HostName
    /\ HasVolume(p) => p[2] \in VolumeName

Writable ==
  /\ NodesTyped /\ Families /\ NodesNamed
  /\ IsFiniteSet(DOMAIN nodes) /\ IsFiniteSet(devices)
  /\ \A p \in DOMAIN nodes : NodeKept(p)

(* Where each value may be written.                                            *)
LEMMA WrittenIs ==
  ASSUME NEW p
  PROVE  Written(p) = BaseWritten(p)
           \cup (IF p = Root THEN GlobalWritten \cup GraphWords
                 ELSE IF HasVolume(p) THEN VolumeWritten(p) ELSE HostWritten(p))
<1>1. CASE p = Root
  BY <1>1, GraphIs DEF Written
<1>2. CASE p # Root /\ HasVolume(p)
  BY <1>2, Zenon DEF Written, HasVolume
<1>3. CASE p # Root /\ ~ HasVolume(p)
  BY <1>3, Zenon DEF Written, HasVolume
<1> QED
  BY <1>1, <1>2, <1>3

(* What is written of a node may be set there.                                *)
LEMMA WrittenWithin ==
  ASSUME NEW p, NEW w \in Written(p)
  PROVE  /\ w \in WordsOfLevel(Level(p))
         /\ w \in DeviceHooks => p = Root /\ Held(Root, w) # <<>>
<1>1. BaseWritten(p) \subseteq BaseWords
  BY DEF BaseWritten, BaseWords
<1>2. CASE p = Root
  <2>1. GlobalWritten \subseteq TopWords
    BY DEF GlobalWritten, TopWords, BaseWords
  <2>2. w \in GlobalWritten /\ w \in DeviceHooks => Held(Root, w) # <<>>
    BY DEF GlobalWritten, DeviceHooks
  <2>3. w \in BaseWords \cup GraphWords => w \notin DeviceHooks /\ w \in TopWords
    BY DEF DeviceHooks, BaseWords, GraphWords, TopWords
  <2>4. Level(p) = 1
    BY <1>2 DEF Level
  <2> QED
    BY <1>1, <1>2, <2>1, <2>2, <2>3, <2>4, WrittenIs DEF WordsOfLevel
<1>3. CASE p # Root /\ HasVolume(p)
  <2>1. VolumeWritten(p) \subseteq VolumeWords
    BY DEF VolumeWritten, VolumeWords, BaseWords
  <2>2. BaseWords \subseteq VolumeWords /\ VolumeWords \cap DeviceHooks = {}
    BY DEF DeviceHooks, BaseWords, VolumeWords
  <2>4. Level(p) = 3
    BY <1>3 DEF Level
  <2> QED
    BY <1>1, <1>3, <2>1, <2>2, <2>4, WrittenIs DEF WordsOfLevel
<1>4. CASE p # Root /\ ~ HasVolume(p)
  <2>1. HostWritten(p) \subseteq HostWords
    BY DEF HostWritten, HostWords, BaseWords
  <2>2. BaseWords \subseteq HostWords /\ HostWords \cap DeviceHooks = {}
    BY DEF DeviceHooks, BaseWords, HostWords
  <2>4. Level(p) = 2
    BY <1>4 DEF Level
  <2> QED
    BY <1>1, <1>4, <2>1, <2>2, <2>4, WrittenIs DEF WordsOfLevel
<1> QED
  BY <1>2, <1>3, <1>4

(* Where a dump is readable, nothing is quoted twice.                         *)
LEMMA WrittenPlainly ==
  ASSUME ~ Unreadable(nodes), NEW p \in DOMAIN nodes, NEW w \in Written(p) \cap Word
  PROVE  Quoted(w, Held(p, w)) = Held(p, w)
<1>1. CASE w \notin Unquoted
  BY <1>1 DEF Quoted
<1>2. CASE w \in Fonts
  <2>1. p = Root
    <3>1. w \in WordsOfLevel(Level(p))
      BY WrittenWithin
    <3>2. w \notin HostWords /\ w \notin VolumeWords
      BY <1>2 DEF Fonts, HostWords, VolumeWords, BaseWords
    <3> QED
      BY <3>1, <3>2 DEF WordsOfLevel, Level
  <2>2. Held(Root, w)[1] \notin Spaced
    BY <1>2 DEF Unreadable, Held
  <2> QED
    BY <2>1, <2>2 DEF Quoted
<1>3. CASE w \in {"backup-policy", "prune-policy"}
  <2>1. Held(p, w)[1] \notin Spaced
    BY <1>3 DEF Unreadable, Held
  <2> QED
    BY <2>1 DEF Quoted
<1> QED
  BY <1>1, <1>2, <1>3 DEF Unquoted

(* A row that is written sets the value that it was written for.              *)
LEMMA WrittenLine ==
  ASSUME Writable, ~ Unreadable(nodes), NEW p \in DOMAIN nodes, NEW w \in Written(p) \cap Word,
         NEW D, NEW i, D[i] = Row(p, w, Quoted(w, Held(p, w)))
  PROVE  ValueLine(p, D, i, w, Held(p, w))
<1>1. PICK v, d, l : v = Held(p, w) /\ d = DirectiveOf[w] /\ l = D[i]
  OBVIOUS
<1>2. l = [indent |-> 4 * (Level(p) - 1), word |-> w, args |-> v]
  <2>1. l = Row(p, w, v)
    BY <1>1, WrittenPlainly
  <2> QED
    BY <2>1, RowIs
<1>3. l.indent = 4 * (Level(p) - 1) /\ l.word = w /\ l.args = v
  BY <1>2
<1>4. Known(w) /\ Correct(d)
  BY <1>1, ConfigAssumption, FoundCorrect
<1>5. w \in WordsOfLevel(Level(p)) /\ (w \in DeviceHooks => v # <<>>)
  BY <1>1, WrittenWithin
<1>6. d.form \in ValueForms /\ Level(p) \in d.levels
  <2>1. d.word = w
    BY <1>1, <1>4, FoundCorrect
  <2>2. Level(p) \in 1 .. 3
    BY DEF Level
  <2>3. d.form \in ValueForms
    BY <1>4, <1>5, <2>1, <2>2 DEF Correct, WellPlaced, WordsOfLevel
  <2> QED
    BY <1>4, <1>5, <2>1, <2>2, <2>3 DEF Correct, WellPlaced
<1>7. ValueKept(w, v)
  BY <1>1 DEF Writable, NodeKept
<1>8. CASE d.form \in Assigned
  <2>1. Settled(d, v)
    BY <1>1, <1>5, <1>7, <1>8 DEF ValueKept
  <2>2. Checks(d, l) /\ ~ Overruns(d, l)
    BY <1>3, <2>1 DEF Settled, Checks, Overruns
  <2> QED
    BY <1>1, <1>2, <1>3, <1>4, <1>6, <1>8, <2>1, <2>2 DEF ValueLine, Within, Settled
<1>9. CASE d.form = "policy"
  <2>1. Len(v) = 1 /\ v \notin DOMAIN Reading["path"]
    BY <1>1, <1>7, <1>9 DEF ValueKept
  <2>2. d.least = 1 /\ d.most = 1
    BY <1>4, <1>9 DEF Correct, WellFormed
  <2>3. Checks(d, l) /\ ~ Overruns(d, l)
    BY <1>3, <1>9, <2>1, <2>2 DEF Checks, Overruns
  <2> QED
    BY <1>1, <1>2, <1>3, <1>4, <1>6, <1>9, <2>1, <2>3 DEF ValueLine, Within
<1> QED
  BY <1>6, <1>8, <1>9 DEF ValueForms

(* The values of a function on finitely many arguments are finitely many.     *)
LEMMA ImageFinite ==
  ASSUME NEW S, IsFiniteSet(S), NEW f
  PROVE  IsFiniteSet({f[x] : x \in S})
<1>1. PICK T, g : T = {f[x] : x \in S} /\ g = [x \in S |-> f[x]]
  OBVIOUS
<1>2. g \in Surjection(S, T)
  BY <1>1 DEF Surjection
<1> QED
  BY <1>1, <1>2, FS_Surjection

(* There are finitely many rows of parameters.                                *)
LEMMA ParameterRowsFinite ==
  ASSUME NEW p, NEW w, NEW mine, IsParameters(mine), NEW its, IsParameters(its)
  PROVE  IsFiniteSet(ParameterRows(p, w, mine, its))
<1>1. PICK f, g : /\ f = [n \in DOMAIN mine |-> Row(p, w, <<n, mine[n]>>)]
                  /\ g = [n \in DOMAIN its \ DOMAIN mine |-> Row(p, w, <<"--remove", n>>)]
  OBVIOUS
<1>2. IsFiniteSet(DOMAIN mine) /\ IsFiniteSet(DOMAIN its \ DOMAIN mine)
  <2>1. IsFiniteSet(DOMAIN mine) /\ IsFiniteSet(DOMAIN its)
    BY DEF IsParameters
  <2>2. DOMAIN its \ DOMAIN mine \in SUBSET DOMAIN its
    OBVIOUS
  <2> QED
    BY <2>1, <2>2, FS_Subset
<1>3. /\ IsFiniteSet({f[n] : n \in DOMAIN mine})
      /\ IsFiniteSet({g[n] : n \in DOMAIN its \ DOMAIN mine})
  BY <1>2, ImageFinite
<1>4. ParameterRows(p, w, mine, its)
        = {f[n] : n \in DOMAIN mine} \cup {g[n] : n \in DOMAIN its \ DOMAIN mine}
  BY <1>1 DEF ParameterRows
<1> QED
  BY <1>3, <1>4, FS_Union

(* The values, of one node.                                                    *)
ValueRows(p) ==
  {Row(p, w, Quoted(w, Held(p, w))) : w \in Written(p) \cap Word \cap {l.word : l \in subject}}

Told(p) == Written(p) \cap Word \cap {l.word : l \in subject}

HeldIn(p) == [w \in Word |-> Held(p, w)]

(* The rows of values set what is told, in whatever order they are written.   *)
LEMMA ValueRowsLead ==
  ASSUME Writable, ~ Unreadable(nodes), NEW p \in DOMAIN nodes, NEW e, IsNode(e),
         NEW D, D = SetToSeq(ValueRows(p))
  PROVE  Listed(D) /\ LeadsNode(D, p, e, SetTo(e, Told(p), HeldIn(p)))
<1>1. IsFiniteSet(ValueRows(p))
  <2>1. PICK f : f = [w \in Told(p) |-> Row(p, w, Quoted(w, Held(p, w)))]
    OBVIOUS
  <2>2. ValueRows(p) = {f[w] : w \in Told(p)}
    BY <2>1 DEF ValueRows, Told
  <2>3. IsFiniteSet(Told(p))
    <3>1. IsFiniteSet(Word) /\ Told(p) \in SUBSET Word
      BY ConfigAssumption DEF Told
    <3> QED
      BY <3>1, FS_Subset
  <2> QED
    BY <2>2, <2>3, ImageFinite
<1>2. /\ Listed(D) /\ Len(D) \in Nat
      /\ \A i \in 1 .. Len(D) : D[i] \in ValueRows(p)
      /\ \A l \in ValueRows(p) : \E i \in 1 .. Len(D) : D[i] = l
  BY <1>1, Ordering, SequenceListed
<1>3. \A w \in Told(p) : w \in Written(p) \cap Word /\ HeldIn(p)[w] = Held(p, w)
  BY DEF Told, HeldIn
<1>4. ASSUME NEW i \in 1 .. Len(D)
      PROVE  \E w \in Told(p) : ValueLine(p, D, i, w, HeldIn(p)[w])
  <2>1. PICK w \in Told(p) : D[i] = Row(p, w, Quoted(w, Held(p, w)))
    BY <1>2 DEF ValueRows, Told
  <2>2. ValueLine(p, D, i, w, Held(p, w))
    BY <1>3, <2>1, WrittenLine
  <2> QED
    BY <1>3, <2>2
<1>5. ASSUME NEW w \in Told(p)
      PROVE  \E i \in 1 .. Len(D) : D[i].word = w
  <2>1. PICK l : l = Row(p, w, Quoted(w, Held(p, w)))
    OBVIOUS
  <2>2. l \in ValueRows(p) /\ l.word = w
    BY <2>1 DEF ValueRows, Told, Row
  <2> QED
    BY <1>2, <2>2
<1>6. Told(p) \in SUBSET Word
  BY DEF Told
<1> QED
  BY <1>2, <1>4, <1>5, <1>6, ValuesLead

-----------------------------------------------------------------------------
(* All the lines of one node.                                                  *)
Its(p, w) == IF p = Root THEN NoParameter ELSE Parameters(nodes[Parent(p)], w)

LostHere(p, w) ==
  \/ w \in Unwritten
  \/ w = "group" /\ p = Root
  \/ w = "host-check" /\ HasVolume(p)
  \/ /\ w \in {"backup-job-timeout", "rsync-io-timeout", "hook-timeout", "rsync-remote",
               "devices"}
     /\ p # Root /\ Held(p, w) \in {<<"0s">>, <<"">>}

Later(p, w) == p = Root /\ w \in Lists

Ready(p, e) ==
  /\ IsNode(e)
  /\ e.backup = Its(p, "backup-parameter") /\ e.prune = Its(p, "prune-parameter")
  /\ "exclude" \in Word /\ HasVolume(p) => e.set["exclude"] = <<>>
  /\ \A w \in Word :
       \/ w \in Told(p) \/ (w = "exclude" /\ HasVolume(p))
       \/ LostHere(p, w) \/ Later(p, w) \/ e.set[w] = Held(p, w)

Regained(p, e, x) ==
  /\ IsNode(x) /\ x.backup = nodes[p].backup /\ x.prune = nodes[p].prune
  /\ \A w \in Word :
       LostHere(p, w) \/ (Later(p, w) /\ x.set[w] = e.set[w]) \/ x.set[w] = Held(p, w)

Excluded(p) == IF "exclude" \in Word /\ p \in Volumes THEN Held(p, "exclude") ELSE <<>>

(* What is written of a node, in its parts.                                   *)
LEMMA RowsAre ==
  ASSUME NEW p
  PROVE  Rows(p) = SetToSeq(ValueRows(p))
                     \o SetToSeq(ParameterRows(p, "backup-parameter", nodes[p].backup,
                                               Its(p, "backup-parameter")))
                     \o SetToSeq(ParameterRows(p, "prune-parameter", nodes[p].prune,
                                               Its(p, "prune-parameter")))
                     \o [i \in DOMAIN Excluded(p) |-> Row(p, "exclude", <<Excluded(p)[i]>>)]
<1>1. CASE p = Root
  <2>1. Its(p, "backup-parameter") = NoParameter /\ Its(p, "prune-parameter") = NoParameter
    BY <1>1 DEF Its
  <2> QED
    BY <1>1, <2>1 DEF Rows, ValueRows, Excluded
<1>2. CASE p # Root
  <2>1. /\ Its(p, "backup-parameter") = nodes[Parent(p)].backup
        /\ Its(p, "prune-parameter") = nodes[Parent(p)].prune
    BY <1>2 DEF Its, Parameters
  <2> QED
    BY <1>2, <2>1 DEF Rows, ValueRows, Excluded
<1> QED
  BY <1>1, <1>2

(* Parameters may be none.                                                    *)
LEMMA NoParameters ==
  IsParameters(NoParameter)
<1>1. DOMAIN NoParameter = {} /\ NoParameter = [n \in DOMAIN NoParameter |-> NoParameter[n]]
  BY DEF NoParameter
<1> QED
  BY <1>1, FS_EmptySet DEF IsParameters

(* What is around a volume is its host, and what is around a host is global.  *)
LEMMA ParentIs ==
  ASSUME NEW p
  PROVE  Parent(p) = IF HasVolume(p) THEN HostOf(p) ELSE Root
BY Zenon DEF Parent, HasVolume, HostOf

(* The parameters around a node are parameters.                               *)
LEMMA ItsParameters ==
  ASSUME Writable, NEW p \in DOMAIN nodes, NEW w
  PROVE  IsParameters(Its(p, w))
<1>1. CASE p = Root
  BY <1>1, NoParameters DEF Its
<1>2. CASE p # Root
  <2>1. Parent(p) \in DOMAIN nodes
    BY <1>2, ParentIs DEF Writable, Families
  <2>2. IsParameters(nodes[Parent(p)].backup) /\ IsParameters(nodes[Parent(p)].prune)
    BY <2>1 DEF Writable, NodeKept
  <2> QED
    BY <1>2, <2>2 DEF Its, Parameters
<1> QED
  BY <1>1, <1>2

(* The rows of parameters, as they are written.                               *)
LEMMA ParameterRowsLead ==
  ASSUME Writable, NEW p \in DOMAIN nodes, NEW w, IsParameterWord(w),
         NEW mine, IsParameters(mine), NEW e, IsNode(e), Parameters(e, w) = Its(p, w),
         NEW D, D = SetToSeq(ParameterRows(p, w, mine, Its(p, w)))
  PROVE  Listed(D) /\ LeadsNode(D, p, e, WithParameters(e, w, mine))
<1>1. IsParameters(Its(p, w))
  BY ItsParameters
<1>2. IsFiniteSet(ParameterRows(p, w, mine, Its(p, w)))
  BY <1>1, ParameterRowsFinite
<1>3. /\ Listed(D) /\ Len(D) \in Nat
      /\ \A i \in 1 .. Len(D) : D[i] \in ParameterRows(p, w, mine, Its(p, w))
      /\ \A l \in ParameterRows(p, w, mine, Its(p, w)) : \E i \in 1 .. Len(D) : D[i] = l
  BY <1>2, Ordering, SequenceListed
<1> QED
  BY <1>1, <1>3, ParametersLead

WithExcluded(p, e) ==
  IF "exclude" \in Word /\ HasVolume(p) THEN WithValue(e, "exclude", Held(p, "exclude")) ELSE e

(* What setting one word leaves as it is.                                     *)
LEMMA WithValueIs ==
  ASSUME NEW e, IsNode(e), NEW w, NEW v
  PROVE  /\ WithValue(e, w, v).backup = e.backup /\ WithValue(e, w, v).prune = e.prune
         /\ IsNode(WithValue(e, w, v))
         /\ \A q \in Word : WithValue(e, w, v).set[q] = IF q = w THEN v ELSE e.set[q]
<1>1. PICK s, b, c, x : s = e.set /\ b = e.backup /\ c = e.prune /\ x = WithValue(e, w, v)
  OBVIOUS
<1>2. e = [set |-> s, backup |-> b, prune |-> c] /\ s = [q \in Word |-> s[q]]
  BY <1>1 DEF IsNode
<1>3. PICK t : t = [s EXCEPT ![w] = v]
  OBVIOUS
<1>4. x = [set |-> t, backup |-> b, prune |-> c]
  BY <1>1, <1>2, <1>3 DEF WithValue
<1>5. t = [q \in Word |-> t[q]] /\ \A q \in Word : t[q] = IF q = w THEN v ELSE s[q]
  BY <1>2, <1>3
<1>6. x.set = t /\ x.backup = b /\ x.prune = c
  BY <1>4
<1>7. IsNode(x)
  BY <1>4, <1>5, <1>6 DEF IsNode
<1> QED
  BY <1>1, <1>5, <1>6, <1>7

(* The rows of excluded paths, where there are any.                           *)
LEMMA ExcludedLead ==
  ASSUME Writable, NEW p \in DOMAIN nodes, NEW e, IsNode(e),
         "exclude" \in Word /\ HasVolume(p) => e.set["exclude"] = <<>>,
         NEW D, D = [i \in DOMAIN Excluded(p) |-> Row(p, "exclude", <<Excluded(p)[i]>>)]
  PROVE  Listed(D) /\ LeadsNode(D, p, e, WithExcluded(p, e))
<1>1. CASE "exclude" \in Word /\ HasVolume(p)
  <2>1. p \in Volumes
    BY <1>1, Zenon DEF Volumes, HasVolume
  <2>2. Excluded(p) = Held(p, "exclude")
    BY <1>1, <2>1 DEF Excluded
  <2>3. Listed(Held(p, "exclude"))
    <3>1. DirectiveOf["exclude"].form = "exclude"
      <4>1. Known("exclude")
        BY <1>1, ConfigAssumption
      <4> QED
        BY <4>1, FoundCorrect DEF Correct, WellPlaced
    <3> QED
      BY <1>1, <3>1 DEF Writable, NodeKept, ValueKept
  <2>4. Level(p) = 3
    BY <1>1, GlobalIs DEF Level
  <2> QED
    BY <1>1, <2>2, <2>3, <2>4, ExcludesLead DEF WithExcluded
<1>2. CASE ~ ("exclude" \in Word /\ HasVolume(p))
  <2>1. p \in Volumes => HasVolume(p)
    BY Zenon DEF Volumes, HasVolume
  <2>2. Excluded(p) = <<>>
    BY <1>2, <2>1 DEF Excluded
  <2>3. D = <<>> /\ Len(D) = 0 /\ Listed(D)
    BY <2>2 DEF Listed
  <2>4. LeadsNode(D, p, e, e)
    <3>1. PICK r : r = [i \in {0} |-> e]
      OBVIOUS
    <3>2. r[0] = e /\ NodePath(D, p, r)
      BY <2>3, <3>1 DEF NodePath
    <3> QED
      BY <2>3, <3>2 DEF LeadsNode
  <2> QED
    BY <1>2, <2>3, <2>4 DEF WithExcluded
<1> QED
  BY <1>1, <1>2

(* All rows of a node: where what is not told is what it was before, they give it back. *)
LEMMA RowsLead ==
  ASSUME Writable, ~ Unreadable(nodes), NEW p \in DOMAIN nodes, NEW e, Ready(p, e)
  PROVE  Listed(Rows(p)) /\ \E x : LeadsNode(Rows(p), p, e, x) /\ Regained(p, e, x)
<1>1. PICK A, B, C, D :
        /\ A = SetToSeq(ValueRows(p))
        /\ B = SetToSeq(ParameterRows(p, "backup-parameter", nodes[p].backup,
                                      Its(p, "backup-parameter")))
        /\ C = SetToSeq(ParameterRows(p, "prune-parameter", nodes[p].prune,
                                      Its(p, "prune-parameter")))
        /\ D = [i \in DOMAIN Excluded(p) |-> Row(p, "exclude", <<Excluded(p)[i]>>)]
  OBVIOUS
<1>2. Rows(p) = A \o B \o C \o D
  BY <1>1, RowsAre
<1>3. IsParameterWord("backup-parameter") /\ IsParameterWord("prune-parameter")
  BY DEF IsParameterWord
<1>4. IsParameters(nodes[p].backup) /\ IsParameters(nodes[p].prune)
  BY DEF Writable, NodeKept
<1>5. IsNode(e) /\ e.backup = Its(p, "backup-parameter") /\ e.prune = Its(p, "prune-parameter")
  BY DEF Ready
<1>6. PICK u : u = SetTo(e, Told(p), HeldIn(p))
  OBVIOUS
<1>7. Listed(A) /\ LeadsNode(A, p, e, u)
  BY <1>1, <1>5, <1>6, ValueRowsLead
<1>8. IsNode(u) /\ u.backup = e.backup /\ u.prune = e.prune
      /\ \A w \in Word : u.set[w] = IF w \in Told(p) THEN Held(p, w) ELSE e.set[w]
  BY <1>6 DEF SetTo, IsNode, HeldIn
<1>9. PICK v : v = WithParameters(u, "backup-parameter", nodes[p].backup)
  OBVIOUS
<1>10. IsNode(v) /\ v.set = u.set /\ v.backup = nodes[p].backup /\ v.prune = u.prune
  BY <1>8, <1>9 DEF WithParameters, IsNode
<1>11. Listed(B) /\ LeadsNode(B, p, u, v)
  <2>1. Parameters(u, "backup-parameter") = Its(p, "backup-parameter")
    BY <1>5, <1>8 DEF Parameters
  <2> QED
    BY <1>1, <1>3, <1>4, <1>8, <1>9, <2>1, ParameterRowsLead
<1>12. PICK y : y = WithParameters(v, "prune-parameter", nodes[p].prune)
  OBVIOUS
<1>13. IsNode(y) /\ y.set = u.set /\ y.backup = nodes[p].backup /\ y.prune = nodes[p].prune
  BY <1>10, <1>12 DEF WithParameters, IsNode
<1>14. Listed(C) /\ LeadsNode(C, p, v, y)
  <2>1. Parameters(v, "prune-parameter") = Its(p, "prune-parameter")
    BY <1>5, <1>8, <1>10 DEF Parameters
  <2> QED
    BY <1>1, <1>3, <1>4, <1>10, <1>12, <2>1, ParameterRowsLead
<1>15. "exclude" \in Word /\ HasVolume(p) => y.set["exclude"] = <<>>
  <2> SUFFICES ASSUME "exclude" \in Word, HasVolume(p)
               PROVE  y.set["exclude"] = <<>>
    OBVIOUS
  <2>1. e.set["exclude"] = <<>>
    BY DEF Ready
  <2>2. "exclude" \notin Written(p)
    <3>1. "exclude" \notin WordsOfLevel(Level(p))
      BY DEF WordsOfLevel, TopWords, HostWords, VolumeWords, BaseWords, GraphWords, Unwritten
    <3> QED
      BY <3>1, WrittenWithin
  <2>3. "exclude" \notin Told(p)
    BY <2>2 DEF Told
  <2> QED
    BY <1>8, <1>13, <2>1, <2>3
<1>16. PICK x : x = WithExcluded(p, y)
  OBVIOUS
<1>20. Listed(D) /\ LeadsNode(D, p, y, x)
  BY <1>1, <1>13, <1>15, <1>16, ExcludedLead
<1>17. Listed(Rows(p)) /\ LeadsNode(Rows(p), p, e, x)
  <2>1. LeadsNode(A \o B, p, e, v) /\ Listed(A \o B)
    BY <1>7, <1>11, NodeJoin
  <2>2. LeadsNode(A \o B \o C, p, e, y) /\ Listed(A \o B \o C)
    BY <1>14, <2>1, NodeJoin
  <2>3. PICK F : F = A \o B \o C
    OBVIOUS
  <2>4. LeadsNode(F \o D, p, e, x) /\ Listed(F \o D)
    BY <1>20, <2>2, <2>3, NodeJoin
  <2> QED
    BY <1>2, <2>3, <2>4
<1>18. /\ IsNode(x) /\ x.backup = nodes[p].backup /\ x.prune = nodes[p].prune
       /\ \A w \in Word : x.set[w] = IF w = "exclude" /\ HasVolume(p) THEN Held(p, w) ELSE u.set[w]
  <2>1. CASE "exclude" \in Word /\ HasVolume(p)
    <3>1. x = WithValue(y, "exclude", Held(p, "exclude"))
      BY <1>16, <2>1 DEF WithExcluded
    <3> QED
      BY <1>13, <2>1, <3>1, WithValueIs
  <2>2. CASE ~ ("exclude" \in Word /\ HasVolume(p))
    BY <1>13, <1>16, <2>2 DEF WithExcluded
  <2> QED
    BY <2>1, <2>2
<1>19. ASSUME NEW w \in Word
       PROVE  LostHere(p, w) \/ (Later(p, w) /\ x.set[w] = e.set[w]) \/ x.set[w] = Held(p, w)
  <2>1. \/ w \in Told(p) \/ (w = "exclude" /\ HasVolume(p))
        \/ LostHere(p, w) \/ Later(p, w) \/ e.set[w] = Held(p, w)
    BY DEF Ready
  <2> QED
    BY <1>8, <1>18, <2>1
<1> QED
  BY <1>17, <1>18, <1>19 DEF Regained

-----------------------------------------------------------------------------
(* Lists, which take several lines, and devices.                              *)
(* The lists, a line until where it is full.                                   *)
LEMMA LeastIs ==
  ASSUME NEW T \in SUBSET Nat, T # {}
  PROVE  LET m == CHOOSE j \in T : \A k \in T : j <= k
         IN  m \in T /\ \A k \in T : m <= k
<1>1. \E j \in T : \A k \in T : j <= k
  BY LeastNumber
<1> QED
  BY <1>1

(* A line of a list ends before the next element that is too long for it.     *)
LEMMA BreakIs ==
  ASSUME NEW S, NEW v \in Seq(S), NEW n \in Nat, n = Len(v), NEW k \in 0 .. n
  PROVE  /\ BreakAfter(v, k) \in k .. n
         /\ BreakAfter(v, n) = n
         /\ k \in Breaks(v) => BreakAfter(v, k - 1) = k - 1
         /\ k \notin Breaks(v) /\ k > 0 => BreakAfter(v, k - 1) = BreakAfter(v, k)
<1> DEFINE After(i) == {j \in Breaks(v) : j > i}
           Least(T) == CHOOSE j \in T : \A m \in T : j <= m
<1>1. Breaks(v) \subseteq 1 .. n
  BY DEF Breaks
<1>2. \A i : BreakAfter(v, i) = IF After(i) = {} THEN n ELSE Least(After(i)) - 1
  BY DEF BreakAfter
<1>3. \A i : After(i) # {} => Least(After(i)) \in After(i) /\ \A m \in After(i) : Least(After(i)) <= m
  <2> TAKE i
  <2>1. After(i) \in SUBSET Nat
    BY <1>1
  <2> HIDE DEF After
  <2> QED
    BY <2>1, LeastIs
<1> HIDE DEF Least
<1>4. BreakAfter(v, k) \in k .. n
  <2> HIDE DEF After
  <2>1. CASE After(k) = {}
    <3>1. BreakAfter(v, k) = n
      BY <1>2, <2>1
    <3> QED
      BY <3>1
  <2>2. CASE After(k) # {}
    <3>1. Least(After(k)) \in After(k)
      BY <1>3, <2>2
    <3>2. PICK m : m = Least(After(k))
      OBVIOUS
    <3>3. m \in 1 .. n /\ m > k
      BY <1>1, <3>1, <3>2 DEF After
    <3>4. BreakAfter(v, k) = m - 1
      BY <1>2, <2>2, <3>2
    <3> QED
      BY <3>3, <3>4
  <2> QED
    BY <2>1, <2>2
<1>5. BreakAfter(v, n) = n
  <2>1. After(n) = {}
    BY <1>1
  <2> HIDE DEF After
  <2> QED
    BY <1>2, <2>1
<1>6. ASSUME k \in Breaks(v)
      PROVE  BreakAfter(v, k - 1) = k - 1
  <2>1. k \in After(k - 1) /\ \A j \in After(k - 1) : k <= j /\ j \in Nat
    BY <1>1, <1>6
  <2>2. PICK m : m = Least(After(k - 1))
    OBVIOUS
  <2>3. m \in After(k - 1) /\ \A j \in After(k - 1) : m <= j
    BY <1>3, <2>1, <2>2
  <2>4. m = k
    <3> HIDE DEF After
    <3> QED
      BY <2>1, <2>3
  <2> QED
    BY <1>2, <2>1, <2>2, <2>4
<1>7. ASSUME k \notin Breaks(v), k > 0
      PROVE  BreakAfter(v, k - 1) = BreakAfter(v, k)
  <2>1. After(k - 1) = After(k)
    BY <1>1, <1>7
  <2> QED
    BY <1>2, <2>1
<1> QED
  BY <1>4, <1>5, <1>6, <1>7

(* One line about the node the reader is in.                                  *)
LEMMA OneSetting ==
  ASSUME NEW s, IsState(s), NEW p, s.at = p, NEW l, Within(p, l), NEW x, Sets(s.nodes[p], l, x)
  PROVE  Leads(<<l>>, s, WithNode(s, p, x))
<1>1. TakesSetting(s, l, WithNode(s, p, x))
  BY DEF TakesSetting, WithNode
<1> QED
  BY <1>1, LeadsOneLine DEF Takes

(* A line of a list is in place.                                              *)
LEMMA ListLine ==
  ASSUME NEW w \in Lists, NEW a, Len(a) \in Nat, a # <<>>, NEW l, l = Row(Root, w, a)
  PROVE  /\ Within(Root, l) /\ l.word = w /\ l.args = a
         /\ DirectiveOf[w].form = "appended"
<1>1. Known(w) /\ w \in {"report", "graph-layout"}
  BY ConfigAssumption DEF Lists
<1>2. /\ DirectiveOf[w].form = "appended" /\ DirectiveOf[w].least = 0
      /\ DirectiveOf[w].most = Many /\ DirectiveOf[w].levels = {1}
  BY <1>1, FoundCorrect DEF Correct, WellPlaced, WellFormed
<1>3. l = [indent |-> 4 * (Level(Root) - 1), word |-> w, args |-> a]
  BY RowIs
<1>4. l.indent = 4 * (Level(Root) - 1) /\ l.word = w /\ l.args = a
  BY <1>3
<1>5. Level(Root) = 1
  BY DEF Level
<1>6. Within(Root, l)
  BY <1>1, <1>2, <1>4, <1>5 DEF Within, Checks, Overruns
<1> QED
  BY <1>2, <1>4, <1>6

(* The lines of a list give the list back: all but the first go on after it.  *)
LEMMA ListLeads ==
  ASSUME NEW w \in Lists, NEW v, Listed(v), v # <<>>, v[1] \notin Long \cup {"+"},
         NEW s, IsState(s), s.at = Root, Root \in DOMAIN s.nodes, NEW e, e = s.nodes[Root],
         IsNode(e)
  PROVE  /\ Listed(WriteVector(w, v))
         /\ Leads(WriteVector(w, v), s, WithNode(s, Root, WithValue(e, w, v)))
<1>1. PICK S : v \in Seq(S)
  BY AsSequence
<1>2. PICK n \in Nat : n = Len(v) /\ DOMAIN v = 1 .. n /\ n > 0
  BY <1>1
<1>3. PICK b : b = [k \in 0 .. n |-> WithNode(s, Root, WithValue(e, w, SubSeq(v, 1, BreakAfter(v, k))))]
  OBVIOUS
<1>4. PICK start : start = Row(Root, w, SubSeq(v, 1, BreakAfter(v, 0)))
  OBVIOUS
<1>5. PICK ss : ss = [i \in DOMAIN v |->
                        IF i \in Breaks(v)
                          THEN <<Row(Root, w, <<"+">> \o SubSeq(v, i, BreakAfter(v, i)))>>
                        ELSE <<>>]
  OBVIOUS
<1>6. WriteVector(w, v) = <<start>> \o FlattenSeq(ss)
  BY <1>4, <1>5 DEF WriteVector
<1>7. \A k \in 0 .. n : BreakAfter(v, k) \in k .. n
  BY <1>1, <1>2, BreakIs
<1>8. Leads(<<start>>, s, b[0])
  <2>1. PICK m, a : m = BreakAfter(v, 0) /\ a = SubSeq(v, 1, m)
    OBVIOUS
  <2>2. m \in 1 .. n
    <3>1. 1 \notin Breaks(v)
      BY DEF Breaks
    <3>2. 1 \in 0 .. n /\ 1 > 0 /\ 1 - 1 = 0
      BY <1>2
    <3>3. BreakAfter(v, 0) = BreakAfter(v, 1)
      BY <1>1, <1>2, <3>1, <3>2, BreakIs
    <3> QED
      BY <1>7, <2>1, <3>2, <3>3
  <2>3. Len(a) = m /\ a[1] = v[1] /\ a # <<>>
    BY <1>1, <1>2, <2>1, <2>2
  <2>4. /\ Within(Root, start) /\ start.word = w /\ start.args = a
        /\ DirectiveOf[w].form = "appended"
    <3>1. Len(a) \in Nat /\ a # <<>> /\ start = Row(Root, w, a)
      BY <1>4, <2>1, <2>2, <2>3
    <3> QED
      BY <3>1, ListLine
  <2>5. a[1] # "+"
    BY <2>3
  <2>6. Sets(e, start, WithValue(e, w, a))
    BY <2>4, <2>5 DEF Sets, SetsList
  <2>7. b[0] = WithNode(s, Root, WithValue(e, w, a))
    BY <1>2, <1>3, <2>1
  <2> QED
    BY <2>4, <2>6, <2>7, OneSetting
<1>9. Len(ss) = n /\ Listed(ss)
  BY <1>2, <1>5 DEF Listed
<1>10. ASSUME NEW k \in 1 .. n
       PROVE  Listed(ss[k]) /\ Leads(ss[k], b[k - 1], b[k])
  <2>1. k \in 0 .. n /\ k - 1 \in 0 .. n /\ k \in DOMAIN v /\ k > 0
    BY <1>2
  <2>2. CASE k \notin Breaks(v)
    <3>1. ss[k] = <<>>
      BY <1>5, <2>1, <2>2
    <3>2. BreakAfter(v, k - 1) = BreakAfter(v, k)
      BY <1>1, <1>2, <2>1, <2>2, BreakIs
    <3>3. b[k - 1] = b[k]
      BY <1>3, <2>1, <3>2
    <3> QED
      BY <3>1, <3>3, LeadsNowhere DEF Listed
  <2>3. CASE k \in Breaks(v)
    <3>1. PICK m, c, a, l : /\ m = BreakAfter(v, k) /\ c = SubSeq(v, k, m) /\ a = <<"+">> \o c
                            /\ l = Row(Root, w, a)
      OBVIOUS
    <3>2. ss[k] = <<l>> /\ Listed(ss[k])
      BY <1>5, <2>1, <2>3, <3>1 DEF Listed
    <3>3. m \in k .. n /\ BreakAfter(v, k - 1) = k - 1
      <4>1. m \in k .. n
        BY <1>7, <2>1, <3>1
      <4> QED
        BY <1>1, <1>2, <2>1, <2>3, <4>1, BreakIs
    <3>4. c \in Seq(S)
      BY <1>1, <1>2, <3>1, <3>3
    <3>5. Len(a) = 1 + Len(c) /\ a # <<>> /\ a[1] = "+" /\ Tail(a) = c
      <4>1. PICK U : U = S \cup {"+"}
        OBVIOUS
      <4>2. c \in Seq(U) /\ <<"+">> \in Seq(U)
        BY <3>4, <4>1
      <4>3. a = <<"+">> \o c
        BY <3>1
      <4> QED
        BY <4>2, <4>3
    <3>6. SubSeq(v, 1, k - 1) \o c = SubSeq(v, 1, m)
      BY <1>1, <1>2, <3>1, <3>3
    <3>7. PICK f, g : f = WithValue(e, w, SubSeq(v, 1, k - 1)) /\ g = WithValue(e, w, SubSeq(v, 1, m))
      OBVIOUS
    <3>8. b[k - 1] = WithNode(s, Root, f) /\ b[k] = WithNode(s, Root, g)
      <4>1. b[k - 1] = WithNode(s, Root, WithValue(e, w, SubSeq(v, 1, BreakAfter(v, k - 1))))
        BY <1>3, <2>1
      <4>2. b[k] = WithNode(s, Root, WithValue(e, w, SubSeq(v, 1, BreakAfter(v, k))))
        BY <1>3, <2>1
      <4> QED
        BY <3>1, <3>3, <3>7, <4>1, <4>2
    <3>9. /\ Within(Root, l) /\ l.word = w /\ l.args = a
          /\ DirectiveOf[w].form = "appended"
      <4>1. Len(a) \in Nat
        BY <3>4, <3>5
      <4> QED
        <5>1. Len(a) \in Nat /\ a # <<>> /\ l = Row(Root, w, a)
          BY <3>1, <3>5, <4>1
        <5> QED
          BY <5>1, ListLine
    <3>10. f.set[w] = SubSeq(v, 1, k - 1) /\ IsNode(f)
      <4>1. w \in Word
        BY DEF Lists
      <4> QED
        <5>1. PICK z : z = SubSeq(v, 1, k - 1) /\ f = WithValue(e, w, z)
          BY <3>7
        <5>2. WithValue(e, w, z).set[w] = z
          BY <4>1, WithValueIs
        <5>3. IsNode(WithValue(e, w, z))
          BY WithValueIs
        <5> QED
          BY <5>1, <5>2, <5>3
    <3>11. WithValue(f, w, SubSeq(v, 1, m)) = g
      BY <3>7 DEF WithValue, IsNode
    <3>12. Sets(f, l, g)
      <4>1. g = WithValue(f, w, f.set[w] \o Tail(a))
        BY <3>5, <3>6, <3>10, <3>11
      <4>2. SetsList(f, l, g)
        BY <3>5, <3>9, <4>1 DEF SetsList
      <4> QED
        BY <4>2 DEF Sets
    <3>13. PICK t : t = WithNode(s, Root, f)
      OBVIOUS
    <3>14. IsState(t) /\ t.at = Root /\ t.nodes[Root] = f /\ WithNode(t, Root, g) = WithNode(s, Root, g)
      <4>1. PICK N : N = s.nodes /\ N = [q \in DOMAIN N |-> N[q]] /\ Root \in DOMAIN N
        BY DEF IsState
      <4>2. t = [nodes |-> [N EXCEPT ![Root] = f], devices |-> s.devices, at |-> Root]
        BY <3>13, <4>1 DEF WithNode
      <4>3. [N EXCEPT ![Root] = f][Root] = f
            /\ [[N EXCEPT ![Root] = f] EXCEPT ![Root] = g] = [N EXCEPT ![Root] = g]
        BY <4>1
      <4> QED
        BY <4>1, <4>2, <4>3 DEF WithNode, IsState
    <3> QED
      BY <3>2, <3>8, <3>9, <3>12, <3>13, <3>14, OneSetting
  <2> QED
    BY <2>2, <2>3
<1>11. Listed(FlattenSeq(ss)) /\ Leads(FlattenSeq(ss), b[0], b[n])
  BY <1>9, <1>10, Through
<1>12. b[n] = WithNode(s, Root, WithValue(e, w, v))
  <2>1. BreakAfter(v, n) = n /\ SubSeq(v, 1, n) = v /\ n \in 0 .. n
    <3>1. n \in 0 .. n
      BY <1>2
    <3> QED
      BY <1>1, <1>2, <3>1, BreakIs
  <2>2. b[n] = WithNode(s, Root, WithValue(e, w, SubSeq(v, 1, BreakAfter(v, n))))
    BY <1>3, <2>1
  <2> QED
    BY <2>1, <2>2
<1>13. Listed(<<start>>)
  BY DEF Listed
<1> QED
  BY <1>6, <1>8, <1>11, <1>12, <1>13, Join

(* Setting words one after another.                                           *)
LEMMA SetToOn ==
  ASSUME NEW e, NEW N, NEW v, NEW w \in Word
  PROVE  SetTo(e, N \cup {w}, v) = WithValue(SetTo(e, N, v), w, v[w])
<1>1. PICK a, b, F, G : a = SetTo(e, N, v) /\ b = SetTo(e, N \cup {w}, v) /\ F = a.set /\ G = b.set
  OBVIOUS
<1>2. /\ F = [u \in Word |-> IF u \in N THEN v[u] ELSE e.set[u]]
      /\ G = [u \in Word |-> IF u \in N \cup {w} THEN v[u] ELSE e.set[u]]
  BY <1>1 DEF SetTo
<1>3. G = [F EXCEPT ![w] = v[w]]
  BY <1>2
<1>4. a = [set |-> F, backup |-> e.backup, prune |-> e.prune]
  BY <1>1 DEF SetTo
<1>5. b = [set |-> G, backup |-> e.backup, prune |-> e.prune]
  BY <1>1 DEF SetTo
<1> QED
  BY <1>1, <1>3, <1>4, <1>5 DEF WithValue

LEMMA SetToIs ==
  ASSUME NEW e, IsNode(e), NEW N, NEW v
  PROVE  /\ IsNode(SetTo(e, N, v)) /\ SetTo(e, {}, v) = e
         /\ SetTo(e, N, v).backup = e.backup /\ SetTo(e, N, v).prune = e.prune
         /\ \A w \in Word : SetTo(e, N, v).set[w] = IF w \in N THEN v[w] ELSE e.set[w]
BY DEF SetTo, IsNode

(* Changing one node, once and again.                                         *)
LEMMA WithNodeIs ==
  ASSUME NEW s, IsState(s), NEW p \in DOMAIN s.nodes, s.at = p, NEW f
  PROVE  /\ IsState(WithNode(s, p, f)) /\ WithNode(s, p, f).at = p
         /\ WithNode(s, p, f).nodes[p] = f /\ p \in DOMAIN WithNode(s, p, f).nodes
         /\ WithNode(s, p, f).devices = s.devices
         /\ WithNode(s, p, s.nodes[p]) = s
<1>1. PICK N, t : N = s.nodes /\ t = WithNode(s, p, f)
  OBVIOUS
<1>2. N = [q \in DOMAIN N |-> N[q]] /\ p \in DOMAIN N
  BY <1>1 DEF IsState
<1>3. t = [nodes |-> [N EXCEPT ![p] = f], devices |-> s.devices, at |-> p]
  BY <1>1 DEF WithNode
<1>4. [N EXCEPT ![p] = f][p] = f /\ DOMAIN [N EXCEPT ![p] = f] = DOMAIN N
  BY <1>2
<1>6. IsState(t) /\ t.at = p /\ t.nodes[p] = f /\ p \in DOMAIN t.nodes /\ t.devices = s.devices
  BY <1>2, <1>3, <1>4 DEF IsState
<1>8. WithNode(s, p, s.nodes[p]) = s
  <2>1. [N EXCEPT ![p] = N[p]] = N
    BY <1>2
  <2> QED
    BY <1>1, <2>1 DEF WithNode, IsState
<1> QED
  BY <1>1, <1>6, <1>8

LEMMA WithNodeTwice ==
  ASSUME NEW s, IsState(s), NEW p \in DOMAIN s.nodes, NEW f, NEW g
  PROVE  WithNode(WithNode(s, p, f), p, g) = WithNode(s, p, g)
<1>1. PICK N, t : N = s.nodes /\ t = WithNode(s, p, f)
  OBVIOUS
<1>2. N = [q \in DOMAIN N |-> N[q]] /\ p \in DOMAIN N
  BY <1>1 DEF IsState
<1>3. t = [nodes |-> [N EXCEPT ![p] = f], devices |-> s.devices, at |-> p]
  BY <1>1 DEF WithNode
<1>4. [[N EXCEPT ![p] = f] EXCEPT ![p] = g] = [N EXCEPT ![p] = g]
  BY <1>2
<1> QED
  BY <1>1, <1>3, <1>4 DEF WithNode

(* The lines of all lists.                                                    *)
LEMMA ListsLead ==
  ASSUME Writable, ~ Unreadable(nodes), NEW s, IsState(s), s.at = Root, Root \in DOMAIN s.nodes,
         NEW e, e = s.nodes[Root], IsNode(e),
         NEW q, q = SetToSeq(Lists),
         NEW D, D = [i \in DOMAIN q |-> WriteVector(q[i], Held(Root, q[i]))]
  PROVE  /\ Listed(FlattenSeq(D))
         /\ Leads(FlattenSeq(D), s, WithNode(s, Root, SetTo(e, Lists, HeldIn(Root))))
<1>1. IsFiniteSet(Lists)
  <2>1. Lists \in SUBSET Word
    BY DEF Lists
  <2> QED
    BY <2>1, ConfigAssumption, FS_Subset
<1>2. /\ q \in Seq(Lists) /\ Len(q) \in Nat /\ DOMAIN q = 1 .. Len(q)
      /\ \A i \in 1 .. Len(q) : q[i] \in Lists
      /\ \A x \in Lists : \E i \in 1 .. Len(q) : q[i] = x
  BY <1>1, Ordering
<1>3. Len(D) = Len(q) /\ Listed(D)
  BY <1>2 DEF Listed
<1>4. ASSUME NEW w \in Lists
      PROVE  /\ Listed(Held(Root, w)) /\ Held(Root, w) # <<>>
             /\ Held(Root, w)[1] \notin Long \cup {"+"}
             /\ w \in Word /\ HeldIn(Root)[w] = Held(Root, w)
  <2>1. w \in Word /\ w \in {"report", "graph-layout"}
    BY DEF Lists
  <2>2. DirectiveOf[w].form = "appended"
    <3>1. Known(w)
      BY <2>1, ConfigAssumption
    <3> QED
      BY <2>1, <3>1, FoundCorrect DEF Correct, WellPlaced
  <2>3. Listed(Held(Root, w))
    BY <2>1, <2>2 DEF Writable, Families, NodeKept, ValueKept
  <2>4. Held(Root, w) # <<>> /\ Held(Root, w)[1] \notin Long \cup {"+"}
    BY DEF Unreadable, Held
  <2> QED
    BY <2>1, <2>3, <2>4 DEF HeldIn
<1> DEFINE Done(k) == {q[i] : i \in 1 .. k}
<1>5. PICK b : b = [k \in 0 .. Len(q) |-> WithNode(s, Root, SetTo(e, Done(k), HeldIn(Root)))]
  OBVIOUS
<1>6. b[0] = s
  <2>1. Done(0) = {}
    OBVIOUS
  <2> HIDE DEF Done
  <2>2. b[0] = WithNode(s, Root, SetTo(e, {}, HeldIn(Root)))
    <3>1. 0 \in 0 .. Len(q)
      BY <1>2
    <3>2. b[0] = WithNode(s, Root, SetTo(e, Done(0), HeldIn(Root)))
      BY <1>5, <3>1
    <3> QED
      BY <2>1, <3>2
  <2>3. SetTo(e, {}, HeldIn(Root)) = e
    BY SetToIs
  <2>4. WithNode(s, Root, s.nodes[Root]) = s
    BY WithNodeIs
  <2> QED
    BY <2>2, <2>3, <2>4
<1>7. b[Len(q)] = WithNode(s, Root, SetTo(e, Lists, HeldIn(Root)))
  <2>1. Done(Len(q)) = Lists
    <3>1. Done(Len(q)) \subseteq Lists
      BY <1>2
    <3>2. \A x \in Lists : x \in Done(Len(q))
      BY <1>2
    <3> HIDE DEF Done
    <3> QED
      BY <3>1, <3>2
  <2> HIDE DEF Done
  <2> QED
    BY <1>2, <1>5, <2>1
<1>8. ASSUME NEW k \in 1 .. Len(D)
      PROVE  Listed(D[k]) /\ Leads(D[k], b[k - 1], b[k])
  <2>1. k \in 1 .. Len(q) /\ k \in DOMAIN q /\ k - 1 \in 0 .. Len(q) /\ k \in 0 .. Len(q)
    BY <1>2, <1>3
  <2>2. PICK w, v : w = q[k] /\ v = Held(Root, w) /\ D[k] = WriteVector(w, v) /\ w \in Lists
    BY <1>2, <2>1
  <2>3. Listed(v) /\ v # <<>> /\ v[1] \notin Long \cup {"+"} /\ w \in Word /\ HeldIn(Root)[w] = v
    BY <1>4, <2>2
  <2>4. Done(k) = Done(k - 1) \cup {w}
    <3>1. 1 .. k = (1 .. k - 1) \cup {k}
      BY <2>1
    <3> QED
      BY <2>2, <3>1
  <2> HIDE DEF Done
  <2>5. PICK N, f : N = Done(k - 1) /\ f = SetTo(e, N, HeldIn(Root))
    OBVIOUS
  <2>6. SetTo(e, N \cup {w}, HeldIn(Root)) = WithValue(f, w, v)
    BY <2>3, <2>5, SetToOn
  <2>7. b[k - 1] = WithNode(s, Root, f) /\ b[k] = WithNode(s, Root, WithValue(f, w, v))
    BY <1>5, <2>1, <2>4, <2>5, <2>6
  <2>8. PICK t : t = WithNode(s, Root, f)
    OBVIOUS
  <2>9. IsState(t) /\ t.at = Root /\ t.nodes[Root] = f /\ Root \in DOMAIN t.nodes
        /\ WithNode(t, Root, WithValue(f, w, v)) = WithNode(s, Root, WithValue(f, w, v))
    <3>1. /\ IsState(WithNode(s, Root, f)) /\ WithNode(s, Root, f).at = Root
          /\ WithNode(s, Root, f).nodes[Root] = f /\ Root \in DOMAIN WithNode(s, Root, f).nodes
      BY WithNodeIs
    <3>2. \A g : WithNode(WithNode(s, Root, f), Root, g) = WithNode(s, Root, g)
      BY WithNodeTwice
    <3> QED
      BY <2>8, <3>1, <3>2
  <2>10. IsNode(f)
    BY <2>5, SetToIs
  <2>11. Listed(WriteVector(w, v)) /\ Leads(WriteVector(w, v), t, WithNode(t, Root, WithValue(f, w, v)))
    <3>1. f = t.nodes[Root] /\ IsNode(f) /\ w \in Lists
      BY <2>2, <2>9, <2>10
    <3>2. Listed(v) /\ v # <<>> /\ v[1] \notin Long \cup {"+"}
      BY <2>3
    <3> QED
      BY <2>9, <3>1, <3>2, ListLeads
  <2> QED
    BY <2>2, <2>7, <2>8, <2>9, <2>11
<1> HIDE DEF Done
<1> QED
  BY <1>3, <1>6, <1>7, <1>8, Through

(* The devices.                                                                *)
WithDevices(s, d) == [nodes |-> s.nodes, devices |-> d, at |-> Root]

(* The lines that name the devices.                                           *)
LEMMA DevicesLead ==
  ASSUME IsFiniteSet(devices), NEW s, IsState(s), s.at = Root, s.devices = {},
         NEW q, q = SetToSeq(devices),
         NEW D, D = [i \in DOMAIN q |-> <<Row(Root, "device", <<q[i]>>)>>]
  PROVE  Listed(FlattenSeq(D)) /\ Leads(FlattenSeq(D), s, WithDevices(s, devices))
<1>1. /\ q \in Seq(devices) /\ Len(q) \in Nat /\ DOMAIN q = 1 .. Len(q)
      /\ \A i \in 1 .. Len(q) : q[i] \in devices
      /\ \A x \in devices : \E i \in 1 .. Len(q) : q[i] = x
  BY Ordering
<1>2. Len(D) = Len(q) /\ Listed(D)
  BY <1>1 DEF Listed
<1> DEFINE Done(k) == {q[i] : i \in 1 .. k}
<1>3. PICK b : b = [k \in 0 .. Len(q) |-> WithDevices(s, Done(k))]
  OBVIOUS
<1>4. b[0] = s
  <2>1. Done(0) = {}
    OBVIOUS
  <2> HIDE DEF Done
  <2>2. b[0] = WithDevices(s, {})
    BY <1>1, <1>3, <2>1
  <2> QED
    BY <2>2 DEF WithDevices, IsState
<1>5. b[Len(q)] = WithDevices(s, devices)
  <2>1. Done(Len(q)) = devices
    BY <1>1
  <2> HIDE DEF Done
  <2> QED
    BY <1>1, <1>3, <2>1
<1>6. /\ Known("device") /\ DirectiveOf["device"].form = "device"
      /\ DirectiveOf["device"].levels = {1}
      /\ DirectiveOf["device"].least = 1 /\ DirectiveOf["device"].most = 1
  <2>1. [word |-> "device", form |-> "device", least |-> 1, most |-> 1, levels |-> {1}, opens |-> 0]
          \in AllDirectives
    BY DEF AllDirectives, PlainDirectives, Directives
  <2>2. Known("device")
    BY <2>1 DEF Known, DirectiveOf
  <2> QED
    BY <2>2, FoundCorrect DEF Correct, WellPlaced, WellFormed
<1>7. ASSUME NEW k \in 1 .. Len(D)
      PROVE  Listed(D[k]) /\ Leads(D[k], b[k - 1], b[k])
  <2>1. k \in 1 .. Len(q) /\ k \in DOMAIN q /\ k - 1 \in 0 .. Len(q) /\ k \in 0 .. Len(q)
    BY <1>1, <1>2
  <2>2. PICK a, l : a = <<q[k]>> /\ l = Row(Root, "device", a)
    OBVIOUS
  <2>3. D[k] = <<l>> /\ Listed(D[k])
    BY <2>1, <2>2 DEF Listed
  <2>4. l = [indent |-> 4 * (Level(Root) - 1), word |-> "device", args |-> a]
    BY <2>2, RowIs
  <2>5. l.indent = 4 * (Level(Root) - 1) /\ l.word = "device" /\ l.args = a
        /\ Len(a) = 1 /\ a[1] = q[k]
    BY <2>2, <2>4
  <2>6. Within(Root, l)
    BY <1>6, <2>5 DEF Within, Checks, Overruns, Level
  <2>7. Done(k) = Done(k - 1) \cup {q[k]}
    <3>1. 1 .. k = (1 .. k - 1) \cup {k}
      BY <2>1
    <3> QED
      BY <3>1
  <2> HIDE DEF Done
  <2>8. PICK f, g : f = b[k - 1] /\ g = b[k]
    OBVIOUS
  <2>9. f = WithDevices(s, Done(k - 1)) /\ g = WithDevices(s, Done(k - 1) \cup {q[k]})
    BY <1>3, <2>1, <2>7, <2>8
  <2>10. TakesDevice(f, l, g)
    BY <1>6, <2>5, <2>6, <2>9 DEF TakesDevice, WithDevices
  <2>11. Leads(<<l>>, f, g)
    BY <2>10, LeadsOneLine DEF Takes
  <2> QED
    BY <2>3, <2>8, <2>11
<1> HIDE DEF Done
<1> QED
  BY <1>2, <1>4, <1>5, <1>7, Through

-----------------------------------------------------------------------------
(* What is not written is the same before the rows of a node are read.        *)
(* What a node that has been read again is like; and what it is before its own lines.     *)
Back(p, x) ==
  /\ IsNode(x) /\ x.backup = nodes[p].backup /\ x.prune = nodes[p].prune
  /\ \A w \in Word : LostHere(p, w) \/ x.set[w] = Held(p, w)

(* What may be set at a level has its place there.                              *)
LEMMA SettableIs ==
  ASSUME NEW p, NEW w \in Word, Settable(p, w)
  PROVE  \/ w \in WordsOfLevel(Level(p)) \/ w = "host-check"
         \/ Level(p) = 1 /\ w \in Lists
         \/ Level(p) = 3 /\ w = "exclude"
<1>1. PICK d, n : d = DirectiveOf[w] /\ n = Level(p)
  OBVIOUS
<1>2. Correct(d) /\ d.word = w
  BY <1>1, ConfigAssumption, FoundCorrect
<1>3. n \in 1 .. 3
  BY <1>1 DEF Level
<1>4. w = "host-check" \/ n \in d.levels
  BY <1>1 DEF Settable
<1>5. d.form \in ValueForms \cup {"appended", "exclude"}
  BY <1>1 DEF Settable
<1>6. d.form \in ValueForms /\ n \in d.levels => w \in WordsOfLevel(n)
  BY <1>2 DEF Correct, WellPlaced
<1>7. d.form = "appended" /\ n \in d.levels => n = 1 /\ w \in Lists
  BY <1>2, <1>3 DEF Correct, WellPlaced, WellFormed, Lists
<1>8. d.form = "exclude" /\ n \in d.levels => n = 3 /\ w = "exclude"
  BY <1>2, <1>3 DEF Correct, WellPlaced, WellFormed
<1> QED
  BY <1>1, <1>4, <1>5, <1>6, <1>7, <1>8

(* What is taken over may be set further inside, if it may be set further outside.       *)
LEMMA SettableInside ==
  ASSUME NEW p, NEW q, Level(p) <= Level(q), NEW w \in Word \cap Inherited, Settable(p, w)
  PROVE  Settable(q, w)
<1>1. Level(p) \in 1 .. 3 /\ Level(q) \in 1 .. 3
  BY DEF Level
<1>2. w \in WordsOfLevel(Level(p)) \/ w = "host-check"
  <2>1. w # "exclude" /\ w \notin {"report", "graph-layout"}
    BY InheritedIs DEF BaseWords
  <2> QED
    BY <2>1, SettableIs DEF Lists
<1>3. w \in BaseWords \cup {"host-check", "group", "devices"}
  <2>1. w \notin {"backup-parameter", "prune-parameter"}
    BY <1>1, <1>2 DEF WordsOfLevel, TopWords, HostWords, VolumeWords, BaseWords, GraphWords, Unwritten
  <2> QED
    BY <2>1, InheritedIs
<1>4. w = "host-check" \/ w \in WordsOfLevel(Level(q))
  <2>1. w = "devices" => Level(p) \in {2, 3}
    BY <1>1, <1>2 DEF WordsOfLevel, TopWords, BaseWords, GraphWords, Unwritten
  <2> QED
    BY <1>1, <1>3, <2>1 DEF WordsOfLevel, TopWords, HostWords, VolumeWords
<1>5. w = "host-check" \/ Level(q) \in DirectiveOf[w].levels
  <2>1. Correct(DirectiveOf[w]) /\ DirectiveOf[w].word = w
    BY ConfigAssumption, FoundCorrect
  <2>2. w # "host-check" => DirectiveOf[w].form \in ValueForms
    BY <1>1, <1>4, <2>1 DEF Correct, WellPlaced, WordsOfLevel
  <2> QED
    BY <1>1, <1>4, <2>1, <2>2 DEF Correct, WellPlaced
<1> QED
  BY <1>5 DEF Settable

(* The global node.                                                            *)
LEMMA InitiallyIs ==
  ASSUME NEW w \in Word
  PROVE  /\ w \in {"pre-device-hook", "post-device-hook", "pre-volume-hook",
                   "post-volume-hook", "exclude"} => Initially[w] = <<>>
         /\ w = "rsync-link-dest" => Initially[w] = <<"true">>
         /\ w \in {"backup-job-timeout", "rsync-io-timeout", "hook-timeout", "prune-timeout"}
              => Initially[w] = <<"0s">>
         /\ w \in {"database", "lock", "stylesheet", "rsync-remote", "user", "check-file"}
              => Initially[w] = <<"">>
BY ConfigAssumption DEF Initially

(* What may be set globally and is not written has its default.               *)
LEMMA RootUntold ==
  ASSUME Writable, NEW w \in Word \cap TopWords, w \notin Written(Root), ~ LostHere(Root, w)
  PROVE  Initially[w] = Held(Root, w)
<1>1. w \notin BaseWritten(Root) /\ w \notin GlobalWritten /\ w \notin GraphWords
  BY WrittenIs
<1>2. w \notin Unwritten /\ w # "group"
  BY DEF LostHere
<1>3. w \in {"backup-job-timeout", "rsync-io-timeout", "hook-timeout", "pre-volume-hook",
             "post-volume-hook", "rsync-link-dest", "rsync-remote", "database", "lock",
             "stylesheet", "pre-device-hook", "post-device-hook", "rm"}
  BY <1>1, <1>2 DEF TopWords, BaseWords, BaseWritten, GlobalWritten
<1>4. CASE w = "rm"
  BY <1>1, <1>4 DEF GlobalWritten
<1>5. CASE w \in {"backup-job-timeout", "rsync-io-timeout", "hook-timeout"}
  <2>1. Held(Root, w) = <<"0s">>
    BY <1>1, <1>5 DEF BaseWritten
  <2> QED
    BY <1>5, <2>1, InitiallyIs
<1>6. CASE w \in {"pre-volume-hook", "post-volume-hook"}
  <2>1. Held(Root, w) = <<>>
    BY <1>1, <1>6 DEF BaseWritten
  <2> QED
    BY <1>6, <2>1, InitiallyIs
<1>7. CASE w = "rsync-link-dest"
  <2>1. Held(Root, w) # <<"false">>
    BY <1>1, <1>7 DEF BaseWritten
  <2>2. Held(Root, w) \in Boolean
    <3>1. DirectiveOf[w].form = "boolean"
      <4>1. Known(w)
        BY ConfigAssumption
      <4> QED
        BY <1>7, <4>1, FoundCorrect DEF Correct, WellFormed
    <3>2. ValueKept(w, Held(Root, w))
      BY DEF Writable, Families, NodeKept
    <3>3. Settled(DirectiveOf[w], Held(Root, w))
      BY <1>7, <3>1, <3>2 DEF ValueKept, Assigned, DeviceHooks
    <3> QED
      BY <3>1, <3>3 DEF Settled, Reads, Value
  <2> QED
    BY <1>7, <2>1, <2>2, InitiallyIs DEF Boolean
<1>8. CASE w = "rsync-remote"
  <2>1. Held(Root, w) = <<"">>
    BY <1>1, <1>8 DEF BaseWritten
  <2> QED
    BY <1>8, <2>1, InitiallyIs
<1>9. CASE w \in {"database", "lock", "stylesheet"}
  <2>1. Held(Root, w) = <<"">>
    BY <1>1, <1>9 DEF GlobalWritten
  <2> QED
    BY <1>9, <2>1, InitiallyIs
<1>10. CASE w \in {"pre-device-hook", "post-device-hook"}
  <2>1. Held(Root, w) = <<>>
    BY <1>1, <1>10 DEF GlobalWritten
  <2> QED
    BY <1>10, <2>1, InitiallyIs
<1> QED
  BY <1>3, <1>4, <1>5, <1>6, <1>7, <1>8, <1>9, <1>10

(* The defaults are ready for the global rows.                                *)
LEMMA ReadyRoot ==
  ASSUME Writable
  PROVE  Ready(Root, GlobalNode)
<1>1. IsNode(GlobalNode)
  BY DEF GlobalNode, IsNode, Initially
<1>2. GlobalNode.backup = Its(Root, "backup-parameter") /\ GlobalNode.prune = Its(Root, "prune-parameter")
  BY DEF GlobalNode, Its
<1>3. ASSUME NEW w \in Word, w \notin Told(Root), ~ LostHere(Root, w), ~ Later(Root, w)
      PROVE  GlobalNode.set[w] = Held(Root, w)
  <2>1. GlobalNode.set[w] = Initially[w]
    BY DEF GlobalNode
  <2>2. Level(Root) = 1
    BY DEF Level
  <2>3. CASE Settable(Root, w)
    <3>1. w \in TopWords \/ w = "host-check"
      BY <1>3, <2>2, <2>3, SettableIs DEF WordsOfLevel, Later
    <3>2. w \notin Written(Root)
      BY <1>3, <2>3 DEF Told, Settable
    <3>3. w # "host-check"
      BY <3>2, WrittenIs DEF GlobalWritten
    <3> QED
      BY <1>3, <2>1, <3>1, <3>2, <3>3, RootUntold
  <2>4. CASE ~ Settable(Root, w)
    <3>1. Held(Root, w) = Default(Root, w)
      BY <2>4 DEF Writable, Families, NodeKept
    <3> QED
      BY <2>1, <2>2, <3>1 DEF Default
  <2> QED
    BY <2>3, <2>4
<1> QED
  BY <1>1, <1>2, <1>3, GlobalIs DEF Ready

(* What cannot be set in a node comes back with what the node around it has.              *)
LEMMA UnsettableBack ==
  ASSUME Writable, NEW p \in DOMAIN nodes, p # Root, NEW u \in DOMAIN nodes, u = Parent(p),
         NEW x, Back(u, x), NEW w \in Word \cap Inherited, w # "group" \/ HasVolume(p),
         ~ Settable(p, w), ~ LostHere(p, w)
  PROVE  x.set[w] = Held(p, w)
<1>1. Level(u) <= Level(p) /\ ~ HasVolume(u) /\ (HasVolume(p) => u # Root /\ u[1] = p[1])
  <2>1. CASE HasVolume(p)
    <3>1. u = HostOf(p)
      BY <2>1, ParentIs
    <3>2. HasHost(p)
      BY DEF Writable, Families
    <3> QED
      BY <2>1, <3>1, <3>2, HostIs DEF Level
  <2>2. CASE ~ HasVolume(p)
    <3>1. u = Root
      BY <2>2, ParentIs
    <3> QED
      BY <2>2, <3>1, GlobalIs DEF Level
  <2> QED
    BY <2>1, <2>2
<1>2. ~ Settable(u, w)
  BY <1>1, SettableInside
<1>3. Held(p, w) = Default(p, w) /\ Held(u, w) = Default(u, w)
  BY <1>2 DEF Writable, NodeKept
<1>4. w \notin Unwritten /\ w # "hostname"
  BY InheritedIs DEF Unwritten, BaseWords
<1>5. Held(p, w) = Held(u, w)
  <2>1. CASE w = "group"
    BY <1>1, <1>3, <2>1 DEF Default
  <2>2. CASE w # "group"
    BY <1>3, <1>4, <2>2 DEF Default
  <2> QED
    BY <2>1, <2>2
<1>6. ~ LostHere(u, w)
  BY <1>1, <1>4, <1>5 DEF LostHere
<1> QED
  BY <1>5, <1>6 DEF Back

(* What could be set in a node, and yet is not written, is what it would be if it were not.      *)
LEMMA Untold ==
  ASSUME Writable, NEW p \in DOMAIN nodes, p # Root, NEW w \in Word, w \notin Told(p),
         Settable(p, w), ~ LostHere(p, w), ~ (w = "exclude" /\ HasVolume(p))
  PROVE  \/ /\ w \in {"pre-volume-hook", "post-volume-hook", "rsync-link-dest"}
                  \/ (w = "group" /\ HasVolume(p))
            /\ Held(p, w) = Held(Parent(p), w)
         \/ w = "group" /\ ~ HasVolume(p) /\ Held(p, w) = <<p[1]>>
         \/ w \in {"user", "check-file"} /\ Held(p, w) = Initially[w]
<1>1. w \notin Written(p)
  BY DEF Told, Settable
<1>2. Level(p) = IF HasVolume(p) THEN 3 ELSE 2
  BY DEF Level
<1>3. w \in WordsOfLevel(Level(p)) \/ w = "host-check"
  BY <1>2, SettableIs
<1>4. w \notin BaseWritten(p)
      /\ (HasVolume(p) => w \notin VolumeWritten(p))
      /\ (~ HasVolume(p) => w \notin HostWritten(p))
  BY <1>1, WrittenIs
<1>5. CASE w \in BaseWords
  <2>1. w \notin {"backup-job-timeout", "rsync-io-timeout", "hook-timeout", "rsync-remote"}
    BY <1>4 DEF LostHere, BaseWritten
  <2>2. w \in {"pre-volume-hook", "post-volume-hook", "rsync-link-dest"}
    BY <1>4, <1>5, <2>1 DEF BaseWritten, BaseWords
  <2>3. ~ Differs(p, w)
    BY <1>4, <2>2 DEF BaseWritten
  <2> QED
    BY <2>2, <2>3 DEF Differs
<1>6. CASE w \notin BaseWords /\ HasVolume(p)
  <2>1. w \in {"group", "check-file"}
    <3>1. w \in {"traverse", "check-mounted", "group", "devices", "check-file", "host-check"}
      BY <1>2, <1>3, <1>6 DEF WordsOfLevel, VolumeWords
    <3>2. w # "devices"
      BY <1>4, <1>6 DEF VolumeWritten, LostHere
    <3> QED
      BY <1>4, <1>6, <3>1, <3>2 DEF VolumeWritten, LostHere
  <2>2. CASE w = "group"
    <3>1. ~ Differs(p, w)
      BY <1>4, <1>6, <2>2 DEF VolumeWritten
    <3> QED
      BY <1>6, <2>2, <3>1 DEF Differs
  <2>3. CASE w = "check-file"
    <3>1. Held(p, w) = <<"">>
      BY <1>4, <1>6, <2>3 DEF VolumeWritten
    <3> QED
      BY <2>3, <3>1, InitiallyIs
  <2> QED
    BY <2>1, <2>2, <2>3
<1>7. CASE w \notin BaseWords /\ ~ HasVolume(p)
  <2>1. w \in {"group", "user"}
    <3>1. w \in {"hostname", "priority", "host-check", "group", "user", "devices"}
      BY <1>2, <1>3, <1>7 DEF WordsOfLevel, HostWords
    <3>2. w # "devices"
      BY <1>4, <1>7 DEF HostWritten, LostHere
    <3> QED
      BY <1>4, <1>7, <3>1, <3>2 DEF HostWritten
  <2>2. CASE w = "group"
    <3>1. Held(p, w) = <<p[1]>>
      BY <1>4, <1>7, <2>2 DEF HostWritten
    <3> QED
      BY <1>7, <2>2, <3>1
  <2>3. CASE w = "user"
    <3>1. Held(p, w) = <<"">>
      BY <1>4, <1>7, <2>3 DEF HostWritten
    <3> QED
      BY <2>3, <3>1, InitiallyIs
  <2> QED
    BY <2>1, <2>2, <2>3
<1> QED
  BY <1>5, <1>6, <1>7

(* The words a node takes over are none of those of its own.                        *)
LEMMA NotInherited ==
  /\ {"user", "check-file", "hostname", "exclude"} \cap Inherited = {}
  /\ {"pre-volume-hook", "post-volume-hook", "rsync-link-dest", "group"} \subseteq Inherited
BY InheritedIs DEF BaseWords

(* What comes back of the node around it, where it is written only if it differs.         *)
LEMMA SameBack ==
  ASSUME NEW u, NEW x, Back(u, x), NEW w \in Word,
         w \in {"pre-volume-hook", "post-volume-hook", "rsync-link-dest"}
           \/ (w = "group" /\ u # Root)
  PROVE  x.set[w] = Held(u, w)
BY DEF Back, LostHere, Unwritten

(* What a host line makes is ready for the rows of that host; and a volume line, for those
   of its volume.                                                             *)
LEMMA ReadyHost ==
  ASSUME Writable, NEW x, Back(Root, x), NEW p \in DOMAIN nodes, p # Root, ~ HasVolume(p)
  PROVE  Ready(p, HostNode(p[1], x))
<1> DEFINE e == HostNode(p[1], x)
<1>1. Parent(p) = Root /\ Root \in DOMAIN nodes
  BY ParentIs DEF Writable, Families
<1>2. /\ e = [set |-> e.set, backup |-> x.backup, prune |-> x.prune]
      /\ e.set = [w \in Word |-> IF w \in {"group", "hostname"} THEN <<p[1]>>
                                 ELSE IF w \in Inherited THEN x.set[w] ELSE Initially[w]]
  <2>1. x = [set |-> x.set, backup |-> x.backup, prune |-> x.prune]
    BY DEF Back, IsNode
  <2> QED
    BY <2>1 DEF HostNode
<1>3. IsNode(e)
  BY <1>2 DEF IsNode
<1>4. e.backup = Its(p, "backup-parameter") /\ e.prune = Its(p, "prune-parameter")
  BY <1>1, <1>2 DEF Its, Back, Parameters
<1>5. ASSUME NEW w \in Word, w \notin Told(p), ~ LostHere(p, w)
      PROVE  e.set[w] = Held(p, w)
  <2>1. CASE Settable(p, w)
    <3>1. \/ /\ w \in {"pre-volume-hook", "post-volume-hook", "rsync-link-dest"}
             /\ Held(p, w) = Held(Root, w)
          \/ w = "group" /\ Held(p, w) = <<p[1]>>
          \/ w \in {"user", "check-file"} /\ Held(p, w) = Initially[w]
      BY <1>1, <1>5, <2>1, Untold
    <3>2. CASE w \in {"pre-volume-hook", "post-volume-hook", "rsync-link-dest"}
      <4>1. x.set[w] = Held(Root, w)
        BY <3>2, SameBack
      <4> QED
        BY <1>2, <3>1, <3>2, <4>1, NotInherited
    <3>3. CASE w = "group"
      BY <1>2, <3>1, <3>3
    <3>4. CASE w \in {"user", "check-file"}
      BY <1>2, <3>1, <3>4, NotInherited
    <3> QED
      BY <3>1, <3>2, <3>3, <3>4
  <2>2. CASE ~ Settable(p, w)
    <3>1. CASE w \in {"group", "hostname"}
      <4>1. Held(p, w) = Default(p, w) /\ Level(p) = 2
        BY <2>2 DEF Writable, NodeKept, Level
      <4> QED
        BY <1>2, <3>1, <4>1 DEF Default
    <3>2. CASE w \notin {"group", "hostname"} /\ w \in Inherited
      <4>1. x.set[w] = Held(p, w)
        BY <1>1, <1>5, <2>2, <3>2, UnsettableBack
      <4> QED
        BY <1>2, <3>2, <4>1
    <3>3. CASE w \notin {"group", "hostname"} /\ w \notin Inherited
      <4>1. Held(p, w) = Default(p, w)
        BY <2>2 DEF Writable, NodeKept
      <4> QED
        BY <1>2, <3>3, <4>1 DEF Default
    <3> QED
      BY <3>1, <3>2, <3>3
  <2> QED
    BY <2>1, <2>2
<1> HIDE DEF e
<1>6. Ready(p, e)
  BY <1>3, <1>4, <1>5 DEF Ready
<1> QED
  BY <1>6 DEF e

LEMMA ReadyVolume ==
  ASSUME Writable, NEW p \in DOMAIN nodes, HasVolume(p), NEW x, Back(HostOf(p), x)
  PROVE  Ready(p, VolumeNode(x))
<1> DEFINE e == VolumeNode(x)
<1>1. /\ p # Root /\ Parent(p) = HostOf(p) /\ HostOf(p) \in DOMAIN nodes /\ HostOf(p) # Root
  <2>1. p # Root
    BY GlobalIs
  <2> QED
    BY <2>1, ParentIs, HostIs DEF Writable, Families
<1>2. /\ e = [set |-> e.set, backup |-> x.backup, prune |-> x.prune]
      /\ e.set = [w \in Word |-> IF w \in Inherited THEN x.set[w] ELSE Initially[w]]
  <2>1. x = [set |-> x.set, backup |-> x.backup, prune |-> x.prune]
    BY DEF Back, IsNode
  <2> QED
    BY <2>1 DEF VolumeNode
<1>3. IsNode(e)
  BY <1>2 DEF IsNode
<1>4. e.backup = Its(p, "backup-parameter") /\ e.prune = Its(p, "prune-parameter")
  BY <1>1, <1>2 DEF Its, Back, Parameters
<1>5. ASSUME NEW w \in Word, w \notin Told(p), ~ LostHere(p, w), w # "exclude"
      PROVE  e.set[w] = Held(p, w)
  <2>1. CASE Settable(p, w)
    <3>1. \/ /\ w \in {"pre-volume-hook", "post-volume-hook", "rsync-link-dest", "group"}
             /\ Held(p, w) = Held(HostOf(p), w)
          \/ w \in {"user", "check-file"} /\ Held(p, w) = Initially[w]
      BY <1>1, <1>5, <2>1, Untold
    <3>2. CASE w \in {"pre-volume-hook", "post-volume-hook", "rsync-link-dest", "group"}
      <4>1. x.set[w] = Held(HostOf(p), w)
        BY <1>1, <3>2, SameBack
      <4> QED
        BY <1>2, <3>1, <3>2, <4>1, NotInherited
    <3>3. CASE w \in {"user", "check-file"}
      BY <1>2, <3>1, <3>3, NotInherited
    <3> QED
      BY <3>1, <3>2, <3>3
  <2>2. CASE ~ Settable(p, w)
    <3>1. CASE w \in Inherited
      <4>1. x.set[w] = Held(p, w)
        BY <1>1, <1>5, <2>2, <3>1, UnsettableBack
      <4> QED
        BY <1>2, <3>1, <4>1
    <3>2. CASE w \notin Inherited
      <4>1. Held(p, w) = Default(p, w)
        BY <2>2 DEF Writable, NodeKept
      <4>2. Level(p) = 3
        BY <1>1 DEF Level
      <4>3. w # "group"
        BY <3>2, NotInherited
      <4> QED
        BY <1>2, <3>2, <4>1, <4>2, <4>3 DEF Default
    <3> QED
      BY <3>1, <3>2
  <2> QED
    BY <2>1, <2>2
<1>6. "exclude" \in Word => e.set["exclude"] = <<>>
  BY <1>2, NotInherited, InitiallyIs
<1> HIDE DEF e
<1>7. Ready(p, e)
  BY <1>3, <1>4, <1>5, <1>6 DEF Ready
<1> QED
  BY <1>7 DEF e

(* The reader at its beginning; and once it has read what is written before the stanzas.        *)
Start == [nodes |-> [q \in {Root} |-> GlobalNode], devices |-> {}, at |-> Root]

GlobalState(x, d) == [nodes |-> [q \in {Root} |-> x], devices |-> d, at |-> Root]

(* The reader, while it has read no stanza.                                   *)
LEMMA GlobalStateIs ==
  ASSUME NEW x, NEW d, NEW s, s = GlobalState(x, d)
  PROVE  /\ IsState(s) /\ s.at = Root /\ Root \in DOMAIN s.nodes /\ s.nodes[Root] = x
         /\ s.devices = d
         /\ \A y : WithNode(s, Root, y) = GlobalState(y, d)
         /\ \A f : WithDevices(s, f) = GlobalState(x, f)
BY DEF GlobalState, IsState, WithNode, WithDevices

(* What is written of the global node, the devices and the lists.                       *)
GlobalScript ==
  Rows(Root)
    \o FlattenSeq([i \in DOMAIN SetToSeq(devices) |->
                     <<Row(Root, "device", <<SetToSeq(devices)[i]>>)>>])
    \o FlattenSeq([i \in DOMAIN SetToSeq(Lists) |->
                     WriteVector(SetToSeq(Lists)[i], Held(Root, SetToSeq(Lists)[i]))])

(* With its lists, the global node is back.                                   *)
LEMMA ListsBack ==
  ASSUME NEW y, Regained(Root, GlobalNode, y), NEW x, x = SetTo(y, Lists, HeldIn(Root))
  PROVE  Back(Root, x)
<1>1. IsNode(y) /\ y.backup = nodes[Root].backup /\ y.prune = nodes[Root].prune
  BY DEF Regained
<1>2. /\ IsNode(x) /\ x.backup = y.backup /\ x.prune = y.prune
      /\ \A w \in Word : x.set[w] = IF w \in Lists THEN HeldIn(Root)[w] ELSE y.set[w]
  BY <1>1, SetToIs
<1>3. ASSUME NEW w \in Word, ~ LostHere(Root, w)
      PROVE  x.set[w] = Held(Root, w)
  <2>1. CASE w \in Lists
    BY <1>2, <2>1 DEF HeldIn
  <2>2. CASE w \notin Lists
    BY <1>2, <1>3, <2>2 DEF Regained, Later
  <2> QED
    BY <2>1, <2>2
<1> QED
  BY <1>1, <1>2, <1>3 DEF Back

(* All that is written before the first stanza.                               *)
LEMMA GlobalLeads ==
  ASSUME Writable, ~ Unreadable(nodes)
  PROVE  Listed(GlobalScript)
         /\ \E x : Back(Root, x) /\ Leads(GlobalScript, Start, GlobalState(x, devices))
<1>1. PICK A : A = Rows(Root)
  OBVIOUS
<1>2. PICK B : B = FlattenSeq([i \in DOMAIN SetToSeq(devices) |->
                                 <<Row(Root, "device", <<SetToSeq(devices)[i]>>)>>])
  OBVIOUS
<1>3. PICK C : C = FlattenSeq([i \in DOMAIN SetToSeq(Lists) |->
                     WriteVector(SetToSeq(Lists)[i], Held(Root, SetToSeq(Lists)[i]))])
  OBVIOUS
<1>4. GlobalScript = (A \o B) \o C
  BY <1>1, <1>2, <1>3 DEF GlobalScript
<1>5. Ready(Root, GlobalNode) /\ Root \in DOMAIN nodes
  BY ReadyRoot DEF Writable, Families
<1>6. PICK y : LeadsNode(A, Root, GlobalNode, y) /\ Regained(Root, GlobalNode, y)
  BY <1>1, <1>5, RowsLead
<1>7. Listed(A)
  BY <1>1, <1>5, RowsLead
<1>8. PICK s : s = GlobalState(GlobalNode, {})
  OBVIOUS
<1>9. Start = s
  BY <1>8 DEF Start, GlobalState
<1>10. PICK t : t = GlobalState(y, {})
  OBVIOUS
<1>11. Leads(A, s, t)
  <2>1. /\ IsState(s) /\ s.at = Root /\ Root \in DOMAIN s.nodes /\ s.nodes[Root] = GlobalNode
        /\ WithNode(s, Root, y) = t
    BY <1>8, <1>10, GlobalStateIs
  <2>2. Len(A) \in Nat
    BY <1>7 DEF Listed
  <2> QED
    BY <1>6, <2>1, <2>2, NodeLeads
<1>12. PICK u : u = GlobalState(y, devices)
  OBVIOUS
<1>13. Listed(B) /\ Leads(B, t, u)
  <2>1. IsState(t) /\ t.at = Root /\ t.devices = {} /\ WithDevices(t, devices) = u
    BY <1>10, <1>12, GlobalStateIs
  <2>2. IsFiniteSet(devices)
    BY DEF Writable
  <2> QED
    BY <1>2, <2>1, <2>2, DevicesLead
<1>14. PICK x : x = SetTo(y, Lists, HeldIn(Root))
  OBVIOUS
<1>15. Listed(C) /\ Leads(C, u, GlobalState(x, devices))
  <2>1. /\ IsState(u) /\ u.at = Root /\ Root \in DOMAIN u.nodes /\ u.nodes[Root] = y
        /\ WithNode(u, Root, x) = GlobalState(x, devices)
    BY <1>12, GlobalStateIs
  <2>2. IsNode(y)
    BY <1>6 DEF Regained
  <2> QED
    BY <1>3, <1>14, <2>1, <2>2, ListsLead
<1>16. Leads(A \o B, s, u) /\ Listed(A \o B)
  BY <1>7, <1>11, <1>13, Join
<1>17. Leads((A \o B) \o C, s, GlobalState(x, devices)) /\ Listed((A \o B) \o C)
  BY <1>15, <1>16, Join
<1>18. Back(Root, x)
  BY <1>6, <1>14, ListsBack
<1> QED
  BY <1>4, <1>9, <1>17, <1>18

-----------------------------------------------------------------------------
(* What the nodes are read as, given what the global one is.                        *)
HostBack(b, x0) ==
  CHOOSE x : LeadsNode(Rows(b), b, HostNode(b[1], x0), x) /\ Back(b, x)

VolumeBack(p, x0) ==
  CHOOSE x : LeadsNode(Rows(p), p, VolumeNode(HostBack(HostOf(p), x0)), x) /\ Back(p, x)

NodeBack(p, x0) ==
  IF p = Root THEN x0 ELSE IF HasVolume(p) THEN VolumeBack(p, x0) ELSE HostBack(p, x0)

NewNode(p, x0) ==
  IF HasVolume(p) THEN VolumeNode(NodeBack(HostOf(p), x0)) ELSE HostNode(p[1], x0)

(* What the rows of a host or a volume give back is what it was.              *)
LEMMA RowsBack ==
  ASSUME Writable, ~ Unreadable(nodes), NEW p \in DOMAIN nodes, p # Root, NEW e, Ready(p, e)
  PROVE  Listed(Rows(p)) /\ \E x : LeadsNode(Rows(p), p, e, x) /\ Back(p, x)
<1>1. PICK x : LeadsNode(Rows(p), p, e, x) /\ Regained(p, e, x)
  BY RowsLead
<1>2. Back(p, x)
  BY <1>1 DEF Regained, Back, Later
<1> QED
  BY <1>1, <1>2, RowsLead

(* What hosts and volumes are read as is well chosen.                         *)
LEMMA HostBackIs ==
  ASSUME Writable, ~ Unreadable(nodes), NEW x0, Back(Root, x0), NEW p \in DOMAIN nodes, p # Root,
         ~ HasVolume(p)
  PROVE  /\ Listed(Rows(p)) /\ Back(p, HostBack(p, x0))
         /\ LeadsNode(Rows(p), p, HostNode(p[1], x0), HostBack(p, x0))
<1>1. Ready(p, HostNode(p[1], x0))
  BY ReadyHost
<1>2. \E x : LeadsNode(Rows(p), p, HostNode(p[1], x0), x) /\ Back(p, x)
  BY <1>1, RowsBack
<1>3. Listed(Rows(p))
  BY <1>1, RowsBack
<1> QED
  BY <1>2, <1>3 DEF HostBack

LEMMA NodeBackIs ==
  ASSUME Writable, ~ Unreadable(nodes), NEW x0, Back(Root, x0), NEW p \in DOMAIN nodes
  PROVE  /\ Back(p, NodeBack(p, x0))
         /\ p # Root => Listed(Rows(p)) /\ LeadsNode(Rows(p), p, NewNode(p, x0), NodeBack(p, x0))
<1>1. CASE p = Root
  BY <1>1 DEF NodeBack
<1>2. CASE p # Root /\ ~ HasVolume(p)
  BY <1>2, HostBackIs DEF NodeBack, NewNode
<1>3. CASE p # Root /\ HasVolume(p)
  <2>1. PICK b : b = HostOf(p)
    OBVIOUS
  <2>2. b \in DOMAIN nodes /\ b # Root /\ ~ HasVolume(b)
    BY <1>3, <2>1, HostIs DEF Writable, Families
  <2>3. Back(b, HostBack(b, x0)) /\ NodeBack(b, x0) = HostBack(b, x0)
    BY <2>2, HostBackIs DEF NodeBack
  <2>4. PICK e : e = VolumeNode(HostBack(b, x0))
    OBVIOUS
  <2>5. Ready(p, e)
    BY <1>3, <2>1, <2>3, <2>4, ReadyVolume
  <2>6. \E x : LeadsNode(Rows(p), p, e, x) /\ Back(p, x)
    BY <1>3, <2>5, RowsBack
  <2>7. Listed(Rows(p))
    BY <1>3, <2>5, RowsBack
  <2>8. LeadsNode(Rows(p), p, e, VolumeBack(p, x0)) /\ Back(p, VolumeBack(p, x0))
    BY <2>1, <2>4, <2>6 DEF VolumeBack
  <2>9. NewNode(p, x0) = e
    BY <1>3, <2>1, <2>3, <2>4 DEF NewNode
  <2> QED
    BY <1>3, <2>7, <2>8, <2>9 DEF NodeBack
<1> QED
  BY <1>1, <1>2, <1>3

-----------------------------------------------------------------------------
(* Stanzas.                                                                   *)
BackState(D, p, x0) ==
  [nodes |-> [q \in D |-> NodeBack(q, x0)], devices |-> devices, at |-> p]

(* The reader, once it has read some nodes.                                   *)
LEMMA BackStateIs ==
  ASSUME NEW D, NEW p, NEW x0, NEW s, s = BackState(D, p, x0)
  PROVE  /\ IsState(s) /\ s.at = p /\ DOMAIN s.nodes = D /\ s.devices = devices
         /\ \A q \in D : s.nodes[q] = NodeBack(q, x0)
BY DEF BackState, IsState

(* A node that begins has nothing of its own yet.                                    *)
LEMMA StanzaSets ==
  ASSUME NEW D, NEW a, NEW x0, NEW p, p \notin D, NEW s, s = BackState(D, a, x0),
         NEW e, NEW t, t = [nodes |-> With(s.nodes, p, e), devices |-> s.devices, at |-> p],
         NEW R, Listed(R), LeadsNode(R, p, e, NodeBack(p, x0))
  PROVE  Leads(R, t, BackState(D \cup {p}, p, x0))
<1>1. t = [nodes |-> [q \in D \cup {p} |-> IF q = p THEN e ELSE NodeBack(q, x0)],
           devices |-> devices, at |-> p]
  BY DEF With, BackState
<1>2. IsState(t) /\ t.at = p /\ p \in DOMAIN t.nodes /\ t.nodes[p] = e
  BY <1>1 DEF IsState
<1>3. Len(R) \in Nat
  BY DEF Listed
<1>4. Leads(R, t, WithNode(t, p, NodeBack(p, x0)))
  BY <1>2, <1>3, NodeLeads
<1>5. WithNode(t, p, NodeBack(p, x0)) = BackState(D \cup {p}, p, x0)
  BY <1>1 DEF WithNode, BackState
<1> QED
  BY <1>4, <1>5

(* A node is its two names.                                                   *)
LEMMA NameIs ==
  ASSUME Writable, NEW p \in DOMAIN nodes
  PROVE  /\ p = <<p[1], p[2]>> /\ p \in Names \X Names
         /\ ~ HasVolume(p) => p = <<p[1], "">>
<1>1. p \in Names \X Names
  BY DEF Writable, NodesTyped
<1>2. PICK m, n \in Names : p = <<m, n>>
  BY <1>1
<1> QED
  BY <1>1, <1>2 DEF HasVolume

(* The line that begins a host, and the one that begins a volume.             *)
LEMMA HostLineTaken ==
  ASSUME Writable, NEW p \in DOMAIN nodes, p # Root, ~ HasVolume(p),
         NEW D, Root \in D, p \notin D, NEW a, NEW x0, NEW s, s = BackState(D, a, x0),
         NEW l, l = [indent |-> 0, word |-> "host", args |-> <<p[1]>>],
         NEW t, t = [nodes |-> With(s.nodes, p, HostNode(p[1], x0)), devices |-> s.devices, at |-> p]
  PROVE  Leads(<<l>>, s, t)
<1>1. PICK h : h = p[1]
  OBVIOUS
<1>2. h \in HostName /\ p = <<h, "">>
  BY <1>1, NameIs DEF Writable, NodesNamed
<1>3. s.nodes[Root] = x0 /\ DOMAIN s.nodes = D
  BY BackStateIs DEF NodeBack
<1>4. l.indent = 0 /\ l.word = "host" /\ l.args = <<h>>
  BY <1>1
<1>5. t = [nodes |-> With(s.nodes, <<h, "">>, HostNode(h, s.nodes[Root])), devices |-> s.devices,
           at |-> <<h, "">>]
  BY <1>1, <1>2, <1>3
<1>6. <<h, "">> \notin DOMAIN s.nodes
  BY <1>2, <1>3
<1>7. TakesHost(s, l, t)
  BY <1>2, <1>4, <1>5, <1>6 DEF TakesHost
<1> QED
  BY <1>7, LeadsOneLine DEF Takes

LEMMA VolumeLineTaken ==
  ASSUME Writable, NEW p \in DOMAIN nodes, HasVolume(p),
         NEW D, HostOf(p) \in D, p \notin D, NEW a, a[1] = p[1], NEW x0,
         NEW s, s = BackState(D, a, x0),
         NEW l, l = [indent |-> 4, word |-> "volume", args |-> <<p[2], "path">>],
         NEW t, t = [nodes |-> With(s.nodes, p, VolumeNode(NodeBack(HostOf(p), x0))),
                     devices |-> s.devices, at |-> p]
  PROVE  Leads(<<l>>, s, t)
<1>1. PICK h, v : h = p[1] /\ v = p[2]
  OBVIOUS
<1>2. h \in HostName /\ v \in VolumeName /\ p = <<h, v>> /\ HostOf(p) = <<h, "">>
  <2>1. p # Root
    BY GlobalIs
  <2>2. p = <<h, v>> /\ HostOf(p) = <<h, "">>
    BY <1>1, NameIs DEF HostOf
  <2>3. h \in HostName /\ v \in VolumeName
    BY <1>1, <2>1 DEF Writable, NodesNamed
  <2> QED
    BY <2>2, <2>3
<1>3. s.nodes[<<h, "">>] = NodeBack(HostOf(p), x0) /\ DOMAIN s.nodes = D /\ s.at = a
  <2>1. PICK b : b = HostOf(p)
    OBVIOUS
  <2>2. s.nodes[b] = NodeBack(b, x0) /\ DOMAIN s.nodes = D /\ s.at = a
    BY <2>1, BackStateIs
  <2> QED
    BY <1>2, <2>1, <2>2
<1>4. l.indent = 4 /\ l.word = "volume" /\ l.args = <<v, "path">>
  BY <1>1
<1>5. t = [nodes |-> With(s.nodes, <<h, v>>, VolumeNode(s.nodes[<<h, "">>])),
           devices |-> s.devices, at |-> <<h, v>>]
  BY <1>2, <1>3
<1>6. <<h, v>> \notin DOMAIN s.nodes /\ s.at[1] = h
  BY <1>1, <1>2, <1>3
<1>7. TakesVolume(s, l, t)
  BY <1>2, <1>4, <1>5, <1>6 DEF TakesVolume
<1> QED
  BY <1>7, LeadsOneLine DEF Takes

(* One line is a listed sequence.                                             *)
LEMMA OneListed ==
  ASSUME NEW l
  PROVE  Listed(<<l>>)
BY DEF Listed

(* A stanza adds its node to those read, and changes none of the others.      *)
LEMMA StanzaLeads ==
  ASSUME Writable, ~ Unreadable(nodes), NEW x0, Back(Root, x0), NEW p \in DOMAIN nodes, p # Root,
         NEW D, Root \in D, p \notin D, NEW a,
         HasVolume(p) => HostOf(p) \in D /\ a[1] = p[1]
  PROVE  /\ Listed(Stanza(p))
         /\ Leads(Stanza(p), BackState(D, a, x0), BackState(D \cup {p}, p, x0))
<1>1. PICK s, e : s = BackState(D, a, x0) /\ e = NewNode(p, x0)
  OBVIOUS
<1>2. PICK t : t = [nodes |-> With(s.nodes, p, e), devices |-> s.devices, at |-> p]
  OBVIOUS
<1>3. Listed(Rows(p)) /\ LeadsNode(Rows(p), p, e, NodeBack(p, x0))
  BY <1>1, NodeBackIs
<1>4. Leads(Rows(p), t, BackState(D \cup {p}, p, x0))
  BY <1>1, <1>2, <1>3, StanzaSets
<1>5. \E l : Stanza(p) = <<l>> \o Rows(p) /\ Leads(<<l>>, s, t)
  <2>1. CASE HasVolume(p)
    <3>1. PICK l : l = [indent |-> 4, word |-> "volume", args |-> <<p[2], "path">>]
      OBVIOUS
    <3>2. e = VolumeNode(NodeBack(HostOf(p), x0))
      BY <1>1, <2>1 DEF NewNode
    <3>3. Leads(<<l>>, s, t)
      BY <1>1, <1>2, <2>1, <3>1, <3>2, VolumeLineTaken
    <3>4. Stanza(p) = <<l>> \o Rows(p)
      BY <2>1, <3>1 DEF Stanza, HasVolume
    <3> QED
      BY <3>3, <3>4
  <2>2. CASE ~ HasVolume(p)
    <3>1. PICK l : l = [indent |-> 0, word |-> "host", args |-> <<p[1]>>]
      OBVIOUS
    <3>2. e = HostNode(p[1], x0)
      BY <1>1, <2>2 DEF NewNode
    <3>3. Leads(<<l>>, s, t)
      BY <1>1, <1>2, <2>2, <3>1, <3>2, HostLineTaken
    <3>4. Stanza(p) = <<l>> \o Rows(p)
      BY <2>2, <3>1 DEF Stanza, HasVolume
    <3> QED
      BY <3>3, <3>4
  <2> QED
    BY <2>1, <2>2
<1>6. PICK l : Stanza(p) = <<l>> \o Rows(p) /\ Leads(<<l>>, s, t)
  BY <1>5
<1>7. Leads(<<l>> \o Rows(p), s, BackState(D \cup {p}, p, x0)) /\ Listed(<<l>> \o Rows(p))
  BY <1>3, <1>4, <1>6, OneListed, Join
<1> QED
  BY <1>1, <1>6, <1>7

VolumesOf(h) == {p \in Volumes : p[1] = h}

Family(h) == {p \in DOMAIN nodes : p[1] = h}

LastOf(h) ==
  LET q == SetToSeq(VolumesOf(h)) IN IF Len(q) = 0 THEN <<h, "">> ELSE q[Len(q)]

(* The nodes of a host: itself and its volumes.                               *)
LEMMA FamilyIs ==
  ASSUME Writable, NEW h \in Hosts, NEW b, b = <<h, "">>
  PROVE  /\ b \in DOMAIN nodes /\ b # Root /\ ~ HasVolume(b) /\ b[1] = h
         /\ Family(h) = VolumesOf(h) \cup {b}
         /\ IsFiniteSet(VolumesOf(h))
         /\ \A p \in VolumesOf(h) : /\ p \in DOMAIN nodes /\ HasVolume(p) /\ HostOf(p) = b
                                    /\ p # b /\ p # Root /\ p[1] = h
<1>1. h \in HostName /\ h # "" /\ b \in DOMAIN nodes
  BY ConfigAssumption DEF Hosts
<1>2. b[1] = h /\ b[2] = "" /\ ~ HasVolume(b)
  BY DEF HasVolume
<1>3. b # Root
  BY <1>1, <1>2 DEF Root
<1>4. ASSUME NEW p \in VolumesOf(h)
      PROVE  /\ p \in DOMAIN nodes /\ HasVolume(p) /\ HostOf(p) = b /\ p # b /\ p # Root
             /\ p[1] = h
  <2>1. p \in DOMAIN nodes /\ HasVolume(p) /\ p[1] = h
    BY DEF VolumesOf, Volumes, HasVolume
  <2> QED
    BY <1>2, <2>1, GlobalIs DEF HostOf
<1>5. VolumesOf(h) \subseteq DOMAIN nodes
  BY <1>4
<1>6. IsFiniteSet(VolumesOf(h))
  BY <1>5, FS_Subset DEF Writable
<1>7. ASSUME NEW p \in Family(h)
      PROVE  p \in VolumesOf(h) \cup {b}
  <2>1. p \in DOMAIN nodes /\ p[1] = h
    BY DEF Family
  <2>2. CASE HasVolume(p)
    BY <2>1, <2>2 DEF VolumesOf, Volumes, HasVolume
  <2>3. CASE ~ HasVolume(p)
    <3>1. p = <<p[1], "">>
      BY <2>1, <2>3, NameIs
    <3> QED
      BY <2>1, <3>1
  <2> QED
    BY <2>2, <2>3
<1>8. VolumesOf(h) \cup {b} \subseteq Family(h)
  BY <1>1, <1>2, <1>4 DEF Family
<1> QED
  BY <1>1, <1>2, <1>3, <1>4, <1>6, <1>7, <1>8

(* The stanzas of a host and its volumes.                                     *)
LEMMA HostStanzasLead ==
  ASSUME Writable, ~ Unreadable(nodes), NEW x0, Back(Root, x0), NEW h \in Hosts,
         NEW D, Root \in D, \A p \in D : p[1] # h, NEW a
  PROVE  /\ Listed(HostStanzas(h))
         /\ Leads(HostStanzas(h), BackState(D, a, x0), BackState(D \cup Family(h), LastOf(h), x0))
<1>1. PICK b : b = <<h, "">>
  OBVIOUS
<1>2. /\ b \in DOMAIN nodes /\ b # Root /\ ~ HasVolume(b) /\ b[1] = h
      /\ Family(h) = VolumesOf(h) \cup {b}
      /\ IsFiniteSet(VolumesOf(h))
  BY <1>1, FamilyIs
<1>3. \A p \in VolumesOf(h) : /\ p \in DOMAIN nodes /\ HasVolume(p) /\ HostOf(p) = b
                              /\ p # b /\ p # Root /\ p[1] = h
  BY <1>1, FamilyIs
<1>4. PICK q : q = SetToSeq(VolumesOf(h))
  OBVIOUS
<1>5. /\ q \in Seq(VolumesOf(h)) /\ Len(q) \in Nat /\ DOMAIN q = 1 .. Len(q)
      /\ \A i \in 1 .. Len(q) : q[i] \in VolumesOf(h)
      /\ \A x \in VolumesOf(h) : \E i \in 1 .. Len(q) : q[i] = x
      /\ \A i, j \in 1 .. Len(q) : q[i] = q[j] => i = j
  BY <1>2, <1>4, Ordering
<1>6. PICK ss : ss = [i \in DOMAIN q |-> Stanza(q[i])]
  OBVIOUS
<1>7. HostStanzas(h) = Stanza(b) \o FlattenSeq(ss)
  BY <1>1, <1>4, <1>6 DEF HostStanzas, VolumesOf
<1>8. Len(ss) = Len(q) /\ Listed(ss)
  BY <1>5, <1>6 DEF Listed
<1>9. /\ Listed(Stanza(b))
      /\ Leads(Stanza(b), BackState(D, a, x0), BackState(D \cup {b}, b, x0))
  <2>1. b \notin D
    BY <1>2
  <2> QED
    BY <1>2, <2>1, StanzaLeads
<1> DEFINE Read(k) == (D \cup {b}) \cup {q[i] : i \in 1 .. k}
<1> DEFINE At(k) == IF k = 0 THEN b ELSE q[k]
<1>10. PICK c : c = [k \in 0 .. Len(q) |-> BackState(Read(k), At(k), x0)]
  OBVIOUS
<1>11. c[0] = BackState(D \cup {b}, b, x0)
  <2>1. Read(0) = D \cup {b} /\ At(0) = b
    OBVIOUS
  <2>2. 0 \in 0 .. Len(q)
    BY <1>5
  <2> HIDE DEF Read, At
  <2> QED
    BY <1>10, <2>1, <2>2
<1>12. c[Len(q)] = BackState(D \cup Family(h), LastOf(h), x0)
  <2>1. Read(Len(q)) = D \cup Family(h)
    <3>1. {q[i] : i \in 1 .. Len(q)} = VolumesOf(h)
      BY <1>5
    <3> QED
      BY <1>2, <3>1
  <2>2. At(Len(q)) = LastOf(h)
    BY <1>1, <1>4 DEF LastOf
  <2>3. Len(q) \in 0 .. Len(q)
    BY <1>5
  <2> HIDE DEF Read, At
  <2> QED
    BY <1>10, <2>1, <2>2, <2>3
<1>13. ASSUME NEW k \in 1 .. Len(ss)
       PROVE  Listed(ss[k]) /\ Leads(ss[k], c[k - 1], c[k])
  <2>1. k \in 1 .. Len(q) /\ k \in DOMAIN q /\ k - 1 \in 0 .. Len(q) /\ k \in 0 .. Len(q) /\ k # 0
    BY <1>5, <1>8
  <2>2. PICK p : p = q[k]
    OBVIOUS
  <2>3. p \in VolumesOf(h)
    BY <1>5, <2>1, <2>2
  <2>4. ss[k] = Stanza(p)
    BY <1>6, <2>1, <2>2
  <2>5. Read(k) = Read(k - 1) \cup {p}
    <3>1. 1 .. k = (1 .. k - 1) \cup {k}
      BY <2>1
    <3>2. {q[i] : i \in 1 .. k} = {q[i] : i \in 1 .. k - 1} \cup {q[k]}
      BY <3>1
    <3> QED
      BY <2>2, <3>2
  <2>6. Root \in Read(k - 1) /\ b \in Read(k - 1)
    OBVIOUS
  <2>7. p \notin Read(k - 1)
    <3>1. p \notin D \cup {b}
      BY <1>3, <2>3
    <3>2. ASSUME NEW i \in 1 .. k - 1
          PROVE  p # q[i]
      <4>1. i \in 1 .. Len(q) /\ i # k
        BY <2>1, <1>5
      <4> QED
        BY <1>5, <2>1, <2>2, <4>1
    <3> QED
      BY <3>1, <3>2
  <2>8. At(k - 1)[1] = h /\ At(k) = p
    <3>1. At(k) = p
      BY <2>1, <2>2
    <3>2. CASE k = 1
      <4>1. k - 1 = 0
        BY <3>2
      <4>2. At(k - 1) = b
        BY <4>1
      <4> HIDE DEF At
      <4> QED
        BY <1>2, <3>1, <4>2
    <3>3. CASE k # 1
      <4>1. k - 1 \in 1 .. Len(q) /\ k - 1 # 0
        BY <2>1, <3>3, <1>5
      <4>2. q[k - 1] \in VolumesOf(h)
        BY <1>5, <4>1
      <4>3. q[k - 1][1] = h
        BY <1>3, <4>2
      <4> QED
        BY <3>1, <4>1, <4>3
    <3> QED
      BY <3>1, <3>2, <3>3
  <2>9. PICK E, F, u : E = Read(k - 1) /\ F = Read(k) /\ u = At(k - 1)
    OBVIOUS
  <2>10. c[k - 1] = BackState(E, u, x0) /\ c[k] = BackState(F, p, x0)
    <3> HIDE DEF Read, At
    <3> QED
      BY <1>10, <2>1, <2>8, <2>9
  <2>11. F = E \cup {p} /\ Root \in E /\ b \in E /\ p \notin E /\ u[1] = h
    <3> HIDE DEF Read, At
    <3> QED
      BY <2>5, <2>6, <2>7, <2>8, <2>9
  <2> HIDE DEF Read, At
  <2>12. p \in DOMAIN nodes /\ p # Root /\ HostOf(p) = b /\ p[1] = h
    BY <1>3, <2>3
  <2>13. Listed(Stanza(p)) /\ Leads(Stanza(p), BackState(E, u, x0), BackState(E \cup {p}, p, x0))
    BY <2>11, <2>12, StanzaLeads
  <2> QED
    BY <2>4, <2>10, <2>11, <2>13
<1> HIDE DEF Read, At
<1>14. Listed(FlattenSeq(ss)) /\ Leads(FlattenSeq(ss), c[0], c[Len(q)])
  BY <1>8, <1>13, Through
<1> QED
  BY <1>7, <1>9, <1>11, <1>12, <1>14, Join

(* There are finitely many hosts, and every node but the global one is of one. *)
LEMMA HostsFinite ==
  ASSUME Writable
  PROVE  /\ IsFiniteSet(Hosts)
         /\ \A p \in DOMAIN nodes : p # Root => p[1] \in Hosts
         /\ \A h \in Hosts : h # ""
<1>1. PICK f : f = [p \in DOMAIN nodes |-> p[1]]
  OBVIOUS
<1>2. IsFiniteSet({f[p] : p \in DOMAIN nodes})
  BY ImageFinite DEF Writable
<1>3. ASSUME NEW h \in Hosts
      PROVE  h \in {f[p] : p \in DOMAIN nodes}
  <2>1. PICK b : b = <<h, "">>
    OBVIOUS
  <2>2. b \in DOMAIN nodes /\ b[1] = h
    BY <2>1, FamilyIs
  <2>3. f[b] = h
    BY <1>1, <2>2
  <2> QED
    BY <2>2, <2>3
<1>4. IsFiniteSet(Hosts)
  BY <1>2, <1>3, FS_Subset
<1>5. ASSUME NEW p \in DOMAIN nodes, p # Root
      PROVE  p[1] \in Hosts
  BY <1>5 DEF Writable, NodesNamed, Families, HostOf, Hosts
<1>6. \A h \in Hosts : h # ""
  BY ConfigAssumption DEF Hosts
<1> QED
  BY <1>4, <1>5, <1>6

(* The stanzas of all hosts.                                                    *)
HostsScript == FlattenSeq([i \in DOMAIN SetToSeq(Hosts) |-> HostStanzas(SetToSeq(Hosts)[i])])

(* So the stanzas give back every host and every volume.                      *)
LEMMA HostsLead ==
  ASSUME Writable, ~ Unreadable(nodes), NEW x0, Back(Root, x0)
  PROVE  /\ Listed(HostsScript)
         /\ \E a : Leads(HostsScript, GlobalState(x0, devices), BackState(DOMAIN nodes, a, x0))
<1>1. PICK q : q = SetToSeq(Hosts)
  OBVIOUS
<1>2. /\ q \in Seq(Hosts) /\ Len(q) \in Nat /\ DOMAIN q = 1 .. Len(q)
      /\ \A i \in 1 .. Len(q) : q[i] \in Hosts
      /\ \A x \in Hosts : \E i \in 1 .. Len(q) : q[i] = x
      /\ \A i, j \in 1 .. Len(q) : q[i] = q[j] => i = j
  <2>1. IsFiniteSet(Hosts)
    BY HostsFinite
  <2> QED
    BY <1>1, <2>1, Ordering
<1>3. PICK ss : ss = [i \in DOMAIN q |-> HostStanzas(q[i])]
  OBVIOUS
<1>4. HostsScript = FlattenSeq(ss)
  BY <1>1, <1>3 DEF HostsScript
<1>5. Len(ss) = Len(q) /\ Listed(ss)
  BY <1>2, <1>3 DEF Listed
<1> DEFINE Read(k) == {Root} \cup {p \in DOMAIN nodes : \E i \in 1 .. k : p[1] = q[i]}
<1> DEFINE At(k) == IF k = 0 THEN Root ELSE LastOf(q[k])
<1>6. PICK c : c = [k \in 0 .. Len(q) |-> BackState(Read(k), At(k), x0)]
  OBVIOUS
<1>7. c[0] = GlobalState(x0, devices)
  <2>1. Read(0) = {Root} /\ At(0) = Root
    OBVIOUS
  <2>2. 0 \in 0 .. Len(q)
    BY <1>2
  <2> HIDE DEF Read, At
  <2>3. c[0] = BackState({Root}, Root, x0)
    BY <1>6, <2>1, <2>2
  <2> QED
    BY <2>3 DEF BackState, GlobalState, NodeBack
<1>8. c[Len(q)] = BackState(DOMAIN nodes, At(Len(q)), x0)
  <2>1. Read(Len(q)) \subseteq DOMAIN nodes
    BY DEF Writable, Families
  <2>2. ASSUME NEW p \in DOMAIN nodes
        PROVE  p \in Read(Len(q))
    BY <1>2, HostsFinite
  <2>3. Read(Len(q)) = DOMAIN nodes
    BY <2>1, <2>2
  <2>4. Len(q) \in 0 .. Len(q)
    BY <1>2
  <2> HIDE DEF Read, At
  <2> QED
    BY <1>6, <2>3, <2>4
<1>9. ASSUME NEW k \in 1 .. Len(ss)
      PROVE  Listed(ss[k]) /\ Leads(ss[k], c[k - 1], c[k])
  <2>1. k \in 1 .. Len(q) /\ k \in DOMAIN q /\ k - 1 \in 0 .. Len(q) /\ k \in 0 .. Len(q) /\ k # 0
    BY <1>2, <1>5
  <2>2. PICK h : h = q[k]
    OBVIOUS
  <2>3. h \in Hosts /\ ss[k] = HostStanzas(h)
    BY <1>2, <1>3, <2>1, <2>2
  <2>4. Read(k) = Read(k - 1) \cup Family(h)
    <3>1. 1 .. k = (1 .. k - 1) \cup {k}
      BY <2>1
    <3>2. \A p : (\E i \in 1 .. k : p[1] = q[i]) <=> (\E i \in 1 .. k - 1 : p[1] = q[i]) \/ p[1] = h
      BY <2>2, <3>1
    <3> QED
      BY <3>2 DEF Family
  <2>5. \A p \in Read(k - 1) : p[1] # h
    <3>1. Root[1] # h
      BY <2>3, HostsFinite DEF Root
    <3>2. ASSUME NEW i \in 1 .. k - 1
          PROVE  q[i] # h
      <4>1. i \in 1 .. Len(q) /\ i # k
        BY <1>2, <2>1
      <4> QED
        BY <1>2, <2>1, <2>2, <4>1
    <3> QED
      BY <3>1, <3>2
  <2>6. Root \in Read(k - 1) /\ At(k) = LastOf(h)
    BY <2>1, <2>2
  <2>7. PICK E, u : E = Read(k - 1) /\ u = At(k - 1)
    OBVIOUS
  <2> HIDE DEF Read, At
  <2>8. c[k - 1] = BackState(E, u, x0) /\ c[k] = BackState(E \cup Family(h), LastOf(h), x0)
    BY <1>6, <2>1, <2>4, <2>6, <2>7
  <2>9. Root \in E /\ \A p \in E : p[1] # h
    BY <2>5, <2>6, <2>7
  <2> QED
    BY <2>3, <2>8, <2>9, HostStanzasLead
<1> HIDE DEF Read, At
<1>10. Listed(FlattenSeq(ss)) /\ Leads(FlattenSeq(ss), c[0], c[Len(q)])
  BY <1>5, <1>9, Through
<1> QED
  BY <1>4, <1>7, <1>8, <1>10

(* The dump of a configuration, read from the beginning, gives it back.                 *)
LEMMA DumpLeads ==
  ASSUME Writable, ~ Unreadable(nodes)
  PROVE  /\ Listed(ConfWrite)
         /\ \E t : /\ Leads(ConfWrite, Start, t)
                   /\ DOMAIN t.nodes = DOMAIN nodes /\ t.devices = devices
                   /\ \A p \in DOMAIN nodes : Back(p, t.nodes[p])
<1>1. ConfWrite = GlobalScript \o HostsScript
  BY DEF ConfWrite, GlobalScript, HostsScript
<1>2. Listed(GlobalScript)
  BY GlobalLeads
<1>3. PICK x0 : Back(Root, x0) /\ Leads(GlobalScript, Start, GlobalState(x0, devices))
  BY GlobalLeads
<1>4. Listed(HostsScript)
  BY <1>3, HostsLead
<1>5. PICK a : Leads(HostsScript, GlobalState(x0, devices), BackState(DOMAIN nodes, a, x0))
  BY <1>3, HostsLead
<1>6. PICK t : t = BackState(DOMAIN nodes, a, x0)
  OBVIOUS
<1>7. Leads(ConfWrite, Start, t) /\ Listed(ConfWrite)
  BY <1>1, <1>2, <1>3, <1>4, <1>5, <1>6, Join
<1>8. DOMAIN t.nodes = DOMAIN nodes /\ t.devices = devices
  BY <1>6, BackStateIs
<1>9. ASSUME NEW p \in DOMAIN nodes
      PROVE  Back(p, t.nodes[p])
  <2>1. t.nodes[p] = NodeBack(p, x0)
    BY <1>6, BackStateIs
  <2> QED
    BY <1>3, <2>1, NodeBackIs
<1> QED
  BY <1>7, <1>8, <1>9

-----------------------------------------------------------------------------
(* What lines can make can be written: an invariant of reading.               *)
(* What is true of the configuration while it is read, apart from its shape.                *)
Storable ==
  /\ NodesNamed
  /\ IsFiniteSet(DOMAIN nodes) /\ IsFiniteSet(devices)
  /\ \A p \in DOMAIN nodes : NodeKept(p)

(* The defaults are such values.                                                     *)
LEMMA DefaultsKept ==
  ASSUME NEW w \in Word
  PROVE  ValueKept(w, Initially[w])
<1>1. PICK d, v : d = DirectiveOf[w] /\ v = Initially[w]
  OBVIOUS
<1>2. d.word = w /\ Correct(d)
  BY <1>1, ConfigAssumption, FoundCorrect
<1>3. d.form \in Assigned => Settled(d, v) \/ (w \in DeviceHooks /\ v = <<>>)
  BY <1>1, ConfigAssumption, InitiallyIs DEF DeviceHooks
<1>4. d.form = "policy" => Len(v) = 1 /\ v \notin DOMAIN Reading["path"]
  <2>1. d.form = "policy" => w = "prune-policy"
    BY <1>2 DEF Correct, WellPlaced
  <2>2. w = "prune-policy" => v = Preset["prune-policy"]
    BY <1>1, ConfigAssumption DEF Initially
  <2> QED
    BY <2>1, <2>2, ConfigAssumption
<1>5. d.form \in {"appended", "exclude"} => Listed(v)
  <2>1. d.form = "exclude" => v = <<>>
    BY <1>1, <1>2, InitiallyIs DEF Correct, WellPlaced
  <2>2. Listed(<<>>)
    BY DEF Listed
  <2> QED
    BY <1>1, <2>1, <2>2, ConfigAssumption
<1> QED
  BY <1>1, <1>3, <1>4, <1>5 DEF ValueKept

(* What a line that assigns sets is such a value, whatever its arguments say.              *)
LEMMA AssignedKept ==
  ASSUME NEW w \in Word, NEW d, d = DirectiveOf[w], d.form \in Assigned,
         NEW l, Checks(d, l), ~ Overruns(d, l), Reads(d.form, l.args), NEW v,
         v = Value(d.form, l.args)
  PROVE  Settled(d, v)
<1>1. Correct(d)
  BY ConfigAssumption, FoundCorrect
<1>2. PICK k : k = [args |-> v]
  OBVIOUS
<1>3. CASE d.form \in {"text", "list", "check"}
  <2>1. v = l.args
    BY <1>3 DEF Value
  <2>2. Checks(d, k) /\ ~ Overruns(d, k)
    BY <1>2, <1>3, <2>1 DEF Checks, Overruns
  <2>3. Reads(d.form, v) /\ Value(d.form, v) = v
    BY <1>3, <2>1 DEF Value, Reads
  <2> QED
    BY <1>2, <2>2, <2>3 DEF Settled
<1>4. CASE d.form = "boolean"
  <2>1. v = GetBoolean(l.args) /\ v \in Boolean
    BY <1>4 DEF Value, Reads
  <2>2. Len(v) = 1 /\ v # <<>> /\ GetBoolean(v) = v
    BY <2>1 DEF Boolean, GetBoolean
  <2>3. d.least \in {0, 1} /\ d.most = 1
    BY <1>1, <1>4 DEF Correct, WellFormed
  <2>4. Checks(d, k) /\ ~ Overruns(d, k)
    <3>1. k.args = v /\ Len(k.args) = 1
      BY <1>2, <2>2
    <3>2. Len(k.args) >= d.least /\ Len(k.args) <= d.most
      BY <2>3, <3>1
    <3>3. d.form # "color" /\ d.form \notin {"appended", "measure"}
      BY <1>4
    <3>4. Checks(d, k)
      BY <3>2, <3>3 DEF Checks
    <3> QED
      BY <3>3, <3>4 DEF Overruns
  <2>5. Reads(d.form, v) /\ Value(d.form, v) = v
    BY <1>4, <2>1, <2>2 DEF Reads, Value
  <2> QED
    BY <1>2, <2>4, <2>5 DEF Settled
<1>5. CASE d.form \notin {"text", "list", "check", "boolean"}
  <2>1. \E a \in DOMAIN Reading[d.form] : v = Reading[d.form][a]
    <3>1. CASE d.form = "measure"
      BY <3>1 DEF Reads, Value
    <3>2. CASE d.form # "measure"
      BY <1>5, <3>2 DEF Reads, Value
    <3> QED
      BY <3>1, <3>2
  <2> QED
    BY <1>5, <2>1, ConfigAssumption
<1> QED
  BY <1>3, <1>4, <1>5

(* What may be changed at one node, and leaves the rest as it is.                       *)
LEMMA StorableAfter ==
  ASSUME Storable, subject' = subject, DOMAIN nodes' = DOMAIN nodes, IsFiniteSet(devices'),
         NEW b \in DOMAIN nodes, \A q \in DOMAIN nodes : q # b => nodes'[q] = nodes[q],
         IsParameters(nodes'[b].backup), IsParameters(nodes'[b].prune),
         \A w \in Word : \/ nodes'[b].set[w] = nodes[b].set[w]
                         \/ ValueKept(w, nodes'[b].set[w]) /\ Settable(b, w)
  PROVE  Storable'
<1>1. NodesNamed'
  BY DEF Storable, NodesNamed
<1>2. ASSUME NEW p \in DOMAIN nodes
      PROVE  NodeKept(p)'
  <2>1. NodeKept(p)
    BY DEF Storable
  <2>2. \A w : Settable(p, w)' = Settable(p, w)
    BY DEF Settable
  <2>3. CASE p = b
    <3>1. IsParameters(nodes[p].backup)' /\ IsParameters(nodes[p].prune)'
      BY <2>3 DEF IsParameters
    <3>2. ASSUME NEW w \in Word
          PROVE  (ValueKept(w, Held(p, w)) /\ (Settable(p, w) \/ Held(p, w) = Default(p, w)))'
      <4>1. CASE nodes'[b].set[w] = nodes[b].set[w]
        <5>1. Held(p, w)' = Held(p, w)
          BY <2>3, <4>1 DEF Held
        <5>2. ValueKept(w, Held(p, w)) /\ (Settable(p, w) \/ Held(p, w) = Default(p, w))
          BY <2>1 DEF NodeKept
        <5>3. ValueKept(w, Held(p, w))'
          BY <5>1, <5>2 DEF ValueKept
        <5>4. Default(p, w)' = Default(p, w)
          BY DEF Default
        <5> QED
          BY <2>2, <5>1, <5>2, <5>3, <5>4
      <4>2. CASE ValueKept(w, nodes'[b].set[w]) /\ Settable(b, w)
        <5>1. ValueKept(w, Held(p, w))'
          BY <2>3, <4>2 DEF Held, ValueKept
        <5> QED
          BY <2>2, <2>3, <4>2, <5>1
      <4> QED
        BY <4>1, <4>2
    <3> QED
      BY <3>1, <3>2 DEF NodeKept
  <2>4. CASE p # b
    <3>1. nodes'[p] = nodes[p]
      BY <2>4
    <3> QED
      BY <2>1, <2>2, <3>1 DEF NodeKept, Held, ValueKept, Default
  <2> QED
    BY <2>3, <2>4
<1> QED
  BY <1>1, <1>2 DEF Storable

(* A line that is obeyed sets what may be set where it is.                             *)
LEMMA PlacedSettable ==
  ASSUME ReadRight, NEW l \in subject, Placed(l), NEW b, b = Here(l),
         DirectiveOf[l.word].form \in ValueForms \cup {"appended", "exclude"}
  PROVE  Settable(b, l.word)
<1>1. /\ b \in DOMAIN nodes /\ LevelOf(l) \in DirectiveOf[l.word].levels
      /\ Sound(DirectiveOf[l.word]) /\ AtLevel(b, LevelOf(l))
  BY Situation
<1>2. LevelOf(l) = Level(b)
  <2>1. LevelOf(l) \in 1 .. 3
    BY <1>1 DEF Sound
  <2>2. b = Root <=> ~ HasHost(b)
    BY <1>1, GlobalIs DEF ReadRight, Families
  <2> QED
    BY <1>1, <2>1, <2>2, GlobalIs DEF AtLevel, Level
<1> QED
  BY <1>1, <1>2 DEF Settable

(* A line that sets a value there.                                                   *)
LEMMA ValueStored ==
  ASSUME ReadRight, Storable, NEW l \in subject, Placed(l), NEW b, b = Here(l),
         DirectiveOf[l.word].form \in ValueForms \cup {"appended", "exclude"},
         NEW v, l.word \in Word => ValueKept(l.word, v), SetValue(b, l.word, v),
         UNCHANGED <<subject, devices>>
  PROVE  Storable'
<1>1. b \in DOMAIN nodes /\ NodesTyped
  BY Situation
<1>2. PICK u : u = l.word
  OBVIOUS
<1>3. Settable(b, u)
  BY <1>2, PlacedSettable
<1>4. PICK e : e = nodes[b]
  OBVIOUS
<1>5. /\ e = [set |-> e.set, backup |-> e.backup, prune |-> e.prune]
      /\ e.set = [w \in Word |-> e.set[w]]
  BY <1>1, <1>4, RecordIs
<1>6. nodes' = [nodes EXCEPT ![b] = WithValue(e, u, v)]
  BY <1>2, <1>4 DEF SetValue, WithValue
<1>7. nodes'[b] = WithValue(e, u, v) /\ DOMAIN nodes' = DOMAIN nodes
      /\ \A q \in DOMAIN nodes : q # b => nodes'[q] = nodes[q]
  BY <1>1, <1>6
<1>8. /\ WithValue(e, u, v).backup = e.backup /\ WithValue(e, u, v).prune = e.prune
      /\ \A w \in Word : WithValue(e, u, v).set[w] = IF w = u THEN v ELSE e.set[w]
  <2>1. IsNode(e)
    BY <1>5 DEF IsNode
  <2> QED
    BY <2>1, WithValueIs
<1>9. IsParameters(nodes'[b].backup) /\ IsParameters(nodes'[b].prune)
  <2>1. IsParameters(e.backup) /\ IsParameters(e.prune)
    BY <1>1, <1>4 DEF Storable, NodeKept
  <2> QED
    BY <1>7, <1>8, <2>1
<1>10. \A w \in Word : \/ nodes'[b].set[w] = nodes[b].set[w]
                       \/ ValueKept(w, nodes'[b].set[w]) /\ Settable(b, w)
  BY <1>2, <1>3, <1>4, <1>7, <1>8
<1>11. IsFiniteSet(devices') /\ subject' = subject
  BY DEF Storable
<1> QED
  BY <1>1, <1>7, <1>9, <1>10, <1>11, StorableAfter

(* Each kind of line keeps what is held fit to be written.                    *)
LEMMA AssignStored ==
  ASSUME ReadRight, Storable, NEW l \in subject, Assign(l)
  PROVE  Storable'
<1>1. PICK b, d, v : b = Here(l) /\ d = DirectiveOf[l.word] /\ v = Value(d.form, l.args)
  OBVIOUS
<1>2. /\ Placed(l) /\ d.form \in Assigned /\ Checks(d, l) /\ ~ Overruns(d, l) /\ Sensible(d, l)
      /\ SetValue(b, l.word, v) /\ UNCHANGED <<subject, devices>>
  BY <1>1 DEF Assign, Orders, Obeys, Advance
<1>3. Reads(d.form, l.args)
  BY <1>2 DEF Sensible, Assigned
<1>4. ASSUME l.word \in Word
      PROVE  ValueKept(l.word, v)
  <2>1. Settled(d, v)
    BY <1>1, <1>2, <1>3, <1>4, AssignedKept
  <2>2. d.form \notin {"policy", "appended", "exclude"}
    BY <1>2 DEF Assigned
  <2> QED
    BY <1>1, <2>1, <2>2 DEF ValueKept
<1>5. d.form \in ValueForms
  BY <1>2 DEF ValueForms
<1> QED
  BY <1>1, <1>2, <1>4, <1>5, ValueStored

(* What is left of a listed sequence is listed.                               *)
LEMMA TailListed ==
  ASSUME NEW a, Listed(a), a # <<>>
  PROVE  Listed(Tail(a))
<1>1. a \in Seq({a[i] : i \in 1 .. Len(a)})
  BY AsSequence
<1>2. Tail(a) \in Seq({a[i] : i \in 1 .. Len(a)})
  BY <1>1
<1> QED
  BY <1>2, SequenceListed

LEMMA ExtendStored ==
  ASSUME ReadRight, Storable, NEW l \in subject, Extend(l)
  PROVE  Storable'
<1>1. PICK d, v : /\ d = DirectiveOf[l.word]
                  /\ v = IF l.args[1] = "+" THEN nodes[Root].set[l.word] \o Tail(l.args)
                         ELSE l.args
  OBVIOUS
<1>2. /\ Placed(l) /\ d.form = "appended" /\ ~ Overruns(d, l)
      /\ SetValue(Root, l.word, v) /\ UNCHANGED <<subject, devices>>
  BY <1>1 DEF Extend, Orders, Obeys, Advance
<1>3. Root = Here(l)
  <2>1. PICK b : b = Here(l)
    OBVIOUS
  <2>2. LevelOf(l) \in d.levels /\ Sound(d) /\ (LevelOf(l) = 1 => b = Root)
    BY <1>1, <1>2, <2>1, Situation
  <2>3. LevelOf(l) = 1
    BY <1>2, <2>2 DEF Sound
  <2> QED
    BY <2>1, <2>2, <2>3
<1>4. Listed(l.args) /\ l.args # <<>>
  BY <1>2, ConfigAssumption DEF ReadRight, ReaderTyped, Overruns
<1>5. ASSUME l.word \in Word
      PROVE  ValueKept(l.word, v)
  <2>1. Listed(nodes[Root].set[l.word])
    <3>1. ValueKept(l.word, Held(Root, l.word))
      BY <1>5 DEF ReadRight, Families, Storable, NodeKept
    <3> QED
      BY <1>1, <1>2, <3>1 DEF ValueKept, Held
  <2>2. Listed(Tail(l.args))
    BY <1>4, TailListed
  <2>3. Listed(v)
    BY <1>1, <1>4, <2>1, <2>2, JoinListed
  <2>4. d.form \notin Assigned \cup {"policy"}
    BY <1>2 DEF Assigned
  <2> QED
    BY <1>1, <2>3, <2>4 DEF ValueKept
<1> QED
  BY <1>1, <1>2, <1>3, <1>5, ValueStored

LEMMA OverrunStored ==
  ASSUME ReadRight, Storable, NEW l \in subject, Overrun(l)
  PROVE  Storable'
<1>1. PICK d, b : d = DirectiveOf[l.word] /\ b = Here(l)
  OBVIOUS
<1>2. /\ Placed(l) /\ Overruns(d, l) /\ UNCHANGED <<subject, devices>>
      /\ \/ d.form = "appended" /\ SetValue(Root, l.word, <<>>)
         \/ d.form = "measure" /\ \E v \in DOMAIN Reading["measure"] :
                                     SetValue(Root, l.word, Reading["measure"][v])
  BY <1>1 DEF Overrun, Advance
<1>3. Root = b
  <2>1. LevelOf(l) \in d.levels /\ Sound(d) /\ (LevelOf(l) = 1 => b = Root)
    BY <1>1, <1>2, Situation
  <2>2. LevelOf(l) = 1
    BY <1>2, <2>1 DEF Sound
  <2> QED
    BY <2>1, <2>2
<1>4. CASE d.form = "appended"
  <2>1. SetValue(Root, l.word, <<>>)
    BY <1>2, <1>4
  <2>2. l.word \in Word => ValueKept(l.word, <<>>)
    BY <1>1, <1>4 DEF ValueKept, Assigned, Listed
  <2> QED
    BY <1>1, <1>2, <1>3, <1>4, <2>1, <2>2, ValueStored
<1>5. CASE d.form = "measure"
  <2>1. PICK a \in DOMAIN Reading["measure"] : SetValue(Root, l.word, Reading["measure"][a])
    BY <1>2, <1>5
  <2>2. PICK v : v = Reading["measure"][a]
    OBVIOUS
  <2>3. d.form \in Assigned
    BY <1>5 DEF Assigned
  <2>4. l.word \in Word => Settled(d, v)
    <3>1. d.form \notin {"text", "list", "boolean", "check"}
      BY <1>5
    <3> QED
      BY <1>1, <1>5, <2>2, <2>3, <3>1, ConfigAssumption
  <2>5. l.word \in Word => ValueKept(l.word, v)
    BY <1>1, <1>5, <2>4 DEF ValueKept
  <2>6. d.form \in ValueForms
    BY <2>3 DEF ValueForms
  <2> QED
    BY <1>1, <1>2, <1>3, <2>1, <2>2, <2>5, <2>6, ValueStored
<1> QED
  BY <1>2, <1>4, <1>5

LEMMA ExcludeStored ==
  ASSUME ReadRight, Storable, NEW l \in subject, AddExclude(l)
  PROVE  Storable'
<1>1. PICK d, b, v : /\ d = DirectiveOf[l.word] /\ b = Here(l)
                     /\ v = Append(nodes[b].set[l.word], l.args[1])
  OBVIOUS
<1>2. /\ Placed(l) /\ d.form = "exclude" /\ SetValue(b, l.word, v)
      /\ UNCHANGED <<subject, devices>>
  BY <1>1 DEF AddExclude, Orders, Obeys, Advance
<1>3. ASSUME l.word \in Word
      PROVE  ValueKept(l.word, v)
  <2>1. b \in DOMAIN nodes
    BY <1>1, <1>2, Situation
  <2>2. PICK a, x : a = nodes[b].set[l.word] /\ x = l.args[1]
    OBVIOUS
  <2>3. ValueKept(l.word, a)
    BY <1>3, <2>1, <2>2 DEF Storable, NodeKept, Held
  <2>4. Listed(a)
    BY <1>1, <1>2, <2>3 DEF ValueKept
  <2>5. v = a \o <<x>>
    <3>1. PICK S : a \in Seq(S) /\ <<x>> \in Seq(S)
      BY <2>4, OneListed, JoinListed
    <3>2. PICK y : y = <<x>>
      OBVIOUS
    <3>3. y \in Seq(S) /\ Len(y) = 1 /\ y[1] = x
      BY <3>1, <3>2
    <3>4. x \in S
      BY <3>3, ElementOfSeq
    <3>5. Append(a, x) = a \o <<x>>
      BY <3>1, <3>4
    <3> QED
      BY <1>1, <2>2, <3>5
  <2>6. Listed(v)
    BY <2>4, <2>5, OneListed, JoinListed
  <2>7. d.form \notin Assigned \cup {"policy"}
    BY <1>2 DEF Assigned
  <2> QED
    BY <1>1, <2>6, <2>7 DEF ValueKept
<1> QED
  BY <1>1, <1>2, <1>3, ValueStored

(* Parameters.                                                                    *)
LEMMA WithIsParameters ==
  ASSUME NEW f, IsParameters(f), NEW n, n # "--remove", <<n>> \in DOMAIN Reading["parameter"],
         NEW v
  PROVE  IsParameters(With(f, n, v))
<1>1. PICK g : g = With(f, n, v)
  OBVIOUS
<1>2. DOMAIN g = DOMAIN f \cup {n} /\ g = [m \in DOMAIN g |-> g[m]]
  BY <1>1 DEF With
<1>3. IsFiniteSet(DOMAIN g)
  <2>1. IsFiniteSet(DOMAIN f)
    BY DEF IsParameters
  <2> QED
    BY <1>2, <2>1, FS_AddElement
<1>4. IsParameters(g)
  BY <1>2, <1>3 DEF IsParameters
<1> QED
  BY <1>1, <1>4

LEMMA WithoutIsParameters ==
  ASSUME NEW f, IsParameters(f), NEW n
  PROVE  IsParameters(Without(f, n))
<1>1. PICK g : g = Without(f, n)
  OBVIOUS
<1>2. DOMAIN g = DOMAIN f \ {n} /\ g = [m \in DOMAIN g |-> g[m]]
  BY <1>1 DEF Without
<1>3. IsFiniteSet(DOMAIN g)
  <2>1. IsFiniteSet(DOMAIN f)
    BY DEF IsParameters
  <2> QED
    BY <1>2, <2>1, FS_RemoveElement
<1>4. IsParameters(g)
  BY <1>2, <1>3 DEF IsParameters
<1> QED
  BY <1>1, <1>4

(* Setting or removing a parameter leaves parameters.                         *)
LEMMA ChangedIs ==
  ASSUME NEW f, IsParameters(f), NEW a, <<ParameterName(a)>> \in DOMAIN Reading["parameter"]
  PROVE  IsParameters(Changed(f, a))
<1>1. CASE a[1] = "--remove"
  BY <1>1, WithoutIsParameters DEF Changed
<1>2. CASE a[1] # "--remove"
  <2>1. ParameterName(a) = a[1]
    BY <1>2 DEF ParameterName
  <2> QED
    BY <1>2, <2>1, WithIsParameters DEF Changed
<1> QED
  BY <1>1, <1>2

(* A line that sets a parameter, or a policy for pruning.                     *)
LEMMA ParameterStored ==
  ASSUME ReadRight, Storable, NEW l \in subject, SetParameter(l)
  PROVE  Storable'
<1>1. PICK d, b : d = DirectiveOf[l.word] /\ b = Here(l)
  OBVIOUS
<1>2. /\ Placed(l) /\ d.form = "parameter" /\ Sensible(d, l)
      /\ UNCHANGED <<subject, devices>>
      /\ nodes' = IF l.word = "backup-parameter"
                    THEN [nodes EXCEPT ![b].backup = Changed(@, l.args)]
                    ELSE [nodes EXCEPT ![b].prune = Changed(@, l.args)]
  BY <1>1 DEF SetParameter, Orders, Obeys, Advance
<1>3. b \in DOMAIN nodes /\ NodesTyped
  BY <1>1, <1>2, Situation
<1>4. <<ParameterName(l.args)>> \in DOMAIN Reading["parameter"]
  BY <1>2 DEF Sensible, Assigned
<1>5. PICK e : e = nodes[b]
  OBVIOUS
<1>6. e = [set |-> e.set, backup |-> e.backup, prune |-> e.prune]
  BY <1>3, <1>5, RecordIs
<1>7. IsParameters(e.backup) /\ IsParameters(e.prune)
  BY <1>3, <1>5 DEF Storable, NodeKept
<1>8. PICK x, y : x = Changed(e.backup, l.args) /\ y = Changed(e.prune, l.args)
  OBVIOUS
<1>9. IsParameters(x) /\ IsParameters(y)
  BY <1>4, <1>7, <1>8, ChangedIs
<1>10. \/ nodes' = [nodes EXCEPT ![b] = [set |-> e.set, backup |-> x, prune |-> e.prune]]
       \/ nodes' = [nodes EXCEPT ![b] = [set |-> e.set, backup |-> e.backup, prune |-> y]]
  <2>1. /\ [e EXCEPT !.backup = x] = [set |-> e.set, backup |-> x, prune |-> e.prune]
        /\ [e EXCEPT !.prune = y] = [set |-> e.set, backup |-> e.backup, prune |-> y]
    BY <1>6
  <2>2. \/ nodes' = [nodes EXCEPT ![b] = [e EXCEPT !.backup = x]]
        \/ nodes' = [nodes EXCEPT ![b] = [e EXCEPT !.prune = y]]
    BY <1>2, <1>5, <1>8
  <2> QED
    BY <2>1, <2>2
<1>11. /\ DOMAIN nodes' = DOMAIN nodes /\ \A q \in DOMAIN nodes : q # b => nodes'[q] = nodes[q]
       /\ nodes'[b].set = e.set
       /\ nodes'[b].backup \in {x, e.backup} /\ nodes'[b].prune \in {y, e.prune}
  BY <1>3, <1>10
<1>12. IsParameters(nodes'[b].backup) /\ IsParameters(nodes'[b].prune)
  BY <1>7, <1>9, <1>11
<1>13. \A w \in Word : nodes'[b].set[w] = nodes[b].set[w]
  BY <1>5, <1>11
<1>14. IsFiniteSet(devices') /\ subject' = subject
  BY <1>2 DEF Storable
<1> QED
  BY <1>3, <1>11, <1>12, <1>13, <1>14, StorableAfter

LEMMA PrunePolicyStored ==
  ASSUME ReadRight, Storable, NEW l \in subject, SetPrunePolicy(l)
  PROVE  Storable'
<1>1. PICK d, b, u : d = DirectiveOf[l.word] /\ b = Here(l) /\ u = l.word
  OBVIOUS
<1>2. /\ Placed(l) /\ d.form = "policy" /\ Checks(d, l)
      /\ UNCHANGED <<subject, devices>>
  BY <1>1 DEF SetPrunePolicy, Orders, Obeys, Advance
<1>3. b \in DOMAIN nodes /\ NodesTyped /\ Settable(b, u)
  <2>1. d.form \in ValueForms
    BY <1>2 DEF ValueForms
  <2> QED
    BY <1>1, <1>2, <2>1, Situation, PlacedSettable
<1>4. CASE l.args \in DOMAIN Reading["path"]
  <2>1. PICK e, v, y : e = nodes[b] /\ v = <<"exec">> /\ y = With(e.prune, "path", l.args[1])
    OBVIOUS
  <2>2. nodes' = [nodes EXCEPT ![b].set[u] = v, ![b].prune = y]
    <3>1. nodes' = [nodes EXCEPT ![Here(l)].set[l.word] = <<"exec">>,
                                 ![Here(l)].prune = With(@, "path", l.args[1])]
      BY <1>4 DEF SetPrunePolicy
    <3>2. nodes' = [nodes EXCEPT ![b].set[u] = v, ![b].prune = With(@, "path", l.args[1])]
      BY <1>1, <2>1, <3>1
    <3>3. PICK m : m = [nodes EXCEPT ![b].set[u] = v]
      OBVIOUS
    <3>4. m[b].prune = e.prune
      <4>1. m[b] = [e EXCEPT !.set[u] = v]
        BY <1>3, <2>1, <3>3
      <4>2. e = [set |-> e.set, backup |-> e.backup, prune |-> e.prune]
        BY <1>3, <2>1, RecordIs
      <4> QED
        BY <4>1, <4>2
    <3>5. nodes' = [m EXCEPT ![b].prune = With(@, "path", l.args[1])]
      BY <3>2, <3>3
    <3>6. nodes' = [m EXCEPT ![b].prune = y]
      BY <2>1, <3>4, <3>5
    <3> QED
      BY <3>3, <3>6
  <2>3. /\ e = [set |-> e.set, backup |-> e.backup, prune |-> e.prune]
        /\ e.set = [w \in Word |-> e.set[w]]
    BY <1>3, <2>1, RecordIs
  <2>4. PICK s : s = [e.set EXCEPT ![u] = v]
    OBVIOUS
  <2>5. /\ s = [w \in Word |-> s[w]]
        /\ \A w \in Word : s[w] = IF w = u THEN v ELSE e.set[w]
    BY <2>3, <2>4
  <2>6. nodes' = [nodes EXCEPT ![b] = [set |-> s, backup |-> e.backup, prune |-> y]]
    <3>1. [[e EXCEPT !.set = s] EXCEPT !.prune = y] = [set |-> s, backup |-> e.backup, prune |-> y]
      <4>1. [e EXCEPT !.set = s] = [set |-> s, backup |-> e.backup, prune |-> e.prune]
        BY <2>3
      <4>2. PICK a, z : a = e.backup /\ z = e.prune
        OBVIOUS
      <4>3. [[set |-> s, backup |-> a, prune |-> z] EXCEPT !.prune = y]
              = [set |-> s, backup |-> a, prune |-> y]
        OBVIOUS
      <4> QED
        BY <4>1, <4>2, <4>3
    <3>2. nodes' = [nodes EXCEPT ![b] = [[e EXCEPT !.set = s] EXCEPT !.prune = y]]
      BY <1>3, <2>1, <2>2, <2>4
    <3> QED
      BY <3>1, <3>2
  <2>7. /\ DOMAIN nodes' = DOMAIN nodes /\ \A q \in DOMAIN nodes : q # b => nodes'[q] = nodes[q]
        /\ nodes'[b].set = s /\ nodes'[b].backup = e.backup /\ nodes'[b].prune = y
    BY <1>3, <2>6
  <2>8. IsParameters(e.backup) /\ IsParameters(y)
    <3>1. IsParameters(e.backup) /\ IsParameters(e.prune)
      BY <1>3, <2>1 DEF Storable, NodeKept
    <3>2. <<"path">> \in DOMAIN Reading["parameter"]
      BY <1>4, ConfigAssumption
    <3> QED
      BY <2>1, <3>1, <3>2, WithIsParameters
  <2>9. u \in Word => ValueKept(u, v)
    <3>1. Len(v) = 1 /\ v \notin DOMAIN Reading["path"]
      BY <2>1, ConfigAssumption
    <3> QED
      BY <1>1, <1>2, <3>1 DEF ValueKept, Assigned
  <2>10. \A w \in Word : \/ nodes'[b].set[w] = nodes[b].set[w]
                         \/ ValueKept(w, nodes'[b].set[w]) /\ Settable(b, w)
    BY <1>3, <2>1, <2>5, <2>7, <2>9
  <2>11. IsParameters(nodes'[b].backup) /\ IsParameters(nodes'[b].prune)
    BY <2>7, <2>8
  <2>12. IsFiniteSet(devices') /\ subject' = subject
    BY <1>2 DEF Storable
  <2> QED
    BY <1>3, <2>7, <2>10, <2>11, <2>12, StorableAfter
<1>5. CASE l.args \notin DOMAIN Reading["path"]
  <2>1. SetValue(b, l.word, l.args)
    BY <1>1, <1>5 DEF SetPrunePolicy
  <2>2. l.word \in Word => ValueKept(l.word, l.args)
    <3>1. d.form = "policy" /\ d.least = 1 /\ d.most = 1
      BY <1>1, <1>2, FoundCorrect DEF Placed, Correct, WellFormed
    <3>2. Len(l.args) = 1
      <4>1. Listed(l.args)
        BY ConfigAssumption DEF ReadRight, ReaderTyped
      <4>2. Len(l.args) \in Nat /\ Len(l.args) >= 1 /\ Len(l.args) <= 1
        <5>1. Len(l.args) >= d.least /\ (d.most = Many \/ Len(l.args) <= d.most)
          BY <1>2 DEF Checks
        <5>2. Len(l.args) \in Nat
          BY <4>1 DEF Listed
        <5> QED
          BY <3>1, <5>1, <5>2 DEF Many
      <4>3. PICK n : n = Len(l.args)
        OBVIOUS
      <4>4. n \in Nat /\ n >= 1 /\ n <= 1
        BY <4>2, <4>3
      <4>5. n = 1
        BY <4>4
      <4> QED
        BY <4>3, <4>5
    <3> QED
      BY <1>1, <1>5, <3>1, <3>2 DEF ValueKept, Assigned
  <2>3. d.form \in ValueForms
    BY <1>2 DEF ValueForms
  <2> QED
    BY <1>1, <1>2, <2>1, <2>2, <2>3, ValueStored
<1> QED
  BY <1>4, <1>5

(* A line that changes no node; and one that names a device or a store, or includes files. *)
LEMMA SameStored ==
  ASSUME ReadRight, Storable, UNCHANGED <<subject, nodes>>, IsFiniteSet(devices')
  PROVE  Storable'
<1>1. PICK b : b = Root
  OBVIOUS
<1>2. b \in DOMAIN nodes
  BY <1>1 DEF ReadRight, Families
<1>3. IsParameters(nodes'[b].backup) /\ IsParameters(nodes'[b].prune)
  BY <1>2 DEF Storable, NodeKept
<1>4. /\ subject' = subject /\ DOMAIN nodes' = DOMAIN nodes
      /\ \A q \in DOMAIN nodes : q # b => nodes'[q] = nodes[q]
      /\ \A w \in Word : nodes'[b].set[w] = nodes[b].set[w]
  OBVIOUS
<1> QED
  BY <1>2, <1>3, <1>4, StorableAfter

LEMMA DeviceStored ==
  ASSUME ReadRight, Storable, NEW l \in subject, AddStore(l) \/ AddDevice(l) \/ Include(l)
  PROVE  Storable'
<1>1. UNCHANGED <<subject, nodes>>
  BY DEF AddStore, AddDevice, Include, Advance
<1>2. devices' = devices \/ \E x : devices' = devices \cup {x}
  BY DEF AddStore, AddDevice, Include
<1>3. IsFiniteSet(devices')
  BY <1>2, FS_AddElement DEF Storable
<1> QED
  BY <1>1, <1>3, SameStored

-----------------------------------------------------------------------------
(* What a new node has is what may be kept.                                            *)
LEMMA NewStored ==
  ASSUME NodesTyped, Storable, UNCHANGED <<subject, devices>>,
         NEW c, c \notin DOMAIN nodes, c # Root => c[1] \in HostName,
         HasVolume(c) => c[2] \in VolumeName,
         NEW e, nodes' = With(nodes, c, e), IsParameters(e.backup), IsParameters(e.prune),
         \A w \in Word : ValueKept(w, e.set[w]) /\ (Settable(c, w) \/ e.set[w] = Default(c, w))
  PROVE  Storable'
<1>1. /\ DOMAIN nodes' = DOMAIN nodes \cup {c} /\ nodes'[c] = e
      /\ \A q \in DOMAIN nodes : nodes'[q] = nodes[q]
  BY DEF With
<1>2. NodesNamed'
  BY <1>1 DEF Storable, NodesNamed, HasVolume
<1>3. IsFiniteSet(DOMAIN nodes')
  BY <1>1, FS_AddElement DEF Storable
<1>4. \A p, w : Settable(p, w)' = Settable(p, w)
  BY DEF Settable
<1>5. ASSUME NEW p \in DOMAIN nodes
      PROVE  NodeKept(p)'
  <2>1. NodeKept(p) /\ nodes'[p] = nodes[p]
    BY <1>1 DEF Storable
  <2> QED
    BY <1>4, <2>1 DEF NodeKept, Held, ValueKept, Default
<1>6. NodeKept(c)'
  <2>1. IsParameters(nodes[c].backup)' /\ IsParameters(nodes[c].prune)'
    BY <1>1 DEF IsParameters
  <2>2. ASSUME NEW w \in Word
        PROVE  (ValueKept(w, Held(c, w)) /\ (Settable(c, w) \/ Held(c, w) = Default(c, w)))'
    <3>1. Held(c, w)' = e.set[w]
      BY <1>1 DEF Held
    <3>2. ValueKept(w, Held(c, w))'
      BY <3>1 DEF ValueKept
    <3>3. Default(c, w)' = Default(c, w)
      BY DEF Default
    <3> QED
      BY <1>4, <3>1, <3>2, <3>3
  <2> QED
    BY <2>1, <2>2 DEF NodeKept
<1>7. IsFiniteSet(devices)'
  BY DEF Storable
<1> QED
  BY <1>1, <1>2, <1>3, <1>5, <1>6, <1>7 DEF Storable

(* What is taken over from around a new node, or is its default.                           *)
LEMMA TakenOver ==
  ASSUME ReadRight, Storable, NEW b \in DOMAIN nodes, NEW c, Level(b) <= Level(c),
         NEW w \in Word, w # "group" \/ (b # Root /\ c # Root /\ b[1] = c[1]),
         w # "hostname" \/ Level(c) # 2,
         NEW v, v = IF w \in Inherited THEN nodes[b].set[w] ELSE Initially[w]
  PROVE  ValueKept(w, v) /\ (Settable(c, w) \/ v = Default(c, w))
<1>1. CASE w \in Inherited
  <2>1. v = Held(b, w)
    BY <1>1 DEF Held
  <2>2. ValueKept(w, v) /\ (Settable(b, w) \/ v = Default(b, w))
    BY <2>1 DEF Storable, NodeKept
  <2>3. Settable(b, w) => Settable(c, w)
    BY <1>1, SettableInside
  <2>4. Default(b, w) = Default(c, w)
    <3>1. w # "hostname"
      BY <1>1, NotInherited
    <3> QED
      BY <3>1 DEF Default
  <2> QED
    BY <2>2, <2>3, <2>4
<1>2. CASE w \notin Inherited
  <2>1. v = Initially[w] /\ ValueKept(w, v)
    BY <1>2, DefaultsKept
  <2>2. w # "group"
    BY <1>2, NotInherited
  <2> QED
    BY <2>1, <2>2 DEF Default
<1> QED
  BY <1>1, <1>2

(* The name of a host is such a value.                                        *)
LEMMA NameKept ==
  ASSUME NEW w \in Word \cap {"group", "hostname"}, NEW h
  PROVE  ValueKept(w, <<h>>)
<1>1. PICK d, v, k : d = DirectiveOf[w] /\ v = <<h>> /\ k = [args |-> v]
  OBVIOUS
<1>2. d.form = "text" /\ d.least = 1 /\ d.most = 1
  <2>1. Known(w)
    BY ConfigAssumption
  <2>2. Correct(d) /\ d.word = w
    BY <1>1, <2>1, FoundCorrect
  <2>3. w \in {"group", "hostname", "backup-policy"}
    OBVIOUS
  <2> QED
    BY <2>2, <2>3 DEF WellFormed, Correct
<1>3. k.args = v /\ Len(k.args) = 1
  BY <1>1
<1>4. Checks(d, k)
  BY <1>2, <1>3 DEF Checks
<1>5. ~ Overruns(d, k)
  BY <1>2 DEF Overruns
<1>6. Reads(d.form, v) /\ Value(d.form, v) = v
  BY <1>2 DEF Reads, Value
<1>7. Settled(d, v)
  BY <1>1, <1>4, <1>5, <1>6 DEF Settled
<1> QED
  BY <1>1, <1>2, <1>7 DEF ValueKept

(* A line that begins a host or a volume.                                     *)
LEMMA HostStored ==
  ASSUME ReadRight, Storable, NEW l \in subject, AddHost(l)
  PROVE  Storable'
<1>1. PICK h, c, f, e : /\ h = l.args[1] /\ c = <<h, "">> /\ f = nodes[Root]
                        /\ e = HostNode(h, f)
  OBVIOUS
<1>2. /\ Placed(l) /\ DirectiveOf[l.word].form = "host"
      /\ nodes' = With(nodes, c, e) /\ UNCHANGED <<subject, devices>>
      /\ Sensible(DirectiveOf[l.word], l)
  BY <1>1 DEF AddHost, Orders, Obeys, Advance
<1>3. h \in HostName /\ c \notin DOMAIN nodes
  BY <1>1, <1>2 DEF Sensible, Assigned
<1>4. h # "" /\ c # Root /\ c[1] = h /\ ~ HasVolume(c)
  <2>1. h # "" /\ c[1] = h /\ ~ HasVolume(c)
    BY <1>1, <1>3, ConfigAssumption DEF HasVolume
  <2> QED
    BY <2>1, GlobalIs DEF HasHost
<1>5. Root \in DOMAIN nodes /\ NodesTyped
  BY DEF ReadRight, ReaderTyped, Families
<1>6. f = [set |-> f.set, backup |-> f.backup, prune |-> f.prune]
  BY <1>1, <1>5, RecordIs
<1>7. /\ e.backup = f.backup /\ e.prune = f.prune
      /\ \A w \in Word : e.set[w] = IF w \in {"group", "hostname"} THEN <<h>>
                                    ELSE IF w \in Inherited THEN f.set[w] ELSE Initially[w]
  <2>1. PICK s : s = [w \in Word |-> IF w \in {"group", "hostname"} THEN <<h>>
                                     ELSE IF w \in Inherited THEN f.set[w] ELSE Initially[w]]
    OBVIOUS
  <2>2. e = [f EXCEPT !.set = s]
    BY <1>1, <2>1 DEF HostNode
  <2>3. e = [set |-> s, backup |-> f.backup, prune |-> f.prune]
    BY <1>6, <2>2
  <2> QED
    BY <2>1, <2>3
<1>8. IsParameters(e.backup) /\ IsParameters(e.prune)
  BY <1>1, <1>5, <1>7 DEF Storable, NodeKept
<1>9. Level(Root) = 1 /\ Level(c) = 2
  BY <1>4 DEF Level
<1>10. ASSUME NEW w \in Word
       PROVE  ValueKept(w, e.set[w]) /\ (Settable(c, w) \/ e.set[w] = Default(c, w))
  <2>1. CASE w \in {"group", "hostname"}
    <3>1. e.set[w] = <<h>> /\ Default(c, w) = <<h>>
      BY <1>4, <1>7, <1>9, <2>1 DEF Default
    <3> QED
      BY <2>1, <3>1, NameKept
  <2>2. CASE w \notin {"group", "hostname"}
    <3>1. e.set[w] = IF w \in Inherited THEN nodes[Root].set[w] ELSE Initially[w]
      BY <1>1, <1>7, <2>2
    <3> QED
      BY <1>5, <1>9, <2>2, <3>1, TakenOver
  <2> QED
    BY <2>1, <2>2
<1> QED
  BY <1>2, <1>3, <1>4, <1>5, <1>8, <1>10, NewStored

LEMMA VolumeStored ==
  ASSUME ReadRight, Storable, NEW l \in subject, AddVolume(l)
  PROVE  Storable'
<1>1. PICK b, v, c, f, e : /\ b = Here(l) /\ v = l.args[1] /\ c = <<b[1], v>>
                           /\ f = nodes[b] /\ e = VolumeNode(f)
  OBVIOUS
<1>2. /\ Placed(l) /\ DirectiveOf[l.word].form = "volume"
      /\ nodes' = With(nodes, c, e) /\ UNCHANGED <<subject, devices>>
      /\ Sensible(DirectiveOf[l.word], l)
  BY <1>1 DEF AddVolume, Orders, Obeys, Advance
<1>3. v \in VolumeName /\ c \notin DOMAIN nodes
  BY <1>1, <1>2 DEF Sensible, Assigned
<1>4. /\ b \in DOMAIN nodes /\ NodesTyped /\ AtLevel(b, LevelOf(l))
      /\ LevelOf(l) \in DirectiveOf[l.word].levels /\ Sound(DirectiveOf[l.word])
  BY <1>1, <1>2, Situation
<1>5. HasHost(b) /\ ~ HasVolume(b) /\ b # Root
  <2>1. LevelOf(l) = 2
    BY <1>2, <1>4 DEF Sound
  <2> QED
    BY <1>4, <2>1, GlobalIs DEF AtLevel
<1>6. c[1] = b[1] /\ c[2] = v /\ HasVolume(c) /\ c # Root
  <2>1. c[1] = b[1] /\ c[2] = v /\ HasVolume(c)
    BY <1>1, <1>3, ConfigAssumption DEF HasVolume
  <2> QED
    BY <2>1, GlobalIs
<1>7. c[1] \in HostName
  BY <1>4, <1>5, <1>6 DEF Storable, NodesNamed
<1>8. f = [set |-> f.set, backup |-> f.backup, prune |-> f.prune]
  BY <1>1, <1>4, RecordIs
<1>9. /\ e.backup = f.backup /\ e.prune = f.prune
      /\ \A w \in Word : e.set[w] = IF w \in Inherited THEN f.set[w] ELSE Initially[w]
  <2>1. PICK s : s = [w \in Word |-> IF w \in Inherited THEN f.set[w] ELSE Initially[w]]
    OBVIOUS
  <2>2. e = [f EXCEPT !.set = s]
    BY <1>1, <2>1 DEF VolumeNode
  <2>3. e = [set |-> s, backup |-> f.backup, prune |-> f.prune]
    BY <1>8, <2>2
  <2> QED
    BY <2>1, <2>3
<1>10. IsParameters(e.backup) /\ IsParameters(e.prune)
  BY <1>1, <1>4, <1>9 DEF Storable, NodeKept
<1>11. Level(b) = 2 /\ Level(c) = 3
  BY <1>5, <1>6 DEF Level
<1>12. ASSUME NEW w \in Word
       PROVE  ValueKept(w, e.set[w]) /\ (Settable(c, w) \/ e.set[w] = Default(c, w))
  <2>1. e.set[w] = IF w \in Inherited THEN nodes[b].set[w] ELSE Initially[w]
    BY <1>1, <1>9
  <2> QED
    BY <1>4, <1>5, <1>6, <1>11, <2>1, TakenOver
<1> QED
  BY <1>2, <1>3, <1>4, <1>6, <1>7, <1>10, <1>12, NewStored

-----------------------------------------------------------------------------
(* So it is from the beginning until the dump.                                         *)
StorableInv == phase \in {"read", "validate", "valid"} => Storable

(* It holds of the defaults, and every step keeps it.                         *)
LEMMA BeginsStorable ==
  ReadInit => StorableInv
<1> SUFFICES ASSUME ReadInit PROVE Storable
  BY DEF StorableInv
<1>1. /\ nodes = [p \in {Root} |-> GlobalNode] /\ devices = {}
      /\ DOMAIN nodes = {Root} /\ nodes[Root] = GlobalNode
  BY DEF ReadInit
<1>2. NodesNamed
  BY <1>1, GlobalIs DEF NodesNamed
<1>3. IsFiniteSet(DOMAIN nodes) /\ IsFiniteSet(devices)
  BY <1>1, FS_EmptySet, FS_Singleton
<1>4. /\ GlobalNode.backup = NoParameter /\ GlobalNode.prune = NoParameter
      /\ \A w \in Word : GlobalNode.set[w] = Initially[w]
  BY DEF GlobalNode
<1>5. NodeKept(Root)
  <2>1. ASSUME NEW w \in Word
        PROVE  ValueKept(w, Held(Root, w)) /\ Held(Root, w) = Default(Root, w)
    <3>1. Held(Root, w) = Initially[w]
      BY <1>1, <1>4 DEF Held
    <3>2. Default(Root, w) = Initially[w]
      BY DEF Default, Level
    <3> QED
      BY <3>1, <3>2, DefaultsKept
  <2> QED
    BY <1>1, <1>4, <2>1, NoParameters DEF NodeKept
<1> QED
  BY <1>1, <1>2, <1>3, <1>5 DEF Storable

LEMMA LineStored ==
  ASSUME ReadRight, Storable, NEW l \in subject, ReadLine(l), phase' # "failed"
  PROVE  Storable'
<1>1. ~ Refuse(l)
  BY DEF Refuse
<1> QED
  BY <1>1, OverrunStored, AssignStored, ExtendStored, ParameterStored, PrunePolicyStored,
     DeviceStored, HostStored, VolumeStored, ExcludeStored DEF ReadLine

LEMMA StorableStays ==
  ReadingInv /\ StorableInv /\ [ReadNext]_reader => StorableInv'
<1> SUFFICES ASSUME ReadingInv, StorableInv, [ReadNext]_reader,
                    phase' \in {"read", "validate", "valid"}
             PROVE  Storable'
  BY DEF StorableInv
<1>1. phase \in {"read", "validate", "valid"} /\ UNCHANGED <<subject, nodes, devices>>
        => Storable'
  <2> SUFFICES ASSUME phase \in {"read", "validate", "valid"},
                      UNCHANGED <<subject, nodes, devices>>
               PROVE  Storable'
    OBVIOUS
  <2>1. ReadRight /\ Storable
    BY DEF ReadingInv, StorableInv
  <2>2. IsFiniteSet(devices')
    BY <2>1 DEF Storable
  <2> QED
    BY <2>1, <2>2, SameStored
<1>2. ASSUME NEW l \in Offered, ReadLine(l)
      PROVE  Storable'
  <2>1. phase = "read" /\ l \in subject
    <3>1. phase = "reread" => phase' \notin {"read", "validate", "valid"}
      BY <1>2 DEF ReadLine, Refuse, Overrun, Assign, Extend, SetParameter, SetPrunePolicy, AddStore,
                  AddDevice, AddHost, AddVolume, AddExclude, Include, Advance
    <3> QED
      BY <1>2, <3>1 DEF Offered
  <2>2. ReadRight /\ Storable
    BY <2>1 DEF ReadingInv, StorableInv
  <2> QED
    BY <1>2, <2>1, <2>2, LineStored
<1>3. CASE EndFile
  <2>1. phase \in {"read", "validate", "valid"} /\ UNCHANGED <<subject, nodes, devices>>
    BY <1>3 DEF EndFile
  <2> QED
    BY <1>1, <2>1
<1>4. CASE Validate
  BY <1>1, <1>4 DEF Validate
<1>5. CASE Dump
  BY <1>5 DEF Dump
<1>6. CASE ReadingOver \/ UNCHANGED reader
  <2>1. UNCHANGED <<phase, subject, nodes, devices>>
    BY <1>6 DEF ReadingOver, reader
  <2> QED
    BY <1>1, <2>1
<1> QED
  BY <1>2, <1>3, <1>4, <1>5, <1>6 DEF ReadNext

(* With the shape that reading keeps, a configuration that has been read can be written. *)
LEMMA WritableWhenRead ==
  ASSUME ReadRight, Storable
  PROVE  Writable
BY DEF ReadRight, ReaderTyped, Storable, Writable

-----------------------------------------------------------------------------
(* The dump, read again: the invariant.                                       *)
(* What is left to read ends in what was dumped.                                      *)
Agrees(t) ==
  /\ DOMAIN t.nodes = DOMAIN kept.nodes /\ t.devices = kept.devices
  /\ \A p \in DOMAIN t.nodes :
       /\ t.nodes[p].backup = kept.nodes[p].backup
       /\ t.nodes[p].prune = kept.nodes[p].prune
       /\ \A w \in Word : Lost(p, w) \/ t.nodes[p].set[w] = kept.nodes[p].set[w]

Resumes ==
  \E s, t : Standing(s) /\ Leads(script, s, t) /\ Listed(script) /\ Agrees(t)

RereadInv ==
  /\ phase \in {"read", "validate", "valid"} => DOMAIN kept.nodes = {}
  /\ phase = "failed" => DOMAIN kept.nodes = {} \/ Unreadable(kept.nodes)
  /\ phase = "reread" => Unreadable(kept.nodes) \/ Resumes
  /\ phase = "done" =>
       Unreadable(kept.nodes) \/ Agrees([nodes |-> nodes, devices |-> devices, at |-> Root])

(* What is lost of a node is known from what it held.                         *)
LEMMA LostAsBefore ==
  ASSUME kept'.nodes = nodes, NEW p, NEW w, LostHere(p, w)
  PROVE  Lost(p, w)'
<1>1. kept'.nodes[p].set[w] = Held(p, w)
  BY DEF Held
<1>2. OmittedAsNothing(p, w)' <=>
        /\ w \in {"backup-job-timeout", "rsync-io-timeout", "hook-timeout", "rsync-remote", "devices"}
        /\ p # Root /\ kept'.nodes[p].set[w] \in {<<"0s">>, <<"">>}
  BY DEF OmittedAsNothing, Root
<1>3. (w \in Unwritten)' <=> w \in Unwritten
  BY DEF Unwritten
<1>4. (w = "group" /\ p = Root)' <=> w = "group" /\ p = Root
  BY DEF Root
<1>5. (w = "host-check" /\ p[2] # "")' <=> w = "host-check" /\ HasVolume(p)
  BY DEF HasVolume
<1> QED
  BY <1>1, <1>2, <1>3, <1>4, <1>5 DEF LostHere, Lost

(* The dump begins with a reader that has read nothing.                                   *)
LEMMA DumpBegins ==
  ASSUME Dump
  PROVE  Standing(Start)'
<1>1. /\ nodes' = [p \in {Root} |-> GlobalNode] /\ devices' = {} /\ files' = <<NewFile(1)>>
  BY DEF Dump
<1>2. /\ Start.nodes = [p \in {Root} |-> GlobalNode] /\ Start.devices = {} /\ Start.at = Root
  BY DEF Start
<1>3. PICK f : f = NewFile(1)
  OBVIOUS
<1>4. f = InsideOf(Root)
  <2>1. Level(Root) = 1
    BY DEF Level
  <2>2. StackOf(1) = <<0>>
    <3>1. StackOf(1) = [i \in 1 .. 1 |-> 0]
      BY DEF StackOf
    <3>2. <<0>> = [i \in 1 .. 1 |-> 0]
      OBVIOUS
    <3> QED
      BY <3>1, <3>2
  <2> QED
    BY <1>3, <2>1, <2>2 DEF NewFile, InsideOf
<1>5. Len(files') = 1 /\ files' = <<files'[1]>> /\ files'[1] = f
  BY <1>1, <1>3
<1>6. Root \in Names \X Names
  BY DEF Root, Names
<1>7. InBlock(files[1], Start.at)'
  BY <1>2, <1>4, <1>5 DEF InBlock, InsideOf
<1> QED
  BY <1>1, <1>2, <1>5, <1>6, <1>7 DEF Standing

(* A dump that is readable leads back to what was dumped.                     *)
LEMMA DumpResumes ==
  ASSUME ReadRight, Storable, Dump, ~ Unreadable(nodes)
  PROVE  Resumes'
<1>1. Writable
  BY WritableWhenRead
<1>2. PICK t : /\ Leads(ConfWrite, Start, t)
               /\ DOMAIN t.nodes = DOMAIN nodes /\ t.devices = devices
               /\ \A p \in DOMAIN nodes : Back(p, t.nodes[p])
  BY <1>1, DumpLeads
<1>3. script' = ConfWrite /\ Listed(ConfWrite)
  BY <1>1, DumpLeads DEF Dump
<1>4. kept'.nodes = nodes /\ kept'.devices = devices
  BY DEF Dump
<1>5. ASSUME NEW p \in DOMAIN nodes, NEW w \in Word
      PROVE  Lost(p, w)' \/ t.nodes[p].set[w] = kept'.nodes[p].set[w]
  <2>1. LostHere(p, w) \/ t.nodes[p].set[w] = Held(p, w)
    BY <1>2 DEF Back
  <2>2. Held(p, w) = kept'.nodes[p].set[w]
    BY <1>4 DEF Held
  <2> QED
    BY <1>4, <2>1, <2>2, LostAsBefore
<1>6. \A p \in DOMAIN nodes : /\ t.nodes[p].backup = kept'.nodes[p].backup
                              /\ t.nodes[p].prune = kept'.nodes[p].prune
  BY <1>2, <1>4 DEF Back
<1>7. Agrees(t)'
  BY <1>2, <1>4, <1>5, <1>6 DEF Agrees
<1>8. Leads(script, Start, t)' /\ Listed(script)'
  BY <1>2, <1>3
<1>9. Standing(Start)'
  BY DumpBegins
<1> QED
  BY <1>7, <1>8, <1>9 DEF Resumes

(* Each line of it is accepted, and what is left still leads there.           *)
LEMMA LineResumes ==
  ASSUME phase = "reread", Resumes, NEW l \in Offered, ReadLine(l)
  PROVE  phase' = "reread" /\ UNCHANGED kept /\ Resumes'
<1>1. PICK s, t : Standing(s) /\ Leads(script, s, t) /\ Listed(script) /\ Agrees(t)
  BY DEF Resumes
<1>2. script # <<>> /\ l = script[1]
  BY DEF Offered
<1>3. PICK S : script \in Seq(S)
  BY <1>1, AsSequence
<1>4. PICK u : Takes(s, script[1], u) /\ Leads(Tail(script), u, t)
  BY <1>1, <1>2, <1>3, LeadsFirst
<1>5. Standing(u)' /\ TheRestStays
  BY <1>1, <1>2, <1>4, LineReadBack
<1>6. phase' = "reread" /\ script' = Tail(script) /\ kept' = kept
  BY <1>5 DEF TheRestStays
<1>7. Listed(Tail(script))
  BY <1>1, <1>2, TailListed
<1>8. Leads(script, u, t)' /\ Listed(script)'
  BY <1>4, <1>6, <1>7
<1>9. Agrees(t)'
  BY <1>1, <1>6 DEF Agrees, Lost, OmittedAsNothing
<1> QED
  BY <1>5, <1>6, <1>8, <1>9 DEF Resumes

(* At its end the reader has what was dumped.                                 *)
LEMMA EndAgrees ==
  ASSUME phase = "reread", Resumes, EndFile
  PROVE  /\ phase' = "done" /\ UNCHANGED kept
         /\ Agrees([nodes |-> nodes, devices |-> devices, at |-> Root])'
<1>1. PICK s, t : Standing(s) /\ Leads(script, s, t) /\ Agrees(t)
  BY DEF Resumes
<1>2. script = <<>> /\ UNCHANGED <<nodes, devices, kept>>
  BY DEF EndFile
<1>3. s = t
  BY <1>1, <1>2, LeadsLast
<1>4. phase' = "done"
  BY <1>1 DEF EndFile, Standing
<1>5. s.nodes = nodes /\ s.devices = devices
  BY <1>1 DEF Standing
<1>6. PICK r : r = [nodes |-> nodes', devices |-> devices', at |-> Root]
  OBVIOUS
<1>7. r.nodes = t.nodes /\ r.devices = t.devices
  BY <1>2, <1>3, <1>5, <1>6
<1>8. Agrees(r)
  BY <1>1, <1>7 DEF Agrees
<1>9. Agrees(r)'
  BY <1>2, <1>8 DEF Agrees, Lost, OmittedAsNothing
<1> QED
  BY <1>2, <1>4, <1>6, <1>9 DEF Agrees

(* Whether a dump is readable does not change while it is read, nor what was dumped. *)
LEMMA UnreadableStays ==
  ASSUME UNCHANGED kept
  PROVE  Unreadable(kept.nodes)' <=> Unreadable(kept.nodes)
BY DEF Unreadable

LEMMA KeptStays ==
  ASSUME NEW l \in Offered, ReadLine(l)
  PROVE  /\ UNCHANGED kept /\ phase \in {"read", "reread"} /\ phase' \in {phase, "failed"}
<1>1. phase \in {"read", "reread"}
  BY DEF Offered
<1> QED
  BY <1>1 DEF ReadLine, Refuse, Overrun, Assign, Extend, SetParameter, SetPrunePolicy, AddStore,
              AddDevice, AddHost, AddVolume, AddExclude, Include, Advance

(* The invariant holds at the beginning, and every step keeps it.             *)
LEMMA BeginsReread ==
  ReadInit => RereadInv
BY DEF ReadInit, RereadInv

LEMMA RereadStays ==
  ReadingInv /\ StorableInv /\ RereadInv /\ [ReadNext]_reader => RereadInv'
<1> SUFFICES ASSUME ReadingInv, StorableInv, RereadInv, [ReadNext]_reader
             PROVE  RereadInv'
  OBVIOUS
<1>1. ASSUME NEW l \in Offered, ReadLine(l)
      PROVE  RereadInv'
  <2>1. /\ UNCHANGED kept /\ phase \in {"read", "reread"} /\ phase' \in {phase, "failed"}
    BY <1>1, KeptStays
  <2>2. Unreadable(kept.nodes)' <=> Unreadable(kept.nodes)
    BY <2>1, UnreadableStays
  <2>3. CASE phase = "read"
    <3>1. DOMAIN kept'.nodes = {} /\ phase' \in {"read", "failed"}
      BY <2>1, <2>3 DEF RereadInv
    <3> QED
      BY <3>1 DEF RereadInv
  <2>4. CASE phase = "reread" /\ Unreadable(kept.nodes)
    <3>1. Unreadable(kept.nodes)' /\ phase' \in {"reread", "failed"}
      BY <2>1, <2>2, <2>4
    <3> QED
      BY <3>1 DEF RereadInv
  <2>5. CASE phase = "reread" /\ ~ Unreadable(kept.nodes)
    <3>1. phase' = "reread" /\ Resumes'
      BY <1>1, <2>5, LineResumes DEF RereadInv
    <3> QED
      BY <3>1 DEF RereadInv
  <2> QED
    BY <2>1, <2>3, <2>4, <2>5
<1>2. CASE EndFile
  <2>1. UNCHANGED kept /\ (Unreadable(kept.nodes)' <=> Unreadable(kept.nodes))
    BY <1>2, UnreadableStays DEF EndFile
  <2>2. CASE phase = "read"
    <3>1. DOMAIN kept'.nodes = {} /\ phase' \in {"read", "validate"}
      BY <1>2, <2>1, <2>2 DEF RereadInv, EndFile
    <3> QED
      BY <3>1 DEF RereadInv
  <2>3. CASE phase = "reread" /\ Unreadable(kept.nodes)
    <3>1. Unreadable(kept.nodes)' /\ phase' \in {"reread", "done"}
      BY <1>2, <2>1, <2>3 DEF EndFile
    <3> QED
      BY <3>1 DEF RereadInv
  <2>4. CASE phase = "reread" /\ ~ Unreadable(kept.nodes)
    <3>1. phase' = "done" /\ Agrees([nodes |-> nodes, devices |-> devices, at |-> Root])'
      BY <1>2, <2>4, EndAgrees DEF RereadInv
    <3> QED
      BY <3>1 DEF RereadInv
  <2> QED
    BY <1>2, <2>2, <2>3, <2>4 DEF EndFile
<1>3. CASE Validate
  <2>1. phase = "validate" /\ phase' \in {"valid", "failed"} /\ UNCHANGED kept
    BY <1>3 DEF Validate
  <2>2. DOMAIN kept'.nodes = {}
    BY <2>1 DEF RereadInv
  <2> QED
    BY <2>1, <2>2 DEF RereadInv
<1>4. CASE Dump
  <2>1. phase = "valid" /\ phase' = "reread" /\ kept'.nodes = nodes
    BY <1>4 DEF Dump
  <2>2. ReadRight /\ Storable
    BY <2>1 DEF ReadingInv, StorableInv
  <2>3. Unreadable(nodes) => Unreadable(kept.nodes)'
    BY <2>1 DEF Unreadable
  <2>4. Unreadable(kept.nodes)' \/ Resumes'
    BY <1>4, <2>2, <2>3, DumpResumes
  <2> QED
    BY <2>1, <2>4 DEF RereadInv
<1>5. CASE ReadingOver \/ UNCHANGED reader
  <2>1. UNCHANGED <<phase, nodes, devices, files, script, kept>>
    BY <1>5 DEF ReadingOver, reader
  <2>2. Unreadable(kept.nodes)' <=> Unreadable(kept.nodes)
    BY <2>1, UnreadableStays
  <2>3. \A t : Agrees(t) => Agrees(t)'
    BY <2>1 DEF Agrees, Lost, OmittedAsNothing
  <2>4. \A s : Standing(s) => Standing(s)'
    BY <2>1 DEF Standing
  <2>5. Resumes => Resumes'
    <3> SUFFICES ASSUME Resumes PROVE Resumes'
      OBVIOUS
    <3>1. PICK s, t : Standing(s) /\ Leads(script, s, t) /\ Listed(script) /\ Agrees(t)
      BY DEF Resumes
    <3>2. Leads(script, s, t)' /\ Listed(script)'
      BY <2>1, <3>1
    <3> QED
      BY <2>3, <2>4, <3>1, <3>2 DEF Resumes
  <2>6. PICK r : r = [nodes |-> nodes, devices |-> devices, at |-> Root]
    OBVIOUS
  <2>7. Agrees(r) => Agrees([nodes |-> nodes, devices |-> devices, at |-> Root])'
    BY <2>1, <2>3, <2>6 DEF Agrees
  <2> QED
    BY <2>1, <2>2, <2>5, <2>6, <2>7 DEF RereadInv
<1> QED
  BY <1>1, <1>2, <1>3, <1>4, <1>5 DEF ReadNext

(* It says what the dump promises.                                            *)
LEMMA RereadIsRight ==
  RereadInv => DumpReadsBack
<1> SUFFICES ASSUME RereadInv PROVE DumpReadsBack
  OBVIOUS
<1>1. phase = "failed" /\ DOMAIN kept.nodes # {} => Unreadable(kept.nodes)
  BY DEF RereadInv
<1>2. ASSUME phase = "done", ~ Unreadable(kept.nodes)
      PROVE  /\ DOMAIN nodes = DOMAIN kept.nodes /\ devices = kept.devices
             /\ \A p \in DOMAIN nodes :
                  /\ nodes[p].backup = kept.nodes[p].backup
                  /\ nodes[p].prune = kept.nodes[p].prune
                  /\ \A w \in Word : Lost(p, w) \/ Held(p, w) = kept.nodes[p].set[w]
  <2>1. PICK r : r = [nodes |-> nodes, devices |-> devices, at |-> Root]
    OBVIOUS
  <2>2. Agrees(r) /\ r.nodes = nodes /\ r.devices = devices
    BY <1>2, <2>1 DEF RereadInv
  <2> QED
    BY <2>2 DEF Agrees, Held
<1> QED
  BY <1>1, <1>2 DEF DumpReadsBack

(* The dump of a valid configuration, which Conf::write() and those it calls        *)
(* write, is accepted line by line when it is read again, and gives the same      *)
(* hosts, volumes, devices, parameters and settings, but for those Lost: for     *)
(* every configuration that lines can make, however many words, hosts, volumes    *)
(* and lists, and whatever order sets are written in.                            *)
THEOREM DumpAlwaysReadsBack == ReadSpec => []DumpReadsBack
<1>1. ReadInit => ReadingInv /\ StorableInv /\ RereadInv
  BY BeginsRight, BeginsStorable, BeginsReread
<1>2. ReadingInv /\ StorableInv /\ RereadInv /\ [ReadNext]_reader
        => (ReadingInv /\ StorableInv /\ RereadInv)'
  BY ReadingStays, StorableStays, RereadStays
<1>3. RereadInv => DumpReadsBack
  BY RereadIsRight
<1> QED
  BY <1>1, <1>2, <1>3, PTL DEF ReadSpec
=============================================================================
