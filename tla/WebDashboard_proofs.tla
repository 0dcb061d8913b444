------------------------- MODULE WebDashboard_proofs -------------------------
(***************************************************************************)
(* The page never asks for, nor shows, a page of the history that is not   *)
(* there. What keeps it so is that jobs are only added: an answer counts   *)
(* at least the jobs that the pager was made from, in whatever order the   *)
(* answers come.                                                           *)
(***************************************************************************)
EXTENDS WebDashboard, TLAPS

(* Page p of a history of so many jobs is there: it is the first, or the   *)
(* pages before it do not hold them all.                                   *)
Exists(p, total) == p = 1 \/ (p - 1) * PageSize < total

LoadInv(load) ==
  load # NoLoad =>
    /\ Exists(load.page, jobs) /\ load.history.jobs <= jobs
    /\ load.history.phase = "ok" => Exists(load.page, load.history.jobs)

IInv ==
  /\ TypeOK
  /\ \A l \in Loads : LoadInv(loads[l])
  /\ shown.total <= jobs
  /\ Exists(page, shown.total)
  /\ shown.page # 0 => Exists(shown.page, shown.total)

-----------------------------------------------------------------------------
(* The number of pages.                                                    *)

LEMMA MaxOfTwo ==
  ASSUME NEW a \in Int, NEW b \in Int
  PROVE  Max({a, b}) \in {a, b} /\ Max({a, b}) >= a /\ Max({a, b}) >= b
<1> DEFINE P(x) == x \in {a, b} /\ \A y \in {a, b} : x >= y
<1>1. \E x : P(x)
  <2>1. CASE a >= b
    <3>1. P(a)
      BY <2>1
    <3> QED
      BY <3>1
  <2>2. CASE ~(a >= b)
    <3>1. P(b)
      BY <2>2
    <3> QED
      BY <3>1
  <2> QED
    BY <2>1, <2>2
<1>2. P(CHOOSE x : P(x))
  BY <1>1, Zenon
<1>3. Max({a, b}) = CHOOSE x : P(x)
  BY DEF Max
<1> QED
  BY <1>2, <1>3

LEMMA MinOfTwo ==
  ASSUME NEW a \in Int, NEW b \in Int
  PROVE  Min({a, b}) \in {a, b} /\ Min({a, b}) <= a /\ Min({a, b}) <= b
<1> DEFINE P(x) == x \in {a, b} /\ \A y \in {a, b} : x <= y
<1>1. \E x : P(x)
  <2>1. CASE a <= b
    <3>1. P(a)
      BY <2>1
    <3> QED
      BY <3>1
  <2>2. CASE ~(a <= b)
    <3>1. P(b)
      BY <2>2
    <3> QED
      BY <3>1
  <2> QED
    BY <2>1, <2>2
<1>2. P(CHOOSE x : P(x))
  BY <1>1, Zenon
<1>3. Min({a, b}) = CHOOSE x : P(x)
  BY DEF Min
<1> QED
  BY <1>2, <1>3

(* Multiples of a positive number are in the order of their factors.       *)
LEMMA Multiples ==
  ASSUME NEW a \in Int, NEW b \in Int, NEW c \in Nat \ {0}
  PROVE  a * c \in Int /\ b * c \in Int /\ (a <= b <=> a * c <= b * c)
<1>1. a * c \in Int /\ b * c \in Int
  OBVIOUS
<1>2. (b - a) * c = b * c - a * c
  OBVIOUS
<1>3. a <= b => (b - a) * c >= 0
  OBVIOUS
<1>4. b < a => (b - a) * c < 0
  OBVIOUS
<1> QED
  BY <1>1, <1>2, <1>3, <1>4

(* The quotient, rounded up.                                               *)
LEMMA RoundedUp ==
  ASSUME NEW total \in Nat
  PROVE  LET q == (total + PageSize - 1) \div PageSize IN
         /\ q \in Nat
         /\ (q - 1) * PageSize < total \/ q = 0
         /\ total <= q * PageSize
<1> DEFINE q == (total + PageSize - 1) \div PageSize
<1>1. PageSize \in Nat /\ PageSize >= 1
  BY PageSizeAssumption
<1>2. q \in Int /\ q * PageSize <= total + PageSize - 1 /\ total + PageSize - 1 < (q + 1) * PageSize
  BY <1>1
<1> QED
  BY <1>1, <1>2

(* Only a page that is there is among those the pager has.                 *)
LEMMA PagesExist ==
  ASSUME NEW total \in Nat, NEW p \in Nat \ {0}
  PROVE  PagesOf(total) \in Nat \ {0} /\ (p <= PagesOf(total) => Exists(p, total))
<1> DEFINE q == (total + PageSize - 1) \div PageSize
<1>1. /\ q \in Nat /\ total <= q * PageSize
      /\ (q - 1) * PageSize < total \/ q = 0
  BY RoundedUp
<1> HIDE DEF q
<1>2. PagesOf(total) \in {1, q} /\ PagesOf(total) >= 1
  <2>1. PagesOf(total) = Max({1, q}) /\ 1 \in Int /\ q \in Int
    BY <1>1 DEF PagesOf, q
  <2>2. \A a, b \in Int : Max({a, b}) \in {a, b} /\ Max({a, b}) >= a
    BY MaxOfTwo
  <2> QED
    BY <2>1, <2>2, Zenon
<1>3. ASSUME p <= PagesOf(total), p # 1
      PROVE  (p - 1) * PageSize < total
  <2>1. p - 1 \in Int /\ q - 1 \in Int /\ p - 1 <= q - 1 /\ q # 0
    BY <1>1, <1>2, <1>3
  <2>2. (p - 1) * PageSize \in Int /\ (q - 1) * PageSize \in Int
        /\ (p - 1) * PageSize <= (q - 1) * PageSize
    BY <2>1, Multiples, PageSizeAssumption
  <2> QED
    BY <1>1, <2>1, <2>2
<1> QED
  BY <1>1, <1>2, <1>3 DEF Exists

(* A page that is there is among those that are needed.                    *)
LEMMA ExistingIsNeeded ==
  ASSUME NEW total \in Nat, NEW p \in Nat \ {0}, Exists(p, total)
  PROVE  Needed(total) \in Nat /\ p <= Needed(total)
<1> DEFINE Fits(k) == (total = 0 /\ k = 1) \/ ((k - 1) * PageSize < total /\ total <= k * PageSize)
           q == (total + PageSize - 1) \div PageSize
<1>1. /\ q \in Nat /\ total <= q * PageSize
      /\ (q - 1) * PageSize < total \/ q = 0
  BY RoundedUp
<1>2. PageSize \in Nat /\ PageSize >= 1
  BY PageSizeAssumption
<1> HIDE DEF q
<1>3. \E k \in 1 .. total + 1 : Fits(k)
  <2>1. CASE total = 0
    <3>1. Fits(1) /\ 1 \in 1 .. total + 1
      BY <2>1
    <3> QED
      BY <3>1
  <2>2. CASE total > 0
    <3>1. q # 0
      BY <1>1, <1>2, <2>2
    <3>2. q - 1 <= (q - 1) * PageSize
      BY <1>1, <1>2, <3>1
    <3>3. Fits(q) /\ q \in 1 .. total + 1
      BY <1>1, <1>2, <3>1, <3>2
    <3> QED
      BY <3>3
  <2> QED
    BY <2>1, <2>2
<1>4. Needed(total) \in 1 .. total + 1 /\ Fits(Needed(total))
  BY <1>3 DEF Needed
<1> DEFINE k == Needed(total)
<1> HIDE DEF k
<1>5. k \in Int /\ k >= 1 /\ Fits(k)
  BY <1>4 DEF k
<1>6. CASE p = 1
  BY <1>5, <1>6 DEF k
<1>7. CASE p # 1
  <2>1. (p - 1) * PageSize < total
    BY <1>7 DEF Exists
  <2>2. p - 1 \in Int /\ p - 1 >= 0 /\ (p - 1) * PageSize \in Int /\ (p - 1) * PageSize >= 0
    BY <1>2
  <2>3. total <= k * PageSize
    <3>1. total # 0
      BY <2>1, <2>2
    <3> QED
      BY <1>5, <3>1
  <2>4. (p - 1) * PageSize \in Int /\ k * PageSize \in Int
        /\ (k <= p - 1 <=> k * PageSize <= (p - 1) * PageSize)
    BY <1>5, <2>2, Multiples, PageSizeAssumption
  <2>5. ~(k <= p - 1)
    BY <2>1, <2>3, <2>4
  <2> QED
    BY <1>5, <2>2, <2>5 DEF k
<1> QED
  BY <1>5, <1>6, <1>7 DEF k

(* A page that is there stays there when jobs are added.                   *)
LEMMA ExistsLater ==
  ASSUME NEW p \in Nat \ {0}, NEW total \in Nat, NEW later \in Nat,
         total <= later, Exists(p, total)
  PROVE  Exists(p, later)
<1>1. PageSize \in Nat /\ (p - 1) * PageSize \in Int
  BY PageSizeAssumption
<1> QED
  BY <1>1 DEF Exists

LEMMA ClampedExists ==
  ASSUME NEW p \in Nat, NEW total \in Nat
  PROVE  Clamped(p, total) \in Nat \ {0} /\ Exists(Clamped(p, total), total)
<1>1. PagesOf(total) \in Nat \ {0}
  BY PagesExist
<1>2. Max({1, p}) \in Nat \ {0}
  BY MaxOfTwo
<1>3. /\ Clamped(p, total) \in {Max({1, p}), PagesOf(total)}
      /\ Clamped(p, total) <= PagesOf(total)
  <2> DEFINE a == Max({1, p})
             b == PagesOf(total)
  <2>1. Clamped(p, total) = Min({a, b}) /\ a \in Int /\ b \in Int
    BY <1>1, <1>2 DEF Clamped
  <2>2. \A x, y \in Int : Min({x, y}) \in {x, y} /\ Min({x, y}) <= y
    BY MinOfTwo
  <2> HIDE DEF a, b
  <2>3. Clamped(p, total) \in {a, b} /\ Clamped(p, total) <= b
    BY <2>1, <2>2, Zenon
  <2> QED
    BY <2>3 DEF a, b
<1>4. Clamped(p, total) \in Nat \ {0}
  BY <1>1, <1>2, <1>3
<1> QED
  BY <1>3, <1>4, PagesExist

-----------------------------------------------------------------------------
(* Steps.                                                                  *)

LEMMA SpendTyped ==
  ASSUME TypeOK, NEW kind \in BudgetKinds, Spend(kind)
  PROVE  budget' \in [BudgetKinds -> Nat]
  BY DEF TypeOK, Spend

LEMMA RecordsAreLoads ==
  ASSUME NEW load \in LoadRecords
  PROVE  load # NoLoad /\ load.page \in Nat \ {0} /\ load.sort \in Sorts
         /\ load.dashboard \in Requests /\ load.history \in Requests
         /\ load.history.jobs \in Nat
<1>1. load.page \in Nat \ {0} /\ NoLoad.page = 0
  BY DEF LoadRecords, NoLoad
<1> QED
  BY <1>1 DEF LoadRecords, Requests

(* A load asks for a page that is there, or has changed into one that      *)
(* does; jobs are only added.                                              *)
LEMMA LoadsChange ==
  ASSUME IInv, TypeOK', jobs <= jobs', shown' = shown, Exists(page', shown.total),
         \A l \in Loads : loads'[l] = loads[l] \/ LoadInv(loads[l])'
  PROVE  IInv'
<1>1. TypeOK /\ jobs \in Nat /\ jobs' \in Nat
  BY DEF IInv, TypeOK
<1>2. ASSUME NEW l \in Loads, loads'[l] = loads[l]
      PROVE  LoadInv(loads[l])'
  <2> SUFFICES ASSUME loads[l] # NoLoad
               PROVE  /\ Exists(loads[l].page, jobs') /\ loads[l].history.jobs <= jobs'
                      /\ loads[l].history.phase = "ok" => Exists(loads[l].page, loads[l].history.jobs)
    BY <1>2 DEF LoadInv, Exists
  <2>1. loads[l] \in LoadRecords
    BY <1>1 DEF TypeOK
  <2>2. loads[l].page \in Nat \ {0} /\ loads[l].history.jobs \in Nat
    BY <2>1, RecordsAreLoads
  <2>3. /\ Exists(loads[l].page, jobs) /\ loads[l].history.jobs <= jobs
        /\ loads[l].history.phase = "ok" => Exists(loads[l].page, loads[l].history.jobs)
    BY DEF IInv, LoadInv
  <2> QED
    BY <1>1, <2>2, <2>3, ExistsLater
<1>3. shown.total \in Nat /\ shown.total <= jobs'
  <2>1. shown.total \in Nat /\ shown.total <= jobs
    BY <1>1 DEF IInv, TypeOK, Views
  <2> QED
    BY <1>1, <2>1
<1>4. \A l \in Loads : LoadInv(loads[l])'
  BY <1>2
<1> QED
  BY <1>3, <1>4 DEF IInv, Exists

(* What a load asks for when it begins.                                    *)
LEMMA BeginStep ==
  ASSUME TypeOK, NEW l \in Loads, NEW p \in Nat \ {0}, NEW s \in Sorts, Begin(l, p, s)
  PROVE  /\ loads' \in [Loads -> LoadRecords \cup {NoLoad}]
         /\ \A k \in Loads : loads'[k] = loads[k] \/ loads'[k] = NewLoad(p, s)
         /\ NewLoad(p, s) \in LoadRecords /\ NewLoad(p, s).page = p
         /\ NewLoad(p, s).history.jobs = 0 /\ NewLoad(p, s).history.phase # "ok"
<1>1. Sent \in Requests /\ Sent.jobs = 0 /\ Sent.phase = "sent"
  BY DEF Sent, Requests
<1>2. /\ NewLoad(p, s) \in LoadRecords /\ NewLoad(p, s).page = p
      /\ NewLoad(p, s).history = Sent
  BY <1>1 DEF NewLoad, LoadRecords
<1> QED
  BY <1>1, <1>2 DEF Begin, TypeOK

(* A load that has begun for a page that is there.                         *)
LEMMA BegunInv ==
  ASSUME TypeOK, jobs' = jobs, NEW p \in Nat \ {0}, NEW s \in Sorts, Exists(p, jobs),
         NEW load, load = NewLoad(p, s)
  PROVE  /\ Exists(load.page, jobs') /\ load.history.jobs <= jobs'
         /\ load.history.phase # "ok"
<1>1. load.page = p /\ load.history.jobs = 0 /\ load.history.phase = "sent"
  BY DEF NewLoad, Sent
<1> QED
  BY <1>1 DEF TypeOK

LEMMA PageExistsNow ==
  ASSUME IInv
  PROVE  /\ page \in Nat \ {0} /\ shown.total \in Nat /\ jobs \in Nat /\ sort \in Sorts
         /\ Exists(page, shown.total) /\ Exists(page, jobs)
         /\ \A p \in Nat \ {0} : p <= PagesOf(shown.total) => Exists(p, shown.total) /\ Exists(p, jobs)
<1>1. /\ page \in Nat \ {0} /\ shown.total \in Nat /\ jobs \in Nat /\ sort \in Sorts
      /\ shown.total <= jobs /\ Exists(page, shown.total)
  BY DEF IInv, TypeOK, Views
<1>2. Exists(page, jobs)
  BY <1>1, ExistsLater
<1>3. ASSUME NEW p \in Nat \ {0}, p <= PagesOf(shown.total)
      PROVE  Exists(p, shown.total) /\ Exists(p, jobs)
  <2>1. Exists(p, shown.total)
    BY <1>1, <1>3, PagesExist
  <2> QED
    BY <1>1, <2>1, ExistsLater
<1> QED
  BY <1>1, <1>2, <1>3

LEMMA TimerStep ==
  ASSUME IInv, NEW l \in Loads, Timer(l)
  PROVE  IInv'
<1>1. TypeOK /\ Begin(l, page, sort)
      /\ UNCHANGED <<jobs, token, cookie, where, page, sort, shown, pulse, signIn, budget>>
  BY DEF IInv, Timer, serverVars, pageVars
<1>2. page \in Nat \ {0} /\ sort \in Sorts /\ jobs \in Nat
      /\ Exists(page, jobs) /\ Exists(page, shown.total)
  BY PageExistsNow
<1>3. /\ loads' \in [Loads -> LoadRecords \cup {NoLoad}]
      /\ \A k \in Loads : loads'[k] = loads[k] \/ loads'[k] = NewLoad(page, sort)
  BY <1>1, <1>2, BeginStep
<1>4. TypeOK'
  BY <1>1, <1>3 DEF TypeOK
<1>5. \A k \in Loads : loads'[k] = NewLoad(page, sort) => LoadInv(loads[k])'
  BY <1>1, <1>2, BegunInv DEF LoadInv, Exists
<1> QED
  BY <1>1, <1>2, <1>3, <1>4, <1>5, LoadsChange

LEMMA ClickPageStep ==
  ASSUME IInv, NEW l \in Loads, NEW p \in {page - 1, page + 1}, ClickPage(l, p)
  PROVE  IInv'
<1>1. TypeOK /\ Begin(l, p, sort) /\ page' = p /\ p \in 1 .. PagesOf(shown.total)
      /\ Spend("clicks")
      /\ UNCHANGED <<jobs, token, cookie, where, sort, shown, pulse, signIn>>
  BY DEF IInv, ClickPage, serverVars
<1>2. sort \in Sorts /\ jobs \in Nat /\ shown.total \in Nat
  BY PageExistsNow
<1>3. p \in Nat \ {0} /\ p <= PagesOf(shown.total)
  BY <1>1, <1>2, PagesExist
<1>4. Exists(p, shown.total) /\ Exists(p, jobs)
  BY <1>3, PageExistsNow
<1>5. /\ loads' \in [Loads -> LoadRecords \cup {NoLoad}]
      /\ \A k \in Loads : loads'[k] = loads[k] \/ loads'[k] = NewLoad(p, sort)
  BY <1>1, <1>2, <1>3, BeginStep
<1>6. TypeOK'
  BY <1>1, <1>3, <1>5, SpendTyped DEF TypeOK, BudgetKinds
<1>7. \A k \in Loads : loads'[k] = NewLoad(p, sort) => LoadInv(loads[k])'
  BY <1>1, <1>2, <1>3, <1>4, BegunInv DEF LoadInv, Exists
<1> QED
  BY <1>1, <1>2, <1>4, <1>5, <1>6, <1>7, LoadsChange

LEMMA ClickSortStep ==
  ASSUME IInv, NEW l \in Loads, NEW key \in SortKeys, ClickSort(l, key)
  PROVE  IInv'
<1>1. TypeOK /\ Begin(l, 1, sort') /\ page' = 1 /\ Spend("clicks")
      /\ UNCHANGED <<jobs, token, cookie, where, shown, pulse, signIn>>
  BY DEF IInv, ClickSort, serverVars
<1>2. sort \in Sorts /\ jobs \in Nat /\ shown.total \in Nat
  BY PageExistsNow
<1>3. sort' \in Sorts
  BY <1>2 DEF ClickSort, Sorts
<1>4. Exists(1, shown.total) /\ Exists(1, jobs)
  BY DEF Exists
<1>5. /\ loads' \in [Loads -> LoadRecords \cup {NoLoad}]
      /\ \A k \in Loads : loads'[k] = loads[k] \/ loads'[k] = NewLoad(1, sort')
  BY <1>1, <1>3, BeginStep
<1>6. TypeOK'
  BY <1>1, <1>3, <1>5, SpendTyped DEF TypeOK, BudgetKinds
<1>7. \A k \in Loads : loads'[k] = NewLoad(1, sort') => LoadInv(loads[k])'
  BY <1>1, <1>2, <1>3, <1>4, BegunInv DEF LoadInv, Exists
<1> QED
  BY <1>1, <1>2, <1>4, <1>5, <1>6, <1>7, LoadsChange

LEMMA OpenStep ==
  ASSUME IInv, NEW l \in Loads, Open(l)
  PROVE  IInv'
<1>1. TypeOK /\ where' \in {"opening", "app", "login"}
      /\ (Begin(l, page, sort) \/ loads' = loads)
      /\ UNCHANGED <<jobs, token, cookie, page, sort, shown, pulse, signIn, budget>>
  BY DEF IInv, Open, serverVars, pageVars
<1>2. page \in Nat \ {0} /\ sort \in Sorts /\ jobs \in Nat
      /\ Exists(page, jobs) /\ Exists(page, shown.total)
  BY PageExistsNow
<1>3. /\ loads' \in [Loads -> LoadRecords \cup {NoLoad}]
      /\ \A k \in Loads : loads'[k] = loads[k] \/ loads'[k] = NewLoad(page, sort)
  BY <1>1, <1>2, BeginStep DEF TypeOK
<1>4. TypeOK'
  BY <1>1, <1>3 DEF TypeOK
<1>5. \A k \in Loads : loads'[k] = NewLoad(page, sort) => LoadInv(loads[k])'
  BY <1>1, <1>2, BegunInv DEF LoadInv, Exists
<1> QED
  BY <1>1, <1>2, <1>3, <1>4, <1>5, LoadsChange

(* An answer or its loss: one of the two requests of a load changes, and   *)
(* an answer counts the jobs there are.                                    *)
LEMMA RequestStep ==
  ASSUME IInv, NEW l \in Loads, NEW part \in Parts, NEW r \in Requests,
         loads[l] # NoLoad, loads' = [loads EXCEPT ![l][part] = r],
         part = "history" => r.jobs <= jobs,
         r.phase = "ok" => r.jobs = jobs \/ r = loads[l][part]
  PROVE  /\ loads' \in [Loads -> LoadRecords \cup {NoLoad}]
         /\ jobs' = jobs => \A k \in Loads : loads'[k] = loads[k] \/ LoadInv(loads[k])'
<1>1. TypeOK /\ loads[l] \in LoadRecords
  BY DEF IInv, TypeOK
<1>2. /\ Exists(loads[l].page, jobs) /\ loads[l].history.jobs <= jobs
      /\ loads[l].history.phase = "ok" => Exists(loads[l].page, loads[l].history.jobs)
  BY DEF IInv, LoadInv
<1> DEFINE new == [loads[l] EXCEPT ![part] = r]
<1>3. new \in LoadRecords /\ new.page = loads[l].page /\ new.history \in {loads[l].history, r}
      /\ (new.history = r => part = "history" \/ r = loads[l].history)
  <2>1. CASE part = "dashboard"
    BY <1>1, <2>1 DEF LoadRecords
  <2>2. CASE part = "history"
    BY <1>1, <2>2 DEF LoadRecords
  <2> QED
    BY <2>1, <2>2 DEF Parts
<1>4. loads'[l] = new /\ loads' \in [Loads -> LoadRecords \cup {NoLoad}]
      /\ \A k \in Loads : k # l => loads'[k] = loads[k]
  BY <1>1, <1>3 DEF TypeOK
<1> HIDE DEF new
<1>5. ASSUME jobs' = jobs PROVE LoadInv(loads[l])'
  <2>1. Exists(new.page, jobs) /\ new.history.jobs <= jobs
    <3>1. CASE new.history = loads[l].history
      BY <1>2, <1>3, <3>1
    <3>2. CASE new.history = r /\ part = "history"
      BY <1>2, <1>3, <3>2
    <3> QED
      BY <1>3, <3>1, <3>2
  <2>2. new.history.phase = "ok" => Exists(new.page, new.history.jobs)
    <3>1. CASE new.history = loads[l].history
      BY <1>2, <1>3, <3>1
    <3>2. CASE new.history = r /\ part = "history"
      <4>1. loads[l][part] = loads[l].history
        BY <3>2
      <4> QED
        BY <1>2, <1>3, <3>2, <4>1
    <3> QED
      BY <1>3, <3>1, <3>2
  <2> QED
    BY <1>4, <1>5, <2>1, <2>2 DEF LoadInv, Exists
<1> QED
  BY <1>4, <1>5

LEMMA RequestTyped ==
  ASSUME IInv, NEW l \in Loads, NEW part \in Parts, loads[l] # NoLoad
  PROVE  loads[l][part] \in Requests
<1>1. loads[l] \in LoadRecords
  BY DEF IInv, TypeOK
<1> QED
  BY <1>1 DEF LoadRecords, Parts


LEMMA AnswerStep ==
  ASSUME IInv, NEW l \in Loads, NEW part \in Parts, Answer(l, part)
  PROVE  IInv'
<1> DEFINE r == IF Authenticated THEN [phase |-> "ok", jobs |-> jobs]
                ELSE [phase |-> "denied", jobs |-> 0]
<1>1. TypeOK /\ loads[l] # NoLoad /\ loads' = [loads EXCEPT ![l][part] = r]
      /\ UNCHANGED <<jobs, token, cookie, where, page, sort, shown, pulse, signIn, budget>>
  BY DEF IInv, Answer, serverVars, pageVars
<1>2. jobs \in Nat /\ Exists(page, shown.total)
  BY PageExistsNow
<1>3. r \in Requests /\ r.jobs <= jobs /\ (r.phase = "ok" => r.jobs = jobs)
  BY <1>2 DEF Requests
<1> HIDE DEF r
<1>4. /\ loads' \in [Loads -> LoadRecords \cup {NoLoad}]
      /\ \A k \in Loads : loads'[k] = loads[k] \/ LoadInv(loads[k])'
  BY <1>1, <1>3, RequestStep
<1>5. TypeOK'
  BY <1>1, <1>4 DEF TypeOK
<1>6. jobs <= jobs' /\ shown' = shown /\ Exists(page', shown.total)
  BY <1>1, <1>2
<1> QED
  BY <1>4, <1>5, <1>6, LoadsChange

LEMMA LoseStep ==
  ASSUME IInv, NEW l \in Loads, NEW part \in Parts, Lose(l, part)
  PROVE  IInv'
<1> DEFINE r == [loads[l][part] EXCEPT !.phase = "failed"]
<1>1. TypeOK /\ loads[l] # NoLoad /\ Spend("losses")
      /\ UNCHANGED <<jobs, token, cookie, where, page, sort, shown, pulse, signIn>>
  BY DEF IInv, Lose, serverVars, pageVars
<1>2. loads' = [loads EXCEPT ![l][part] = r]
  BY DEF Lose
<1>3. jobs \in Nat /\ Exists(page, shown.total)
  BY PageExistsNow
<1>4. r \in Requests /\ r.jobs = loads[l][part].jobs /\ r.phase # "ok"
  BY <1>1, RequestTyped DEF Requests
<1>5. part = "history" => r.jobs <= jobs
  BY <1>1, <1>4 DEF IInv, LoadInv
<1> HIDE DEF r
<1>6. /\ loads' \in [Loads -> LoadRecords \cup {NoLoad}]
      /\ \A k \in Loads : loads'[k] = loads[k] \/ LoadInv(loads[k])'
  BY <1>1, <1>2, <1>4, <1>5, RequestStep
<1>7. TypeOK'
  BY <1>1, <1>6, SpendTyped DEF TypeOK, BudgetKinds
<1>8. jobs <= jobs' /\ shown' = shown /\ Exists(page', shown.total)
  BY <1>1, <1>3
<1> QED
  BY <1>6, <1>7, <1>8, LoadsChange

LEMMA ShowErrorStep ==
  ASSUME IInv, NEW l \in Loads, NEW part \in Parts, ShowError(l, part)
  PROVE  IInv'
<1> DEFINE r == [loads[l][part] EXCEPT !.phase = "reported"]
<1>1. TypeOK /\ loads[l] # NoLoad /\ pulse' \in BOOLEAN
      /\ UNCHANGED <<jobs, token, cookie, where, page, sort, shown, signIn, budget>>
  BY DEF IInv, ShowError, serverVars
<1>2. loads' = [loads EXCEPT ![l][part] = r]
  BY DEF ShowError
<1>3. jobs \in Nat /\ Exists(page, shown.total)
  BY PageExistsNow
<1>4. r \in Requests /\ r.jobs = loads[l][part].jobs /\ r.phase # "ok"
  BY <1>1, RequestTyped DEF Requests
<1>5. part = "history" => r.jobs <= jobs
  BY <1>1, <1>4 DEF IInv, LoadInv
<1> HIDE DEF r
<1>6. /\ loads' \in [Loads -> LoadRecords \cup {NoLoad}]
      /\ \A k \in Loads : loads'[k] = loads[k] \/ LoadInv(loads[k])'
  BY <1>1, <1>2, <1>4, <1>5, RequestStep
<1>7. TypeOK'
  BY <1>1, <1>6 DEF TypeOK
<1>8. jobs <= jobs' /\ shown' = shown /\ Exists(page', shown.total)
  BY <1>1, <1>3
<1> QED
  BY <1>6, <1>7, <1>8, LoadsChange

LEMMA IgnoreStep ==
  ASSUME IInv, NEW l \in Loads, Ignore(l)
  PROVE  IInv'
<1>1. TypeOK /\ loads' = [loads EXCEPT ![l] = NoLoad]
      /\ UNCHANGED <<jobs, token, cookie, where, page, sort, shown, pulse, signIn, budget>>
  BY DEF IInv, Ignore, serverVars, pageVars
<1>2. jobs \in Nat /\ Exists(page, shown.total)
  BY PageExistsNow
<1>3. TypeOK'
  BY <1>1 DEF TypeOK
<1>4. \A k \in Loads : loads'[k] = loads[k] \/ loads'[k] = NoLoad
  BY <1>1 DEF TypeOK
<1>5. \A k \in Loads : loads'[k] = loads[k] \/ LoadInv(loads[k])'
  BY <1>4 DEF LoadInv
<1>6. jobs <= jobs' /\ shown' = shown /\ Exists(page', shown.total)
  BY <1>1, <1>2
<1> QED
  BY <1>3, <1>5, <1>6, LoadsChange

(* What is shown is an answer that may be older than the last one, and the *)
(* page selected is one that it counts.                                    *)
LEMMA ShowStep ==
  ASSUME IInv, NEW l \in Loads, Show(l)
  PROVE  IInv'
<1> DEFINE load == loads[l]
           total == load.history.jobs
<1>1. /\ TypeOK /\ load # NoLoad /\ load.history.phase = "ok"
      /\ shown' = [dashboard |-> load.dashboard.jobs, total |-> total,
                   page |-> load.page, sort |-> load.sort]
      /\ page' = Clamped(page, total) /\ pulse' = FALSE
      /\ loads' = [loads EXCEPT ![l] = NoLoad]
      /\ UNCHANGED <<jobs, token, cookie, where, sort, signIn, budget>>
  BY DEF IInv, Show, serverVars
<1>2. load \in LoadRecords /\ page \in Nat
  BY <1>1 DEF TypeOK
<1>3. /\ load.page \in Nat \ {0} /\ load.sort \in Sorts
      /\ load.dashboard.jobs \in Nat /\ total \in Nat
  BY <1>2, RecordsAreLoads DEF Requests
<1>4. Exists(load.page, total) /\ total <= jobs
  BY <1>1 DEF IInv, LoadInv
<1>5. page' \in Nat \ {0} /\ Exists(page', total)
  BY <1>1, <1>2, <1>3, ClampedExists
<1>6. /\ shown' \in Views /\ shown'.total = total /\ shown'.page = load.page
  BY <1>1, <1>3 DEF Views
<1>7. loads' \in [Loads -> LoadRecords \cup {NoLoad}]
      /\ \A k \in Loads : loads'[k] = loads[k] \/ loads'[k] = NoLoad
  BY <1>1 DEF TypeOK
<1>8. TypeOK'
  BY <1>1, <1>5, <1>6, <1>7 DEF TypeOK
<1>9. ASSUME NEW k \in Loads PROVE LoadInv(loads[k])'
  <2>1. loads'[k] = NoLoad \/ LoadInv(loads[k])
    BY DEF IInv
  <2> QED
    BY <1>1, <1>7, <2>1 DEF LoadInv, Exists
<1> QED
  BY <1>1, <1>4, <1>5, <1>6, <1>8, <1>9 DEF IInv, Exists

(* Another document starts with nothing asked for or shown.                *)
LEMMA GoToStep ==
  ASSUME IInv, NEW document \in {"opening", "login"}, GoTo(document), jobs' = jobs,
         token' = token, cookie' \in Nat, budget' \in [BudgetKinds -> Nat]
  PROVE  IInv'
<1>1. /\ where' = document /\ loads' = [l \in Loads |-> NoLoad]
      /\ page' = 1 /\ sort' = ByStart /\ shown' = Blank /\ pulse' = FALSE
      /\ signIn' = NoSignIn
  BY DEF GoTo
<1>2. ByStart \in Sorts
  BY SortAssumption DEF ByStart, Sorts
<1>3. Blank \in Views /\ Blank.total = 0 /\ Blank.page = 0
  BY <1>2 DEF Blank, Views
<1>4. NoSignIn \in SignIns
  BY DEF NoSignIn, SignIns, NoToken
<1>5. TypeOK /\ jobs \in Nat
  BY DEF IInv, TypeOK
<1>6. TypeOK'
  <2>1. loads' \in [Loads -> LoadRecords \cup {NoLoad}]
    BY <1>1
  <2>2. /\ jobs' \in Nat /\ token' \in Nat \ {NoToken}
        /\ where' \in {"opening", "app", "login"}
    BY <1>1, <1>5 DEF TypeOK
  <2>3. page' \in Nat \ {0}
    BY <1>1
  <2>4. pulse' \in BOOLEAN
    BY <1>1, Zenon
  <2>5. sort' \in Sorts /\ shown' \in Views /\ signIn' \in SignIns
    BY <1>1, <1>2, <1>3, <1>4, Zenon
  <2> QED
    BY <2>1, <2>2, <2>3, <2>4, <2>5 DEF TypeOK
<1>7. \A l \in Loads : LoadInv(loads[l])'
  BY <1>1 DEF LoadInv
<1>8. shown'.total <= jobs' /\ Exists(page', shown'.total) /\ shown'.page = 0
  BY <1>1, <1>3, <1>5 DEF Exists
<1> QED
  BY <1>6, <1>7, <1>8 DEF IInv, Exists

LEMMA LeavePageStep ==
  ASSUME IInv, NEW l \in Loads, LeavePage(l)
  PROVE  IInv'
<1>1. GoTo("login") /\ jobs' = jobs /\ token' = token /\ cookie' = cookie /\ budget' = budget
  BY DEF LeavePage, serverVars
<1>2. cookie' \in Nat /\ budget' \in [BudgetKinds -> Nat]
  BY <1>1 DEF IInv, TypeOK
<1> QED
  BY <1>1, <1>2, GoToStep

LEMMA ReloadStep ==
  ASSUME IInv, Reload
  PROVE  IInv'
<1>1. GoTo("opening") /\ jobs' = jobs /\ token' = token /\ cookie' = cookie /\ Spend("tabs")
  BY DEF Reload, serverVars
<1>2. cookie' \in Nat /\ budget' \in [BudgetKinds -> Nat]
  BY <1>1, SpendTyped DEF IInv, TypeOK, BudgetKinds
<1> QED
  BY <1>1, <1>2, GoToStep

LEMMA SignedInStep ==
  ASSUME IInv, SignedIn
  PROVE  IInv'
<1>1. GoTo("opening") /\ jobs' = jobs /\ token' = token /\ cookie' = signIn.token
      /\ budget' = budget
  BY DEF SignedIn, serverVars
<1>2. cookie' \in Nat /\ budget' \in [BudgetKinds -> Nat]
  BY <1>1 DEF IInv, TypeOK, SignIns
<1> QED
  BY <1>1, <1>2, GoToStep

(* Steps that leave the loads and the page alone.                          *)
LEMMA ElsewhereStep ==
  ASSUME IInv, TypeOK', jobs <= jobs', UNCHANGED <<loads, page, shown>>
  PROVE  IInv'
<1>1. Exists(page', shown.total) /\ shown' = shown
  BY PageExistsNow
<1>2. \A l \in Loads : loads'[l] = loads[l]
  OBVIOUS
<1> QED
  BY <1>1, <1>2, LoadsChange

LEMMA NewJobStep ==
  ASSUME IInv, NewJob
  PROVE  IInv'
<1>1. TypeOK /\ jobs \in Nat /\ jobs' = jobs + 1 /\ Spend("jobs")
      /\ UNCHANGED <<token, cookie, where, loads, page, sort, shown, pulse, signIn>>
  BY DEF IInv, TypeOK, NewJob, pageVars
<1>2. TypeOK'
  BY <1>1, SpendTyped DEF TypeOK, BudgetKinds
<1>3. jobs <= jobs'
  BY <1>1
<1> QED
  BY <1>1, <1>2, <1>3, ElsewhereStep

LEMMA RestartStep ==
  ASSUME IInv, RestartServer
  PROVE  IInv'
<1>1. TypeOK /\ jobs \in Nat /\ token' = token + 1 /\ Spend("restarts")
      /\ UNCHANGED <<jobs, cookie, where, loads, page, sort, shown, pulse, signIn>>
  BY DEF IInv, TypeOK, RestartServer, pageVars
<1>2. token' \in Nat \ {NoToken}
  BY <1>1 DEF TypeOK, NoToken
<1>3. TypeOK'
  BY <1>1, <1>2, SpendTyped DEF TypeOK, BudgetKinds
<1>4. jobs <= jobs'
  BY <1>1
<1> QED
  BY <1>1, <1>3, <1>4, ElsewhereStep

LEMMA OtherTabStep ==
  ASSUME IInv, OtherTab
  PROVE  IInv'
<1>1. TypeOK /\ jobs \in Nat /\ cookie' \in {token, NoToken} /\ Spend("tabs")
      /\ UNCHANGED <<jobs, token, where, loads, page, sort, shown, pulse, signIn>>
  BY DEF IInv, TypeOK, OtherTab, serverVars, pageVars
<1>2. cookie' \in Nat
  BY <1>1 DEF TypeOK, NoToken
<1>3. TypeOK'
  BY <1>1, <1>2, SpendTyped DEF TypeOK, BudgetKinds
<1>4. jobs <= jobs'
  BY <1>1
<1> QED
  BY <1>1, <1>3, <1>4, ElsewhereStep

(* The login page.                                                         *)
LEMMA SignInStep ==
  ASSUME IInv,
         UNCHANGED <<jobs, token, cookie, where, loads, page, sort, shown, pulse>>,
         signIn' \in SignIns, budget' \in [BudgetKinds -> Nat]
  PROVE  IInv'
<1>1. TypeOK /\ jobs \in Nat
  BY DEF IInv, TypeOK
<1>2. TypeOK'
  BY <1>1 DEF TypeOK
<1>3. jobs <= jobs'
  BY <1>1
<1> QED
  BY <1>2, <1>3, ElsewhereStep

LEMMA SignInNextStep ==
  ASSUME IInv, SignInNext
  PROVE  IInv'
<1>1. TypeOK /\ signIn \in SignIns /\ token \in Nat /\ budget \in [BudgetKinds -> Nat]
  BY DEF IInv, TypeOK
<1>2. CASE \E right \in BOOLEAN : Submit(right)
  <2> PICK right \in BOOLEAN : Submit(right)
    BY <1>2
  <2>1. /\ UNCHANGED <<jobs, token, cookie, where, loads, page, sort, shown, pulse>>
        /\ signIn' = [phase |-> "sent", right |-> right, token |-> NoToken]
        /\ budget' = budget \/ Spend("tabs")
    BY DEF Submit, serverVars, pageVars
  <2>2. signIn' \in SignIns
    BY <2>1 DEF SignIns, NoToken
  <2>3. budget' \in [BudgetKinds -> Nat]
    BY <1>1, <2>1, SpendTyped DEF BudgetKinds
  <2> QED
    BY <2>1, <2>2, <2>3, SignInStep
<1>3. CASE AnswerSignIn
  <2>1. /\ UNCHANGED <<jobs, token, cookie, where, loads, page, sort, shown, pulse>>
        /\ budget' = budget
    BY <1>3 DEF AnswerSignIn, serverVars, pageVars
  <2>2. signIn' \in SignIns
    BY <1>1, <1>3 DEF AnswerSignIn, SignIns
  <2> QED
    BY <1>1, <2>1, <2>2, SignInStep
<1>4. CASE LoseSignIn
  <2>1. /\ UNCHANGED <<jobs, token, cookie, where, loads, page, sort, shown, pulse>>
        /\ Spend("losses")
    BY <1>4 DEF LoseSignIn, serverVars, pageVars
  <2>2. signIn' \in SignIns
    BY <1>1, <1>4 DEF LoseSignIn, SignIns
  <2>3. budget' \in [BudgetKinds -> Nat]
    BY <1>1, <2>1, SpendTyped DEF BudgetKinds
  <2> QED
    BY <2>1, <2>2, <2>3, SignInStep
<1>5. CASE SignedIn
  BY <1>5, SignedInStep
<1>6. CASE SignInRefused
  <2>1. /\ UNCHANGED <<jobs, token, cookie, where, loads, page, sort, shown, pulse>>
        /\ budget' = budget /\ signIn' = NoSignIn
    BY <1>6 DEF SignInRefused, serverVars, pageVars
  <2>2. signIn' \in SignIns
    BY <2>1 DEF NoSignIn, SignIns, NoToken
  <2> QED
    BY <1>1, <2>1, <2>2, SignInStep
<1> QED
  BY <1>2, <1>3, <1>4, <1>5, <1>6 DEF SignInNext

LEMMA LoadNextStep ==
  ASSUME IInv, NEW l \in Loads, LoadNext(l)
  PROVE  IInv'
<1>1. CASE Timer(l) \/ Open(l) \/ Show(l) \/ Ignore(l) \/ LeavePage(l)
  BY <1>1, TimerStep, OpenStep, ShowStep, IgnoreStep, LeavePageStep
<1>2. CASE \E p \in {page - 1, page + 1} : ClickPage(l, p)
  BY <1>2, ClickPageStep
<1>3. CASE \E key \in SortKeys : ClickSort(l, key)
  BY <1>3, ClickSortStep
<1>4. CASE \E part \in Parts : Answer(l, part) \/ Lose(l, part) \/ ShowError(l, part)
  BY <1>4, AnswerStep, LoseStep, ShowErrorStep
<1> QED
  BY <1>1, <1>2, <1>3, <1>4 DEF LoadNext

-----------------------------------------------------------------------------
(* The invariant.                                                          *)

LEMMA InitIInv ==
  ASSUME Init
  PROVE  IInv
<1>1. /\ jobs \in {0, PageSize} /\ token = 1 /\ cookie \in {NoToken, token}
      /\ where = "opening" /\ loads = [l \in Loads |-> NoLoad]
      /\ page = 1 /\ sort = ByStart /\ shown = Blank /\ pulse = FALSE
      /\ signIn = NoSignIn /\ budget \in Budgets
  BY DEF Init
<1>2. jobs \in Nat
  BY <1>1, PageSizeAssumption
<1>3. ByStart \in Sorts
  BY SortAssumption DEF ByStart, Sorts
<1>4. Blank \in Views /\ Blank.total = 0 /\ Blank.page = 0
  BY <1>3 DEF Blank, Views
<1>5. NoSignIn \in SignIns /\ token \in Nat \ {NoToken} /\ cookie \in Nat
  BY <1>1 DEF NoSignIn, SignIns, NoToken
<1>6. TypeOK
  <2>1. loads \in [Loads -> LoadRecords \cup {NoLoad}]
    BY <1>1
  <2>2. budget \in [BudgetKinds -> Nat]
    BY <1>1, BudgetAssumption
  <2>3. page \in Nat \ {0} /\ sort \in Sorts /\ shown \in Views /\ signIn \in SignIns
    BY <1>1, <1>3, <1>4, <1>5
  <2> QED
    BY <1>1, <1>2, <1>5, <2>1, <2>2, <2>3 DEF TypeOK
<1>7. \A l \in Loads : LoadInv(loads[l])
  BY <1>1 DEF LoadInv
<1> QED
  BY <1>1, <1>2, <1>4, <1>6, <1>7 DEF IInv, Exists

LEMMA NextIInv ==
  ASSUME IInv, [Next]_vars
  PROVE  IInv'
<1>1. CASE \E l \in Loads : LoadNext(l)
  BY <1>1, LoadNextStep
<1>2. CASE SignInNext
  BY <1>2, SignInNextStep
<1>3. CASE NewJob \/ RestartServer \/ Reload \/ OtherTab
  BY <1>3, NewJobStep, RestartStep, ReloadStep, OtherTabStep
<1>4. CASE UNCHANGED vars
  <2>1. UNCHANGED <<jobs, token, cookie, where, loads, page, sort, shown, pulse, signIn, budget>>
    BY <1>4 DEF vars, serverVars, pageVars
  <2>2. signIn' \in SignIns /\ budget' \in [BudgetKinds -> Nat]
    BY <2>1 DEF IInv, TypeOK
  <2> QED
    BY <2>1, <2>2, SignInStep
<1> QED
  BY <1>1, <1>2, <1>3, <1>4 DEF Next

LEMMA Inductive == Spec => []IInv
<1>1. Init => IInv
  BY InitIInv
<1>2. IInv /\ [Next]_vars => IInv'
  BY NextIInv
<1> QED
  BY <1>1, <1>2, PTL DEF Spec

(* Every variable of the page, the loads and the login keeps to its type.  *)
THEOREM TypeCorrect == Spec => []TypeOK
<1>1. IInv => TypeOK
  BY DEF IInv
<1> QED
  BY <1>1, Inductive, PTL

(* No load asks for, and the page never shows, a page of the history that  *)
(* does not exist: the pager only offers pages of an earlier answer, Show  *)
(* puts the selected page back among those of the newest one shown, and    *)
(* jobs are never taken away (app.js 524-528, 657-675, 1362-1368).         *)
THEOREM PagesAlwaysExist == Spec => []HistoryPageExists
<1>1. ASSUME IInv PROVE HistoryPageExists
  <2>1. TypeOK /\ jobs \in Nat /\ shown.total \in Nat /\ shown.page \in Nat
    BY <1>1 DEF IInv, TypeOK, Views
  <2>2. ASSUME NEW l \in Loads, loads[l] # NoLoad
        PROVE  loads[l].page <= Needed(jobs)
    <3>1. loads[l] \in LoadRecords
      BY <2>1, <2>2 DEF TypeOK
    <3>2. loads[l].page \in Nat \ {0} /\ Exists(loads[l].page, jobs)
      BY <1>1, <2>2, <3>1, RecordsAreLoads DEF IInv, LoadInv
    <3> QED
      BY <2>1, <3>2, ExistingIsNeeded
  <2>3. shown.page <= Needed(shown.total)
    <3>1. CASE shown.page # 0
      <4>1. shown.page \in Nat \ {0} /\ Exists(shown.page, shown.total)
        BY <1>1, <2>1, <3>1 DEF IInv
      <4> QED
        BY <2>1, <4>1, ExistingIsNeeded
    <3>2. CASE shown.page = 0
      <4>1. 1 <= Needed(shown.total)
        BY <2>1, ExistingIsNeeded DEF Exists
      <4>2. Needed(shown.total) \in Nat
        BY <2>1, ExistingIsNeeded DEF Exists
      <4> QED
        BY <3>2, <4>1, <4>2
    <3> QED
      BY <3>1, <3>2
  <2> QED
    BY <2>2, <2>3 DEF HistoryPageExists
<1> QED
  BY <1>1, Inductive, PTL
=============================================================================
