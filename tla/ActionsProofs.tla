----------------------------- MODULE ActionsProofs -----------------------------
(***************************************************************************)
(* What an operation on an account does, for every calendar of corporate   *)
(* actions (CorporateActions): the loops of the two boundaries give every  *)
(* action its turn (TurnsTaken, LoopOK), and each phase, boundary and fill *)
(* leads from a lawful account (AccountOK) to a lawful account and moves   *)
(* exactly what it should (Balanced, BeforeSessionOK, AfterSessionOK,      *)
(* BoughtOK, SoldOK).  Frees says what a boundary does to the shares that  *)
(* can be sold on a date: what is given adds at most itself, from its own  *)
(* date on.                                                                *)
(*                                                                         *)
(* AccountOK is the heart of it: what a claim may be in each phase and     *)
(* what the journal recorded of it, that lots are open and traced to fills *)
(* or to settled actions, and that the books agree with both.              *)
(***************************************************************************)
EXTENDS CorporateActions, LedgerProofs

-----------------------------------------------------------------------------
(* The corporate actions of a run. *)
Calendar(actions) ==
    /\ IsFiniteSet(actions)
    /\ actions \subseteq ActionSet(Nat, Nat)
    /\ \A a \in actions : ValidAction(a)
    /\ \A a, b \in actions : a.name = b.name => a = b

(* Some action of a calendar comes after all others. *)
LEMMA LastIn ==
    ASSUME NEW actions, Calendar(actions), NEW some \in SUBSET actions, some # {}
    PROVE  Last(some) \in some
<1> DEFINE IsLast(s, z) == \A a \in s \ {z} : Before(a, z)
           X == {s \in SUBSET actions : s # {} => \E z \in s : IsLast(s, z)}
<1>1. \A a \in actions : /\ a.record \in Nat /\ a.ex \in Nat /\ a.name \in Nat
  BY DEF Calendar, ActionSet
<1>2. \A a, b \in actions : a # b => Before(a, b) \/ Before(b, a)
  <2>1. \A a, b \in actions : a.name = b.name => a = b  BY DEF Calendar
  <2> QED  BY <1>1, <2>1 DEF Before
<1>3. \A a, b, c \in actions : Before(a, b) /\ Before(b, c) => Before(a, c)
  BY <1>1 DEF Before
<1>4. {} \in X  OBVIOUS
<1>5. ASSUME NEW s \in SUBSET actions, s # {} PROVE \E x \in s : s \ {x} \in X => s \in X
  <2>1. PICK x \in s : TRUE  BY <1>5
  <2>2. ASSUME s \ {x} \in X PROVE \E z \in s : IsLast(s, z)
    <3>1. CASE s \ {x} = {}  BY <2>1, <3>1
    <3>2. CASE s \ {x} # {}
      <4>1. PICK z \in s \ {x} : IsLast(s \ {x}, z)  BY <2>2, <3>2
      <4>2. x \in actions /\ z \in actions /\ x # z  BY <2>1
      <4>3. CASE Before(x, z)
        <5>1. IsLast(s, z)  BY <4>1, <4>3
        <5> QED  BY <4>1, <5>1
      <4>4. CASE Before(z, x)
        <5>1. ASSUME NEW a \in s \ {x} PROVE Before(a, x)
          <6>1. a = z \/ Before(a, z)  BY <4>1
          <6> QED  BY <1>3, <4>2, <4>4, <6>1
        <5>2. IsLast(s, x)  BY <5>1
        <5> QED  BY <2>1, <5>2
      <4> QED  BY <1>2, <4>2, <4>3, <4>4
    <3> QED  BY <3>1, <3>2
  <2>3. s \ {x} \in X => s \in X  BY <2>2
  <2> HIDE DEF X
  <2> QED  BY <2>1, <2>3
<1>6. IsFiniteSet(actions)  BY DEF Calendar
<1>7. SUBSET actions \subseteq X
  <2> HIDE DEF X
  <2> QED  BY <1>4, <1>5, <1>6, SetInduction
<1>8. some \in X  BY <1>7
<1>9. \E z \in some : \A a \in some \ {z} : Before(a, z)  BY <1>8
<1> QED  BY <1>9 DEF Last

-----------------------------------------------------------------------------
(* A loop of a boundary takes its turns one by one. *)

Stepped(q, a, day, loop) == IF q.ok THEN Turn(q, a, day, loop) ELSE q

Turns(p, actions, day, loop, after) ==
    [s \in SUBSET actions |->
        IF s = {} THEN p ELSE Stepped(after[s \ {Last(s)}], Last(s), day, loop)]

After(p, actions, day, loop) ==
    CHOOSE after : after = Turns(p, actions, day, loop, after)

Taken(p, actions, day, loop) ==
    /\ After(p, actions, day, loop)
       = Turns(p, actions, day, loop, After(p, actions, day, loop))
    /\ \A s \in SUBSET actions :
          After(p, actions, day, loop)[s] = After(p, s, day, loop)[s]

(* A loop is the recursive function of ForEach at the whole calendar. *)
LEMMA LoopIs ==
    ASSUME NEW p, NEW actions, NEW day, NEW loop
    PROVE  ForEach(p, actions, day, loop) = After(p, actions, day, loop)[actions]
BY DEF ForEach, After, Turns, Stepped

LEMMA TurnsAt ==
    ASSUME NEW p, NEW actions, NEW day, NEW loop, NEW after,
           after = Turns(p, actions, day, loop, after), NEW s \in SUBSET actions
    PROVE  after[s] = IF s = {} THEN p ELSE Stepped(after[s \ {Last(s)}], Last(s), day, loop)
<1>1. after[s] = Turns(p, actions, day, loop, after)[s]  OBVIOUS
<1>2. Turns(p, actions, day, loop, after)[s]
      = IF s = {} THEN p ELSE Stepped(after[s \ {Last(s)}], Last(s), day, loop)
  BY DEF Turns
<1> QED  BY <1>1, <1>2

(* That function exists: every action has one turn, after those before it. *)
LEMMA TurnsExist ==
    ASSUME NEW p, NEW actions, NEW day, NEW loop,
           \A s \in SUBSET actions : s # {} => Last(s) \in s,
           \A s \in SUBSET actions : s # actions => Taken(p, s, day, loop)
    PROVE  After(p, actions, day, loop)
           = Turns(p, actions, day, loop, After(p, actions, day, loop))
<1> DEFINE At(s) == After(p, s, day, loop)[s]
           i == [s \in SUBSET actions |->
                    IF s # actions THEN At(s)
                    ELSE IF actions = {} THEN p
                    ELSE Stepped(At(actions \ {Last(actions)}), Last(actions), day, loop)]
<1>1. ASSUME NEW s \in SUBSET actions
      PROVE  i[s] = IF s = {} THEN p ELSE Stepped(i[s \ {Last(s)}], Last(s), day, loop)
  <2> DEFINE t == s \ {Last(s)}
  <2>1. s # {} => t \in SUBSET actions /\ t # actions /\ t # s /\ t \in SUBSET s  OBVIOUS
  <2>2. CASE s = actions
    <3>1. s # {} => i[t] = At(t)  BY <2>1
    <3>2. i[s] = IF s = {} THEN p ELSE Stepped(At(t), Last(s), day, loop)  BY <2>2
    <3> HIDE DEF i, t, At
    <3> QED  BY <3>1, <3>2 DEF t
  <2>3. CASE s # actions
    <3>1. i[s] = At(s)  BY <2>3
    <3> DEFINE F == After(p, s, day, loop)
    <3>2. F = Turns(p, s, day, loop, F)  BY <2>3 DEF Taken
    <3>3. s # {} => F[t] = At(t)  BY <2>1, <2>3 DEF Taken
    <3>4. s # {} => i[t] = At(t)  BY <2>1
    <3>5. F[s] = At(s) /\ s \in SUBSET s  OBVIOUS
    <3> HIDE DEF F, i, At, t
    <3>6. F[s] = IF s = {} THEN p ELSE Stepped(F[t], Last(s), day, loop)
      BY <3>2, <3>5, TurnsAt DEF t
    <3> QED  BY <3>1, <3>3, <3>4, <3>5, <3>6 DEF t
  <2> QED  BY <2>2, <2>3
<1>2. i = Turns(p, actions, day, loop, i)
  <2>1. i = [s \in SUBSET actions |-> i[s]]  OBVIOUS
  <2> HIDE DEF i
  <2>2. [s \in SUBSET actions |-> i[s]]
        = [s \in SUBSET actions |->
              IF s = {} THEN p ELSE Stepped(i[s \ {Last(s)}], Last(s), day, loop)]
    BY <1>1
  <2> QED  BY <2>1, <2>2 DEF Turns
<1> HIDE DEF i
<1> QED  BY <1>2 DEF After

(* And it is the one of ForEach. *)
LEMMA TurnsTaken ==
    ASSUME NEW p, NEW all, Calendar(all), NEW day, NEW loop
    PROVE  \A actions \in SUBSET all : Taken(p, actions, day, loop)
<1> DEFINE X == {s \in SUBSET all : Taken(p, s, day, loop)}
<1>1. ASSUME NEW s \in SUBSET all, \A t \in SUBSET s : t # s => t \in X
      PROVE  Taken(p, s, day, loop)
  <2>1. \A t \in SUBSET s : t # {} => Last(t) \in t  BY LastIn
  <2>2. \A t \in SUBSET s : t # s => Taken(p, t, day, loop)  BY <1>1
  <2> DEFINE F == After(p, s, day, loop)
  <2>3. F = Turns(p, s, day, loop, F)  BY <2>1, <2>2, TurnsExist
  <2>4. ASSUME NEW t \in SUBSET s
        PROVE  F[t] = After(p, t, day, loop)[t]
    <3> DEFINE Y == {u \in SUBSET s : F[u] = After(p, u, day, loop)[u]}
    <3>1. ASSUME NEW u \in SUBSET s, \A v \in SUBSET u : v # u => v \in Y
          PROVE  u \in Y
      <4> DEFINE G == After(p, u, day, loop)
                 v == u \ {Last(u)}
      <4>1. CASE u = s  BY <4>1
      <4>2. CASE u # s
        <5>1. G = Turns(p, u, day, loop, G)  BY <2>2, <4>2 DEF Taken
        <5>2. u \in SUBSET u  OBVIOUS
        <5>3. u # {} => v \in SUBSET u /\ v # u  BY <2>1
        <5>4. u # {} => G[v] = After(p, v, day, loop)[v]
          BY <2>2, <4>2, <5>3 DEF Taken
        <5>5. u # {} => F[v] = After(p, v, day, loop)[v]  BY <3>1, <5>3
        <5> HIDE DEF F, G, v
        <5>6. G[u] = IF u = {} THEN p ELSE Stepped(G[v], Last(u), day, loop)
          BY <5>1, <5>2, TurnsAt DEF v
        <5>7. F[u] = IF u = {} THEN p ELSE Stepped(F[v], Last(u), day, loop)
          BY <2>3, TurnsAt DEF v
        <5>8. F[u] = G[u]  BY <5>4, <5>5, <5>6, <5>7
        <5> QED  BY <5>8 DEF G
      <4> QED  BY <4>1, <4>2
    <3>2. IsFiniteSet(s)  BY FS_Subset DEF Calendar
    <3>3. \A u \in SUBSET s : (\A v \in SUBSET u : v # u => v \in Y) => u \in Y
      <4> HIDE DEF Y
      <4> QED  BY <3>1
    <3>4. SUBSET s \subseteq Y
      <4> HIDE DEF Y
      <4> QED  BY <3>2, <3>3, StrongSetInduction
    <3> QED  BY <3>4
  <2> QED  BY <2>3, <2>4 DEF Taken
<1>2. \A s \in SUBSET all : (\A t \in SUBSET s : t # s => t \in X) => s \in X  BY <1>1
<1>3. IsFiniteSet(all)  BY DEF Calendar
<1>4. SUBSET all \subseteq X
  <2> HIDE DEF X
  <2> QED  BY <1>2, <1>3, StrongSetInduction
<1> QED  BY <1>4

(* What a loop does, by the action that comes last. *)
LEMMA LoopStep ==
    ASSUME NEW p, NEW actions, Calendar(actions), NEW s \in SUBSET actions, NEW day, NEW loop
    PROVE  ForEach(p, s, day, loop)
           = IF s = {} THEN p
             ELSE Stepped(ForEach(p, s \ {Last(s)}, day, loop), Last(s), day, loop)
<1> DEFINE F == After(p, s, day, loop)
           t == s \ {Last(s)}
<1>1. F = Turns(p, s, day, loop, F) /\ \A u \in SUBSET s : F[u] = After(p, u, day, loop)[u]
  <2>1. Taken(p, s, day, loop)  BY TurnsTaken
  <2> QED  BY <2>1 DEF Taken
<1>2. s \in SUBSET s /\ t \in SUBSET s  OBVIOUS
<1>3. ForEach(p, s, day, loop) = F[s]  BY LoopIs
<1>4. ForEach(p, t, day, loop) = F[t]
  <2> HIDE DEF F, t
  <2> QED  BY <1>1, <1>2, LoopIs
<1> HIDE DEF F, t
<1>5. F[s] = IF s = {} THEN p ELSE Stepped(F[t], Last(s), day, loop)
  BY <1>1, <1>2, TurnsAt DEF t
<1> QED  BY <1>3, <1>4, <1>5 DEF t

-----------------------------------------------------------------------------
(* What always holds of a portfolio under the calendar. *)

NamesOf(actions) == {a.name : a \in actions}

BookRecords ==
    [cash : Int, position : Int, expenses : Int, pnl : Int, receivable : Int, income : Int]

Shape(p, actions) ==
    /\ p \in [ok : {TRUE}, cash : Nat, lots : SUBSET LotRecords, fills : SUBSET Nat,
              books : BookRecords, claims : {p.claims}, phases : {p.phases}]
    /\ p.claims = [n \in NamesOf(actions) |-> p.claims[n]]

Settled(p) == {n \in DOMAIN p.claims : p.claims[n].status = "settled"}

(* A lot is what is left of a fill, or of shares that settled actions gave. *)
Traced(p, lots) ==
    \A lot \in lots : \A i \in 2..Len(lot.id) : lot.id[i] \in Settled(p)

(* A registered claim, whatever became of it since. *)
Terms(a, claim) ==
    /\ claim \in [status : {"captured", "accrued", "settled"}, qty : Nat, cash : Nat, delta : Int,
                  lots : SUBSET LotRecords, reserved : {claim.reserved}]
    /\ OpenLots(claim.lots)
    /\ claim.qty = Quantity(claim.lots)
    /\ claim.cash = IF a.kind = "dividend" THEN a.perShare * claim.qty ELSE 0
    /\ IF a.kind \in ShareKinds THEN a.den * (claim.qty + claim.delta) = a.num * claim.qty
       ELSE claim.delta = 0
    /\ IF GivesShares(a, claim) /\ claim.status # "captured"
       THEN claim.reserved \in [Entitled(claim) -> Nat] ELSE claim.reserved = <<>>

ClaimOK(p, a) ==
    LET claim == p.claims[a.name]
    IN  /\ Done(p, a, "entitlement") <=> claim.status # "none"
        /\ Done(p, a, "accrual") <=> claim.status \in {"accrued", "settled"}
        /\ Done(p, a, "settlement") <=> claim.status = "settled"
        /\ \/ claim = NoClaim
           \/ a.kind # "rights" /\ Terms(a, claim) /\ Traced(p, claim.lots)

BooksOK(p) ==
    /\ p.books.cash + p.books.position + p.books.expenses + p.books.pnl
         + p.books.receivable + p.books.income = 0
    /\ p.books.position = Cost(p.lots)
    /\ p.books.receivable = Receivable(p)

AccountOK(p, actions) ==
    /\ Shape(p, actions)
    /\ OpenLots(p.lots) /\ Traced(p, p.lots)
    /\ \A a \in actions : ClaimOK(p, a)
    /\ BooksOK(p)

(* Shares and cash that settled actions brought. *)
Granted(p) == SumFunction([n \in Settled(p) |-> p.claims[n].delta])
Paid(p)    == SumFunction([n \in Settled(p) |-> p.claims[n].cash])

(* Whatever the boundaries do, these stay what they were. *)
Balanced(p, q) ==
    /\ Quantity(q.lots) - Granted(q) = Quantity(p.lots) - Granted(p)
    /\ q.cash - Paid(q) = p.cash - Paid(p)
    /\ q.books.cash - q.cash = p.books.cash - p.cash
    /\ PrincipalInAll(q) = PrincipalInAll(p)

-----------------------------------------------------------------------------
(* Sums over the claims, when one claim changes. *)

(* A sum when one of its terms changes. *)
LEMMA SumUpdate ==
    ASSUME NEW f, NEW g, NEW S, IsFiniteSet(S), NEW n \in S,
           \A m \in S : f[m] \in Int /\ g[m] \in Int,
           \A m \in S \ {n} : f[m] = g[m]
    PROVE  /\ SumFunctionOnSet(g, S) = SumFunctionOnSet(f, S) + g[n] - f[n]
           /\ SumFunctionOnSet(f, S) \in Int
<1> DEFINE r == S \ {n}
<1>1. IsFiniteSet(r) /\ \A m \in r : f[m] \in Int  BY FS_Subset
<1>2. SumFunctionOnSet(f, r) = SumFunctionOnSet(g, r) /\ SumFunctionOnSet(f, r) \in Int
  <2>1. \A m \in r : f[m] = g[m]  OBVIOUS
  <2> HIDE DEF r
  <2> QED  BY <1>1, <2>1, SumSame, SumInt
<1>3. /\ SumFunctionOnSet(f, S) = f[n] + SumFunctionOnSet(f, r)
      /\ SumFunctionOnSet(g, S) = g[n] + SumFunctionOnSet(g, r)
  BY SumRemove
<1>4. f[n] \in Int /\ g[n] \in Int  OBVIOUS
<1> HIDE DEF r
<1> QED  BY <1>2, <1>3, <1>4

(* What a claim adds to the sums. *)
Owed(claim)     == IF claim.status = "accrued" THEN claim.cash ELSE 0
Kept(claim)     == IF claim.status = "accrued" THEN ReservedOf(claim) ELSE 0
PaidFor(claim)  == IF claim.status = "settled" THEN claim.cash ELSE 0
GivenFor(claim) == IF claim.status = "settled" THEN claim.delta ELSE 0

Whole(claims) ==
    /\ IsFiniteSet(DOMAIN claims)
    /\ \A n \in DOMAIN claims :
          claims[n].cash \in Int /\ claims[n].delta \in Int /\ ReservedOf(claims[n]) \in Int

(* Receivables, kept principal, payments and grants as sums over all       *)
(* claims.                                                                 *)
LEMMA SumsOfClaims ==
    ASSUME NEW p, Whole(p.claims)
    PROVE  LET S == DOMAIN p.claims
           IN  /\ Receivable(p) = SumFunctionOnSet([n \in S |-> Owed(p.claims[n])], S)
               /\ PrincipalKept(p) = SumFunctionOnSet([n \in S |-> Kept(p.claims[n])], S)
               /\ Paid(p) = SumFunctionOnSet([n \in S |-> PaidFor(p.claims[n])], S)
               /\ Granted(p) = SumFunctionOnSet([n \in S |-> GivenFor(p.claims[n])], S)
<1> DEFINE S == DOMAIN p.claims
           A == Accrued(p)
           B == Settled(p)
           owed == [n \in S |-> Owed(p.claims[n])]
           kept == [n \in S |-> Kept(p.claims[n])]
           paid == [n \in S |-> PaidFor(p.claims[n])]
           given == [n \in S |-> GivenFor(p.claims[n])]
           owedA == [n \in A |-> p.claims[n].cash]
           keptA == [n \in A |-> ReservedOf(p.claims[n])]
           paidB == [n \in B |-> p.claims[n].cash]
           givenB == [n \in B |-> p.claims[n].delta]
<1>1. A \subseteq S /\ B \subseteq S  BY DEF Accrued, Settled
<1>2. IsFiniteSet(S)  BY DEF Whole
<1>3. IsFiniteSet(A) /\ IsFiniteSet(B)  BY <1>1, <1>2, FS_Subset
<1>4. /\ \A n \in S : owed[n] \in Int /\ kept[n] \in Int /\ paid[n] \in Int /\ given[n] \in Int
      /\ \A n \in S \ A : owed[n] = 0 /\ kept[n] = 0
      /\ \A n \in S \ B : paid[n] = 0 /\ given[n] = 0
  BY DEF Whole, Owed, Kept, PaidFor, GivenFor, Accrued, Settled
<1>5. /\ \A n \in A : owedA[n] = owed[n] /\ keptA[n] = kept[n]
      /\ \A n \in B : paidB[n] = paid[n] /\ givenB[n] = given[n]
  BY <1>1 DEF Owed, Kept, PaidFor, GivenFor, Accrued, Settled
<1>6. /\ Receivable(p) = SumFunctionOnSet(owedA, A)
      /\ PrincipalKept(p) = SumFunctionOnSet(keptA, A)
      /\ Paid(p) = SumFunctionOnSet(paidB, B)
      /\ Granted(p) = SumFunctionOnSet(givenB, B)
  BY DEF Receivable, Paid, Granted, PrincipalKept, SumFunction
<1> HIDE DEF S, A, B, owed, kept, paid, given, owedA, keptA, paidB, givenB
<1>7. /\ SumFunctionOnSet(owedA, A) = SumFunctionOnSet(owed, A)
      /\ SumFunctionOnSet(keptA, A) = SumFunctionOnSet(kept, A)
  BY <1>3, <1>5, SumSame
<1>8. /\ SumFunctionOnSet(paidB, B) = SumFunctionOnSet(paid, B)
      /\ SumFunctionOnSet(givenB, B) = SumFunctionOnSet(given, B)
  BY <1>3, <1>5, SumSame
<1>9. /\ SumFunctionOnSet(owed, S) = SumFunctionOnSet(owed, A)
      /\ SumFunctionOnSet(kept, S) = SumFunctionOnSet(kept, A)
  BY <1>1, <1>2, <1>4, SumPart
<1>10. /\ SumFunctionOnSet(paid, S) = SumFunctionOnSet(paid, B)
       /\ SumFunctionOnSet(given, S) = SumFunctionOnSet(given, B)
  BY <1>1, <1>2, <1>4, SumPart
<1>11. /\ Receivable(p) = SumFunctionOnSet(owed, S)
       /\ PrincipalKept(p) = SumFunctionOnSet(kept, S)
       /\ Paid(p) = SumFunctionOnSet(paid, S)
       /\ Granted(p) = SumFunctionOnSet(given, S)
  BY <1>6, <1>7, <1>8, <1>9, <1>10
<1> QED  BY <1>11 DEF S, owed, kept, paid, given

(* What a new claim of one action does to them. *)
LEMMA ClaimChanges ==
    ASSUME NEW p, NEW q, Whole(p.claims), Whole(q.claims), DOMAIN q.claims = DOMAIN p.claims,
           NEW n \in DOMAIN p.claims,
           \A m \in DOMAIN p.claims \ {n} : q.claims[m] = p.claims[m]
    PROVE  /\ Receivable(q) = Receivable(p) + Owed(q.claims[n]) - Owed(p.claims[n])
           /\ PrincipalKept(q) = PrincipalKept(p) + Kept(q.claims[n]) - Kept(p.claims[n])
           /\ Paid(q) = Paid(p) + PaidFor(q.claims[n]) - PaidFor(p.claims[n])
           /\ Granted(q) = Granted(p) + GivenFor(q.claims[n]) - GivenFor(p.claims[n])
           /\ Receivable(p) \in Int /\ PrincipalKept(p) \in Int
           /\ Paid(p) \in Int /\ Granted(p) \in Int
<1> DEFINE S == DOMAIN p.claims
           o == [m \in S |-> Owed(p.claims[m])]
           k == [m \in S |-> Kept(p.claims[m])]
           d == [m \in S |-> PaidFor(p.claims[m])]
           g == [m \in S |-> GivenFor(p.claims[m])]
           oo == [m \in S |-> Owed(q.claims[m])]
           kk == [m \in S |-> Kept(q.claims[m])]
           dd == [m \in S |-> PaidFor(q.claims[m])]
           gg == [m \in S |-> GivenFor(q.claims[m])]
<1>1. IsFiniteSet(S)  BY DEF Whole
<1>2. /\ \A m \in S : o[m] \in Int /\ k[m] \in Int /\ d[m] \in Int /\ g[m] \in Int
      /\ \A m \in S : oo[m] \in Int /\ kk[m] \in Int /\ dd[m] \in Int /\ gg[m] \in Int
  BY DEF Whole, Owed, Kept, PaidFor, GivenFor
<1>3. \A m \in S \ {n} : o[m] = oo[m] /\ k[m] = kk[m] /\ d[m] = dd[m] /\ g[m] = gg[m]
  OBVIOUS
<1>4. /\ o[n] = Owed(p.claims[n]) /\ oo[n] = Owed(q.claims[n])
      /\ k[n] = Kept(p.claims[n]) /\ kk[n] = Kept(q.claims[n])
      /\ d[n] = PaidFor(p.claims[n]) /\ dd[n] = PaidFor(q.claims[n])
      /\ g[n] = GivenFor(p.claims[n]) /\ gg[n] = GivenFor(q.claims[n])
  OBVIOUS
<1>5. /\ Receivable(p) = SumFunctionOnSet(o, S) /\ PrincipalKept(p) = SumFunctionOnSet(k, S)
      /\ Paid(p) = SumFunctionOnSet(d, S) /\ Granted(p) = SumFunctionOnSet(g, S)
  BY SumsOfClaims
<1>6. /\ Receivable(q) = SumFunctionOnSet(oo, S) /\ PrincipalKept(q) = SumFunctionOnSet(kk, S)
      /\ Paid(q) = SumFunctionOnSet(dd, S) /\ Granted(q) = SumFunctionOnSet(gg, S)
  BY SumsOfClaims
<1>7. n \in S  OBVIOUS
<1> HIDE DEF S, o, k, d, g, oo, kk, dd, gg
<1>8. /\ SumFunctionOnSet(oo, S) = SumFunctionOnSet(o, S) + oo[n] - o[n]
      /\ SumFunctionOnSet(kk, S) = SumFunctionOnSet(k, S) + kk[n] - k[n]
      /\ SumFunctionOnSet(o, S) \in Int /\ SumFunctionOnSet(k, S) \in Int
  BY <1>1, <1>2, <1>3, <1>7, SumUpdate
<1>9. /\ SumFunctionOnSet(dd, S) = SumFunctionOnSet(d, S) + dd[n] - d[n]
      /\ SumFunctionOnSet(gg, S) = SumFunctionOnSet(g, S) + gg[n] - g[n]
      /\ SumFunctionOnSet(d, S) \in Int /\ SumFunctionOnSet(g, S) \in Int
  BY <1>1, <1>2, <1>3, <1>7, SumUpdate
<1> QED  BY <1>4, <1>5, <1>6, <1>8, <1>9

LEMMA EmptySum == SumFunction(<<>>) = 0
<1>1. DOMAIN <<>> = {}  OBVIOUS
<1> QED  BY <1>1, SumEmpty DEF SumFunction

(* The principal a claim keeps is a natural. *)
LEMMA ReservedNat ==
    ASSUME NEW a, NEW claim, claim = NoClaim \/ Terms(a, claim)
    PROVE  /\ ReservedOf(claim) \in Nat
           /\ claim.cash \in Int /\ claim.delta \in Int
           /\ claim.status = "captured" => ReservedOf(claim) = 0
<1>1. CASE claim = NoClaim  BY <1>1, EmptySum DEF NoClaim, Claim, ReservedOf
<1>2. CASE Terms(a, claim) /\ claim.reserved = <<>>
  BY <1>2, EmptySum DEF Terms, ReservedOf
<1>3. CASE Terms(a, claim) /\ claim.reserved # <<>>
  <2>1. claim.reserved \in [Entitled(claim) -> Nat] /\ claim.status # "captured"
    BY <1>3 DEF Terms
  <2>2. IsFiniteSet(Entitled(claim))
    <3> DEFINE idOf == [l \in claim.lots |-> l.id]
    <3>1. IsFiniteSet(claim.lots)  BY <1>3 DEF Terms, OpenLots
    <3>2. Entitled(claim) = {idOf[l] : l \in claim.lots}  BY DEF Entitled
    <3> HIDE DEF idOf
    <3> QED  BY <3>1, <3>2, FiniteImage
  <2> DEFINE E == Entitled(claim)
             r == claim.reserved
  <2>3. DOMAIN r = E /\ \A id \in E : r[id] \in Nat  BY <2>1
  <2>4. IsFiniteSet(E)  BY <2>2
  <2>5. ReservedOf(claim) = SumFunctionOnSet(r, E)  BY <2>3 DEF ReservedOf, SumFunction
  <2> HIDE DEF E, r
  <2>6. SumFunctionOnSet(r, E) \in Nat  BY <2>3, <2>4, SumNat
  <2> QED  BY <1>3, <2>1, <2>5, <2>6 DEF Terms
<1> QED  BY <1>1, <1>2, <1>3

LEMMA AccountWhole ==
    ASSUME NEW actions, Calendar(actions), NEW p, AccountOK(p, actions)
    PROVE  Whole(p.claims) /\ DOMAIN p.claims = NamesOf(actions)
<1>1. DOMAIN p.claims = NamesOf(actions)  BY DEF AccountOK, Shape
<1>2. IsFiniteSet(NamesOf(actions))
  <2> DEFINE nameOf == [a \in actions |-> a.name]
  <2>1. NamesOf(actions) = {nameOf[a] : a \in actions}  BY DEF NamesOf
  <2> HIDE DEF nameOf
  <2> QED  BY <2>1, FiniteImage DEF Calendar
<1>3. ASSUME NEW n \in NamesOf(actions)
      PROVE  /\ p.claims[n].cash \in Int /\ p.claims[n].delta \in Int
             /\ ReservedOf(p.claims[n]) \in Int
  <2>1. PICK a \in actions : n = a.name  BY DEF NamesOf
  <2>2. p.claims[n] = NoClaim \/ Terms(a, p.claims[n])  BY <2>1 DEF AccountOK, ClaimOK
  <2> QED  BY <2>2, ReservedNat
<1> QED  BY <1>1, <1>2, <1>3 DEF Whole

-----------------------------------------------------------------------------
(* What the phases make of the lots. *)

(* after gives each lot its next state, or the lot given for it. *)
LEMMA MappedLots ==
    ASSUME NEW lots, OpenLots(lots), NEW after,
           \A l \in lots : after[l] \in LotRecords /\ after[l].sellable >= after[l].acquired,
           \A k, l \in lots : after[k].id = after[l].id => k = l
    PROVE  LET image == {after[l] : l \in lots}
           IN  /\ OpenLots(image)
               /\ Quantity(image) = SumFunctionOnSet([l \in lots |-> after[l].qty], lots)
               /\ Cost(image) = SumFunctionOnSet([l \in lots |-> after[l].cost], lots)
               /\ Principal(image) = SumFunctionOnSet([l \in lots |-> after[l].principal], lots)
<1> DEFINE image == {after[l] : l \in lots}
           f == [l \in lots |-> after[l].qty]
           g == [l \in lots |-> after[l].cost]
           h == [l \in lots |-> after[l].principal]
           F == [l \in image |-> l.qty]
           G == [l \in image |-> l.cost]
           H == [l \in image |-> l.principal]
<1>1. IsFiniteSet(lots) /\ IsFiniteSet(image)  BY FiniteImage DEF OpenLots
<1>2. OpenLots(image)
  <2>1. image \subseteq LotRecords /\ \A l \in image : l.sellable >= l.acquired  OBVIOUS
  <2>2. \A k, l \in image : k.id = l.id => k = l  OBVIOUS
  <2> HIDE DEF image
  <2> QED  BY <1>1, <2>1, <2>2 DEF OpenLots
<1>3. \A k, l \in lots : after[k] = after[l] => k = l  OBVIOUS
<1>4. /\ \A l \in lots : f[l] \in Int /\ F[after[l]] = f[l]
      /\ \A l \in lots : g[l] \in Int /\ G[after[l]] = g[l]
      /\ \A l \in lots : h[l] \in Int /\ H[after[l]] = h[l]
  BY SMTT(30) DEF LotRecords
<1>5. /\ Quantity(image) = SumFunctionOnSet(F, image)
      /\ Cost(image) = SumFunctionOnSet(G, image)
      /\ Principal(image) = SumFunctionOnSet(H, image)
  <2> HIDE DEF image
  <2> QED  BY <1>1, AmountsOn
<1> HIDE DEF f, g, h, F, G, H
<1>6. /\ SumFunctionOnSet(F, image) = SumFunctionOnSet(f, lots)
      /\ SumFunctionOnSet(G, image) = SumFunctionOnSet(g, lots)
      /\ SumFunctionOnSet(H, image) = SumFunctionOnSet(h, lots)
  BY <1>1, <1>3, <1>4, SumImage
<1> HIDE DEF image
<1> QED  BY <1>2, <1>5, <1>6 DEF f, g, h, image

(* Lots that keep their shares and their date can be sold as before. *)
LEMMA EligibleMapped ==
    ASSUME NEW lots, OpenLots(lots), NEW after,
           \A l \in lots : after[l] \in LotRecords /\ after[l].sellable >= after[l].acquired,
           \A k, l \in lots : after[k].id = after[l].id => k = l,
           \A l \in lots : after[l].qty = l.qty /\ after[l].sellable = l.sellable, NEW d
    PROVE  Quantity(Eligible({after[l] : l \in lots}, d)) = Quantity(Eligible(lots, d))
<1> DEFINE S == Eligible(lots, d)
           f == [l \in S |-> after[l].qty]
           g == [l \in S |-> l.qty]
<1>1. S \subseteq lots /\ OpenLots(S) /\ IsFiniteSet(S)
  BY EligiblePart DEF OpenLots
<1>2. Eligible({after[l] : l \in lots}, d) = {after[l] : l \in S}
  BY DEF Eligible
<1>3. \A l \in S : f[l] = g[l]  BY <1>1
<1>4. Quantity(S) = SumFunctionOnSet(g, S)  BY <1>1, AmountsOn
<1>5. Quantity({after[l] : l \in S}) = SumFunctionOnSet(f, S)
  <2>1. /\ \A l \in S : after[l] \in LotRecords /\ after[l].sellable >= after[l].acquired
        /\ \A k, l \in S : after[k].id = after[l].id => k = l
    BY <1>1
  <2> HIDE DEF S
  <2>2. LET image == {after[l] : l \in S}
        IN  Quantity(image) = SumFunctionOnSet([l \in S |-> after[l].qty], S)
    BY <1>1, <2>1, MappedLots
  <2> QED  BY <2>2
<1> HIDE DEF S, f, g
<1>6. SumFunctionOnSet(f, S) = SumFunctionOnSet(g, S)  BY <1>1, <1>3, SumSame
<1>7. Quantity({after[l] : l \in S}) = Quantity(S)  BY <1>4, <1>5, <1>6
<1> QED  BY <1>2, <1>7 DEF S

(* What a lot reserves for given shares is a part of its principal. *)
LEMMA ReservePart ==
    ASSUME NEW a, NEW claim, Terms(a, claim), claim.delta > 0, NEW lot \in LotRecords
    PROVE  Reserve(lot, claim) \in 0..lot.principal
<1> DEFINE b == claim.qty + claim.delta
           k == claim.delta
           m == lot.principal
<1>1. k \in Nat /\ b \in Nat \ {0} /\ k <= b /\ m \in Nat
  BY DEF Terms, LotRecords
<1> HIDE DEF b, k, m
<1>2. (m * k) \div b \in 0..m  BY <1>1, DivPart
<1> QED  BY <1>2 DEF Reserve, b, k, m

(* Accrual moves principal from the record lots to the claim and touches   *)
(* nothing else (accrue_corporate_action).                                 *)
LEMMA AccrualLots ==
    ASSUME NEW p, OpenLots(p.lots), NEW a, NEW claim, Terms(a, claim), claim.status = "captured",
           GivesShares(a, claim) => RecordLotsKept(p, claim)
    PROVE  LET lots == LotsAfterAccrual(p, a, claim)
               next == AccruedClaim(p, a, claim)
           IN  /\ OpenLots(lots)
               /\ Quantity(lots) = Quantity(p.lots) /\ Cost(lots) = Cost(p.lots)
               /\ Principal(lots) + ReservedOf(next) = Principal(p.lots)
               /\ \A l \in lots : \E k \in p.lots : l.id = k.id
               /\ Terms(a, next)
               /\ \A d : Quantity(Eligible(lots, d)) = Quantity(Eligible(p.lots, d))
<1> DEFINE lots == LotsAfterAccrual(p, a, claim)
           next == AccruedClaim(p, a, claim)
<1>1. next.qty = claim.qty /\ next.cash = claim.cash /\ next.delta = claim.delta
      /\ next.lots = claim.lots /\ next.status = "accrued"
  BY DEF AccruedClaim, Terms
<1>2. CASE ~ GivesShares(a, claim)
  <2>1. lots = p.lots  BY <1>2 DEF LotsAfterAccrual
  <2>2. next.reserved = <<>> /\ claim.reserved = <<>>  BY <1>2 DEF AccruedClaim, Terms
  <2>3. ReservedOf(next) = 0  BY <2>2, EmptySum DEF ReservedOf
  <2>4. Principal(p.lots) \in Nat  BY AmountsNat
  <2>5. next \in [status : {"captured", "accrued", "settled"}, qty : Nat, cash : Nat, delta : Int,
                 lots : SUBSET LotRecords, reserved : {next.reserved}]
    BY <1>2 DEF AccruedClaim, Terms
  <2>6. Terms(a, next)
    <3> HIDE DEF next
    <3> QED  BY <1>1, <1>2, <2>2, <2>5 DEF Terms, GivesShares
  <2> QED  BY <2>1, <2>3, <2>4, <2>6
<1>3. CASE GivesShares(a, claim)
  <2> DEFINE E == Entitled(claim)
             r == [l \in p.lots |-> IF l.id \in E THEN Reserve(l, claim) ELSE 0]
             after == [l \in p.lots |-> IF l.id \in E
                                       THEN [l EXCEPT !.principal = @ - Reserve(l, claim)] ELSE l]
             L == {l \in p.lots : l.id \in E}
             idOf == [l \in p.lots |-> l.id]
             res == [id \in E |-> Reserve(CHOOSE l \in p.lots : l.id = id, claim)]
  <2>1. claim.delta > 0 /\ a.kind = "distribution" /\ RecordLotsKept(p, claim)
    BY <1>3 DEF GivesShares
  <2>2. \A l \in p.lots : Reserve(l, claim) \in 0..l.principal /\ l \in LotRecords
    BY <2>1, ReservePart DEF OpenLots
  <2>3. ASSUME NEW l \in p.lots
        PROVE  /\ after[l] \in LotRecords
               /\ after[l].id = l.id /\ after[l].qty = l.qty /\ after[l].cost = l.cost
               /\ after[l].acquired = l.acquired /\ after[l].sellable = l.sellable
               /\ after[l].principal = l.principal - r[l]
               /\ r[l] \in Nat /\ l.principal \in Nat /\ l.qty \in Nat /\ l.cost \in Nat
    <3>1. l \in LotRecords /\ Reserve(l, claim) \in 0..l.principal  BY <2>2
    <3>2. l.principal \in Nat /\ l.qty \in Nat /\ l.cost \in Nat  BY <3>1 DEF LotRecords
    <3>3. l.principal - Reserve(l, claim) \in Nat /\ Reserve(l, claim) \in Nat
          /\ l.principal - 0 = l.principal
      BY <3>1, <3>2
    <3> DEFINE m == l.principal - Reserve(l, claim)
    <3>4. CASE l.id \in E
      <4>1. after[l] = [l EXCEPT !.principal = m]  BY <3>4
      <4>2. r[l] = Reserve(l, claim)  BY <3>4
      <4>3. m \in Nat  BY <3>3
      <4> HIDE DEF m
      <4>4. [l EXCEPT !.principal = m] \in LotRecords  BY <3>1, <4>3 DEF LotRecords
      <4>5. /\ [l EXCEPT !.principal = m].id = l.id
            /\ [l EXCEPT !.principal = m].qty = l.qty
            /\ [l EXCEPT !.principal = m].cost = l.cost
            /\ [l EXCEPT !.principal = m].acquired = l.acquired
            /\ [l EXCEPT !.principal = m].sellable = l.sellable
            /\ [l EXCEPT !.principal = m].principal = m
        BY <3>1 DEF LotRecords
      <4> HIDE DEF after, r
      <4> QED  BY <3>2, <3>3, <4>1, <4>2, <4>4, <4>5 DEF m
    <3>5. CASE l.id \notin E
      <4>1. after[l] = l /\ r[l] = 0  BY <3>5
      <4> HIDE DEF after, r
      <4> QED  BY <3>1, <3>2, <3>3, <4>1
    <3> QED  BY <3>4, <3>5
  <2>4. lots = {after[l] : l \in p.lots}  BY <1>3 DEF LotsAfterAccrual
  <2>5. /\ \A k, l \in p.lots : k.id = l.id => k = l
        /\ \A l \in p.lots : l.sellable >= l.acquired
        /\ IsFiniteSet(p.lots)
    BY DEF OpenLots
  <2>6. E = {idOf[l] : l \in L}
    <3>1. ASSUME NEW id \in E PROVE \E l \in L : l.id = id
      <4>1. PICK source \in claim.lots : source.id = id  BY DEF Entitled
      <4>2. PICK l \in p.lots : l.id = source.id  BY <2>1, <4>1 DEF RecordLotsKept, HeldNow
      <4> QED  BY <4>1, <4>2
    <3> HIDE DEF E
    <3> QED  BY <3>1
  <2>7. \A l \in L : res[idOf[l]] = r[l]
    <3> SUFFICES ASSUME NEW l \in p.lots, l.id \in E PROVE res[l.id] = r[l]  OBVIOUS
    <3>1. (CHOOSE k \in p.lots : k.id = l.id) = l  BY <2>5
    <3> HIDE DEF E
    <3> QED  BY <3>1
  <2>8. next.reserved = res  BY <1>3 DEF AccruedClaim, Terms
  <2>9. \A id \in E : res[id] \in Nat
    <3> SUFFICES ASSUME NEW id \in E PROVE res[id] \in Nat  OBVIOUS
    <3> HIDE DEF E, res, r
    <3>1. PICK l \in L : idOf[l] = id  BY <2>6
    <3>2. res[id] = r[l] /\ l \in p.lots  BY <2>7, <3>1
    <3> QED  BY <2>3, <3>2
  <2>10. Terms(a, next)
    <3>1. res \in [E -> Nat]
      <4>1. res = [id \in E |-> res[id]]  OBVIOUS
      <4> HIDE DEF res, E
      <4> QED  BY <2>9, <4>1
    <3>2. next \in [status : {"captured", "accrued", "settled"}, qty : Nat, cash : Nat, delta : Int,
                   lots : SUBSET LotRecords, reserved : {next.reserved}]
      BY DEF AccruedClaim, Terms
    <3>3. Entitled(next) = E  BY <1>1 DEF Entitled
    <3> HIDE DEF next, res, E
    <3>4. GivesShares(a, next)  BY <1>1, <1>3 DEF GivesShares
    <3> QED  BY <1>1, <2>1, <2>8, <3>1, <3>2, <3>3, <3>4 DEF Terms
  <2>11. ReservedOf(next) = SumFunctionOnSet(res, E)
    <3>1. DOMAIN res = E  OBVIOUS
    <3> HIDE DEF res, E, next
    <3> QED  BY <2>8, <3>1 DEF ReservedOf, SumFunction
  <2> DEFINE f == [l \in p.lots |-> after[l].qty]
             g == [l \in p.lots |-> after[l].cost]
             h == [l \in p.lots |-> after[l].principal]
             qs == [l \in p.lots |-> l.qty]
             cs == [l \in p.lots |-> l.cost]
             ps == [l \in p.lots |-> l.principal]
  <2>12. /\ \A l \in p.lots : f[l] = qs[l]
         /\ \A l \in p.lots : g[l] = cs[l]
         /\ \A l \in p.lots : h[l] \in Int /\ r[l] \in Int /\ ps[l] = h[l] + r[l]
    <3> HIDE DEF after, r
    <3> QED  BY <2>3
  <2>13. /\ OpenLots(lots)
         /\ Quantity(lots) = SumFunctionOnSet(f, p.lots)
         /\ Cost(lots) = SumFunctionOnSet(g, p.lots)
         /\ Principal(lots) = SumFunctionOnSet(h, p.lots)
         /\ \A d : Quantity(Eligible(lots, d)) = Quantity(Eligible(p.lots, d))
    <3>1. /\ \A l \in p.lots : after[l] \in LotRecords /\ after[l].sellable >= after[l].acquired
          /\ \A k, l \in p.lots : after[k].id = after[l].id => k = l
      <4> HIDE DEF after, r
      <4>1. \A l \in p.lots : after[l] \in LotRecords  BY <2>3
      <4>2. ASSUME NEW l \in p.lots PROVE after[l].sellable >= after[l].acquired
        BY <2>3, <2>5
      <4>3. ASSUME NEW k \in p.lots, NEW l \in p.lots, after[k].id = after[l].id PROVE k = l
        BY <2>3, <2>5, <4>3
      <4> QED  BY <4>1, <4>2, <4>3
    <3> DEFINE S == p.lots
    <3>2. OpenLots(S) /\ lots = {after[l] : l \in S}  BY <2>4
    <3> HIDE DEF after, lots
    <3>3. /\ \A l \in S : after[l] \in LotRecords /\ after[l].sellable >= after[l].acquired
          /\ \A k, l \in S : after[k].id = after[l].id => k = l
      BY <3>1
    <3> HIDE DEF S
    <3>4. LET image == {after[l] : l \in S}
          IN  /\ OpenLots(image)
              /\ Quantity(image) = SumFunctionOnSet([l \in S |-> after[l].qty], S)
              /\ Cost(image) = SumFunctionOnSet([l \in S |-> after[l].cost], S)
              /\ Principal(image) = SumFunctionOnSet([l \in S |-> after[l].principal], S)
      BY <3>2, <3>3, MappedLots
    <3>5. ASSUME NEW l \in S PROVE after[l].qty = l.qty /\ after[l].sellable = l.sellable
      BY <2>3, <3>5 DEF S
    <3>6. \A d : Quantity(Eligible({after[l] : l \in S}, d)) = Quantity(Eligible(S, d))
      BY <3>2, <3>3, <3>5, EligibleMapped
    <3> QED  BY <3>2, <3>4, <3>6 DEF S
  <2>14. /\ Quantity(p.lots) = SumFunctionOnSet(qs, p.lots)
         /\ Cost(p.lots) = SumFunctionOnSet(cs, p.lots)
         /\ Principal(p.lots) = SumFunctionOnSet(ps, p.lots)
    BY <2>5, AmountsOn
  <2>15. \A l \in lots : \E k \in p.lots : l.id = k.id
    <3> HIDE DEF after, lots
    <3> QED  BY <2>3, <2>4, ZenonT(60)
  <2>16. /\ \A l \in L : r[l] \in Int
         /\ \A l \in p.lots \ L : r[l] = 0
         /\ L \subseteq p.lots
         /\ \A k, l \in L : idOf[k] = idOf[l] => k = l
    BY <2>5, <2>12
  <2>17. IsFiniteSet(L)  BY <2>5, FS_Subset
  <2> HIDE DEF E, r, after, L, idOf, res, f, g, h, qs, cs, ps, lots, next
  <2>18. SumFunctionOnSet(f, p.lots) = SumFunctionOnSet(qs, p.lots)  BY <2>5, <2>12, SumSame
  <2>19. SumFunctionOnSet(g, p.lots) = SumFunctionOnSet(cs, p.lots)  BY <2>5, <2>12, SumSame
  <2>20. SumFunctionOnSet(ps, p.lots) = SumFunctionOnSet(h, p.lots) + SumFunctionOnSet(r, p.lots)
    BY <2>5, <2>12, SumPlus
  <2>21. SumFunctionOnSet(r, p.lots) = SumFunctionOnSet(r, L)
    <3> DEFINE S == p.lots
    <3>1. IsFiniteSet(S) /\ L \subseteq S /\ (\A l \in S : r[l] \in Int)
          /\ \A l \in S \ L : r[l] = 0
      BY <2>5, <2>12, <2>16
    <3> HIDE DEF S
    <3>2. SumFunctionOnSet(r, S) = SumFunctionOnSet(r, L)  BY <3>1, SumPart
    <3> QED  BY <3>2 DEF S
  <2>22. SumFunctionOnSet(res, E) = SumFunctionOnSet(r, L)
    <3>1. SumFunctionOnSet(res, {idOf[l] : l \in L}) = SumFunctionOnSet(r, L)
      BY <2>7, <2>16, <2>17, SumImage
    <3> QED  BY <2>6, <3>1
  <2>23. Quantity(lots) = Quantity(p.lots) /\ Cost(lots) = Cost(p.lots)
    BY <2>13, <2>14, <2>18, <2>19
  <2>24. Principal(lots) + ReservedOf(next) = Principal(p.lots)
    BY <2>11, <2>13, <2>14, <2>20, <2>21, <2>22
  <2> QED  BY <2>10, <2>13, <2>15, <2>23, <2>24 DEF lots, next
<1> QED  BY <1>2, <1>3

LEMMA AppendParts ==
    ASSUME NEW s \in Seq(Nat), NEW n \in Nat
    PROVE  /\ Append(s, n) \in Seq(Nat) \ {<<>>}
           /\ Len(Append(s, n)) = Len(s) + 1 /\ Len(s) \in Nat
           /\ Append(s, n)[Len(s) + 1] = n
           /\ \A i \in 1..Len(s) : Append(s, n)[i] = s[i]
<1>1. Append(s, n) \in Seq(Nat) /\ Len(Append(s, n)) = Len(s) + 1 /\ Len(s) \in Nat  OBVIOUS
<1>2. Len(<<>>) = 0  OBVIOUS
<1>3. Append(s, n) # <<>>  BY <1>1, <1>2
<1> QED  BY <1>1, <1>3

LEMMA AppendSame ==
    ASSUME NEW s \in Seq(Nat), NEW t \in Seq(Nat), NEW n \in Nat, Append(s, n) = Append(t, n)
    PROVE  s = t
<1>1. Len(s) + 1 = Len(t) + 1  BY AppendParts
<1>2. Len(s) \in Nat /\ Len(t) \in Nat  OBVIOUS
<1>3. Len(s) = Len(t)  BY <1>1, <1>2
<1>4. ASSUME NEW i \in 1..Len(s) PROVE s[i] = t[i]
  <2>1. Append(s, n)[i] = s[i]  BY AppendParts, SMTT(30)
  <2>2. i \in 1..Len(t)  BY <1>3
  <2>3. Append(t, n)[i] = t[i]  BY <2>2, AppendParts
  <2> QED  BY <2>1, <2>3
<1>5. s = [i \in 1..Len(s) |-> s[i]] /\ t = [i \in 1..Len(t) |-> t[i]]  OBVIOUS
<1>6. [i \in 1..Len(s) |-> s[i]] = [i \in 1..Len(s) |-> t[i]]  BY <1>4
<1> QED  BY <1>3, <1>5, <1>6

(* A lot has no more shares than the position. *)
LEMMA QuantityLeq ==
    ASSUME NEW lots, OpenLots(lots), NEW lot \in lots
    PROVE  lot.qty \in Nat \ {0} /\ lot.qty <= Quantity(lots) /\ Quantity(lots) \in Nat \ {0}
<1>1. lot \in LotRecords /\ lot.qty \in Nat \ {0}  BY DEF OpenLots, LotRecords
<1>2. Quantity({lot}) = lot.qty  BY <1>1, AmountsOne
<1>3. Quantity(lots) = Quantity({lot}) + Quantity(lots \ {lot})  BY AmountsParted
<1>4. Quantity(lots \ {lot}) \in Nat
  <2>1. OpenLots(lots \ {lot})  BY OpenPart
  <2> QED  BY <2>1, AmountsNat
<1> QED  BY <1>1, <1>2, <1>3, <1>4

(* Part n of b, as often as k goes into it. *)
LEMMA Portion ==
    ASSUME NEW n \in Nat \ {0}, NEW k \in Nat \ {0}, NEW b \in Nat \ {0}, Divides(b, n * k)
    PROVE  /\ (n * k) \div b \in Nat \ {0}
           /\ b * ((n * k) \div b) = k * n
<1> DEFINE m == n * k
<1>1. m \in Nat /\ m > 0  BY ProductNat
<1>2. m % b = 0  BY DEF Divides
<1>3. m = k * n  OBVIOUS
<1> HIDE DEF m
<1>4. b * (m \div b) = m /\ m \div b > 0 /\ m \div b \in Nat
  BY <1>1, <1>2, DivExact, DivNat
<1> QED  BY <1>3, <1>4 DEF m

LEMMA MaxLeq ==
    ASSUME NEW m \in Nat, NEW n \in Nat
    PROVE  Max({m, n}) \in Nat /\ Max({m, n}) >= m /\ Max({m, n}) >= n
<1>1. m \in Int /\ n \in Int  OBVIOUS
<1>2. Max({m, n}) = IF m >= n THEN m ELSE n  BY <1>1, MinMax
<1> QED  BY <1>2

(* Settling a distribution adds exactly the entitled shares, at no cost,   *)
(* with the principal kept for them, in lots of new ids.                   *)
LEMMA GivenLots ==
    ASSUME NEW p, OpenLots(p.lots), Traced(p, p.lots),
           NEW a, a \in ActionSet(Nat, Nat), a.name \notin Settled(p),
           NEW claim, Terms(a, claim), claim.status = "accrued", Traced(p, claim.lots),
           GivesShares(a, claim), DistributionFits(claim)
    PROVE  LET lots == LotsAfterSettlement(p, a, claim)
           IN  /\ OpenLots(lots)
               /\ Quantity(lots) = Quantity(p.lots) + claim.delta
               /\ Cost(lots) = Cost(p.lots)
               /\ Principal(lots) = Principal(p.lots) + ReservedOf(claim)
               /\ \A l \in lots : \A i \in 2..Len(l.id) : l.id[i] \in Settled(p) \cup {a.name}
               /\ \A l \in lots \ p.lots : l.sellable >= a.sellable
<1> DEFINE S == claim.lots
           E == Entitled(claim)
           r == claim.reserved
           after == [l \in S |-> GivenLot(a, claim, l)]
           given == {after[l] : l \in S}
           lots == p.lots \cup given
<1>1. /\ OpenLots(S) /\ IsFiniteSet(S) /\ S \subseteq LotRecords
      /\ \A k, l \in S : k.id = l.id => k = l
      /\ \A l \in S : l.sellable >= l.acquired
      /\ claim.qty = Quantity(S) /\ claim.qty \in Nat
      /\ claim.delta \in Nat \ {0}
      /\ r \in [E -> Nat]
      /\ a.name \in Nat /\ a.sellable \in Nat
  BY DEF Terms, GivesShares, OpenLots, ActionSet
<1>2. ASSUME NEW l \in S
      PROVE  /\ after[l] \in LotRecords /\ after[l].sellable >= after[l].acquired
             /\ after[l].id = Append(l.id, a.name) /\ l.id \in Seq(Nat) \ {<<>>}
             /\ l.qty \in Nat
             /\ after[l].qty \in Nat /\ claim.qty * after[l].qty = claim.delta * l.qty
             /\ after[l].cost = 0 /\ after[l].principal = r[l.id] /\ r[l.id] \in Nat
             /\ after[l].sellable >= a.sellable
  <2>1. l \in LotRecords /\ l.qty \in Nat \ {0} /\ l.id \in Seq(Nat) \ {<<>>}
        /\ l.acquired \in Nat /\ l.sellable \in Nat /\ l.sellable >= l.acquired
    BY <1>1 DEF LotRecords
  <2>2. claim.qty \in Nat \ {0}  BY <1>1, QuantityLeq
  <2> DEFINE n == (l.qty * claim.delta) \div claim.qty
             m == Max({l.sellable, a.sellable})
  <2>3. n \in Nat \ {0} /\ claim.qty * n = claim.delta * l.qty
    <3>1. Divides(claim.qty, l.qty * claim.delta)  BY DEF DistributionFits
    <3> QED  BY <1>1, <2>1, <2>2, <3>1, Portion
  <2>4. m \in Nat /\ m >= l.acquired /\ m >= a.sellable
    <3>1. m \in Nat /\ m >= l.sellable /\ m >= a.sellable  BY <1>1, <2>1, MaxLeq
    <3> HIDE DEF m
    <3> QED  BY <2>1, <3>1
  <2>5. r[l.id] \in Nat
    <3>1. l.id \in E  BY DEF Entitled
    <3> HIDE DEF E, r
    <3> QED  BY <1>1, <3>1
  <2>6. Append(l.id, a.name) \in Seq(Nat) \ {<<>>}  BY <1>1, <2>1, AppendParts
  <2>7. after[l] = [id |-> Append(l.id, a.name), acquired |-> l.acquired, sellable |-> m,
                    qty |-> n, cost |-> 0, principal |-> r[l.id]]
    BY DEF GivenLot, Lot
  <2> HIDE DEF after, n, m, r
  <2>8. after[l] \in LotRecords  BY <2>1, <2>3, <2>4, <2>5, <2>6, <2>7 DEF LotRecords
  <2> QED  BY <2>1, <2>3, <2>4, <2>5, <2>7, <2>8
<1>3. \A k, l \in S : after[k].id = after[l].id => k = l
  <2> HIDE DEF after
  <2> SUFFICES ASSUME NEW k \in S, NEW l \in S, after[k].id = after[l].id PROVE k = l
    OBVIOUS
  <2>1. Append(k.id, a.name) = Append(l.id, a.name)
        /\ k.id \in Seq(Nat) /\ l.id \in Seq(Nat)
    BY <1>2
  <2>2. a.name \in Nat  BY <1>1
  <2>3. k.id = l.id  BY ONLY <2>1, <2>2, AppendSame
  <2> QED  BY <1>1, <2>3
<1> DEFINE f == [l \in S |-> after[l].qty]
           g == [l \in S |-> after[l].cost]
           h == [l \in S |-> after[l].principal]
           qs == [l \in S |-> l.qty]
           idOf == [l \in S |-> l.id]
<1>4. /\ OpenLots(given)
      /\ Quantity(given) = SumFunctionOnSet(f, S)
      /\ Cost(given) = SumFunctionOnSet(g, S)
      /\ Principal(given) = SumFunctionOnSet(h, S)
  <2>1. \A l \in S : after[l] \in LotRecords /\ after[l].sellable >= after[l].acquired
    BY <1>2
  <2> HIDE DEF after, S
  <2>2. LET image == {after[l] : l \in S}
        IN  /\ OpenLots(image)
            /\ Quantity(image) = SumFunctionOnSet([l \in S |-> after[l].qty], S)
            /\ Cost(image) = SumFunctionOnSet([l \in S |-> after[l].cost], S)
            /\ Principal(image) = SumFunctionOnSet([l \in S |-> after[l].principal], S)
    BY <1>1, <1>3, <2>1, MappedLots
  <2> QED  BY <2>2
<1>5. /\ \A l \in S : /\ f[l] \in Int /\ qs[l] \in Int
                       /\ claim.qty * f[l] = claim.delta * qs[l]
      /\ \A l \in S : g[l] = 0
      /\ \A l \in S : h[l] = r[idOf[l]] /\ h[l] \in Int
  <2> HIDE DEF after, r
  <2> QED  BY <1>2
<1>6. E = {idOf[l] : l \in S} /\ \A k, l \in S : idOf[k] = idOf[l] => k = l
  BY <1>1 DEF Entitled
<1>7. Quantity(S) = SumFunctionOnSet(qs, S)  BY <1>1, AmountsOn
<1>8. ReservedOf(claim) = SumFunctionOnSet(r, E)
  <2>1. DOMAIN r = E  BY <1>1
  <2> QED  BY <2>1 DEF ReservedOf, SumFunction
<1>10. ASSUME NEW l \in S, NEW i \in 2..Len(after[l].id)
       PROVE  after[l].id[i] \in Settled(p) \cup {a.name}
  <2> DEFINE id == Append(l.id, a.name)
  <2>1. after[l].id = id /\ l.id \in Seq(Nat)  BY <1>2
  <2> HIDE DEF after
  <2>2. /\ Len(id) = Len(l.id) + 1 /\ Len(l.id) \in Nat /\ id[Len(l.id) + 1] = a.name
        /\ \A j \in 1..Len(l.id) : id[j] = l.id[j]
    BY <1>1, <2>1, AppendParts
  <2>3. i \in 2..Len(id)  BY <2>1
  <2> HIDE DEF id
  <2>4. CASE i = Len(l.id) + 1  BY <2>1, <2>2, <2>4
  <2>5. CASE i # Len(l.id) + 1
    <3>1. i \in 1..Len(l.id) /\ i \in 2..Len(l.id)  BY <2>2, <2>3, <2>5
    <3>2. id[i] = l.id[i]  BY <2>2, <3>1
    <3>3. l.id[i] \in Settled(p)  BY <3>1 DEF Traced
    <3> QED  BY <2>1, <3>2, <3>3
  <2> QED  BY <2>4, <2>5
<1>11. \A l \in lots : \A i \in 2..Len(l.id) : l.id[i] \in Settled(p) \cup {a.name}
  <2>1. \A l \in p.lots : \A i \in 2..Len(l.id) : l.id[i] \in Settled(p)  BY DEF Traced
  <2>2. ASSUME NEW x \in given, NEW i \in 2..Len(x.id) PROVE x.id[i] \in Settled(p) \cup {a.name}
    <3> HIDE DEF after
    <3> QED  BY <1>10, <2>2
  <2> HIDE DEF given
  <2> QED  BY <2>1, <2>2
<1>12. \A k \in given, l \in p.lots : k.id # l.id
  <2> SUFFICES ASSUME NEW k \in S, NEW l \in p.lots, after[k].id = l.id PROVE FALSE
    OBVIOUS
  <2> HIDE DEF after
  <2> DEFINE id == Append(k.id, a.name)
  <2>1. l.id = id /\ k.id \in Seq(Nat) \ {<<>>}  BY <1>2
  <2>2. Len(id) = Len(k.id) + 1 /\ Len(k.id) \in Nat \ {0} /\ id[Len(k.id) + 1] = a.name
    <3>1. Len(k.id) # 0  BY <2>1
    <3> QED  BY <1>1, <2>1, <3>1, AppendParts
  <2> HIDE DEF id
  <2>3. Len(k.id) + 1 \in 2..Len(id)  BY <2>2
  <2>4. id[Len(k.id) + 1] \in Settled(p)  BY <2>1, <2>3 DEF Traced
  <2> QED  BY <2>2, <2>4
<1>21. \A l \in given : l.sellable >= a.sellable
  <2> HIDE DEF after
  <2> QED  BY <1>2
<1>9. given \cap p.lots = {}
  <2> HIDE DEF given
  <2> QED  BY <1>12
<1> HIDE DEF S, E, r, after, given, f, g, h, qs, idOf
<1>13. Quantity(given) = claim.delta
  <2>1. claim.qty * SumFunctionOnSet(f, S) = claim.delta * SumFunctionOnSet(qs, S)
    <3> DEFINE c == claim.qty
               t == claim.delta
    <3>1. c \in Int /\ t \in Int
          /\ \A l \in S : qs[l] \in Int /\ f[l] \in Int /\ c * f[l] = t * qs[l]
      BY <1>1, <1>5
    <3> HIDE DEF c, t
    <3>2. c * SumFunctionOnSet(f, S) = t * SumFunctionOnSet(qs, S)  BY <1>1, <3>1, SumShare
    <3> QED  BY <3>2 DEF c, t
  <2>2. SumFunctionOnSet(f, S) \in Int  BY <1>1, <1>5, SumInt
  <2>3. claim.qty \in Nat \ {0}
    <3> SUFFICES ASSUME claim.qty = 0 PROVE FALSE  BY <1>1
    <3>1. a.den * (0 + claim.delta) = a.num * 0 /\ a.den \in Nat \ {0} /\ a.num \in Nat
      BY DEF Terms, GivesShares, ShareKinds, ActionSet
    <3> DEFINE d == a.den
               t == claim.delta
    <3>2. d \in Nat /\ t \in Nat /\ d > 0 /\ t > 0
      <4>1. d \in Nat \ {0}  BY <3>1
      <4>2. t \in Nat \ {0}  BY <1>1
      <4> HIDE DEF d, t
      <4> QED  BY <4>1, <4>2
    <3>3. d * (0 + t) = 0  BY <3>1
    <3> HIDE DEF d, t
    <3>4. d * t > 0  BY <3>2, ProductNat
    <3> QED  BY <3>2, <3>3, <3>4
  <2>4. claim.qty * SumFunctionOnSet(f, S) = claim.qty * claim.delta
    <3>1. claim.delta * claim.qty = claim.qty * claim.delta  BY <1>1
    <3> QED  BY <1>1, <1>7, <2>1, <3>1
  <2>5. SumFunctionOnSet(f, S) = claim.delta
    <3> DEFINE i == SumFunctionOnSet(f, S)
               j == claim.qty
               k == claim.delta
    <3>1. i \in Int /\ j \in Nat \ {0} /\ k \in Int /\ j * i = j * k
      BY <1>1, <2>2, <2>3, <2>4
    <3> HIDE DEF i, j, k
    <3>2. i = k  BY <3>1, ProductCancel
    <3> QED  BY <3>2 DEF i, k
  <2> QED  BY <1>4, <2>5
<1>14. Cost(given) = 0  BY <1>1, <1>4, <1>5, SumZero
<1>15. Principal(given) = ReservedOf(claim)
  <2>1. SumFunctionOnSet(r, {idOf[l] : l \in S}) = SumFunctionOnSet(h, S)
    BY <1>1, <1>5, <1>6, SumImage
  <2> QED  BY <1>4, <1>6, <1>8, <2>1
<1>16. /\ Quantity(lots) = Quantity(p.lots) + Quantity(given)
       /\ Cost(lots) = Cost(p.lots) + Cost(given)
       /\ Principal(lots) = Principal(p.lots) + Principal(given)
  BY <1>4, <1>9, AmountsUnion
<1>17. OpenLots(lots)
  <2>1. IsFiniteSet(lots)  BY <1>4, FS_Union DEF OpenLots
  <2>2. lots \subseteq LotRecords /\ \A l \in lots : l.sellable >= l.acquired
    BY <1>4 DEF OpenLots
  <2>3. \A k, l \in lots : k.id = l.id => k = l
    <3>1. \A k, l \in given : k.id = l.id => k = l  BY <1>4 DEF OpenLots
    <3>2. \A k, l \in p.lots : k.id = l.id => k = l  BY DEF OpenLots
    <3> QED  BY <1>12, <3>1, <3>2
  <2> HIDE DEF lots
  <2> QED  BY <2>1, <2>2, <2>3 DEF OpenLots
<1>18. Cost(p.lots) \in Nat  BY AmountsNat
<1>19. lots = LotsAfterSettlement(p, a, claim)
  <2>1. lots = p.lots \cup {GivenLot(a, claim, source) : source \in claim.lots}
    BY DEF given, after, S
  <2> HIDE DEF lots
  <2> QED  BY <2>1 DEF LotsAfterSettlement
<1>20. Cost(lots) = Cost(p.lots)  BY <1>14, <1>16, <1>18
<1>22. \A l \in lots \ p.lots : l.sellable >= a.sellable  BY <1>21
<1> HIDE DEF lots
<1> QED  BY <1>11, <1>13, <1>15, <1>16, <1>17, <1>19, <1>20, <1>22

(* Settling a split or a reverse split multiplies every lot exactly and    *)
(* moves neither cost nor principal.                                       *)
LEMMA ScaledLots ==
    ASSUME NEW p, OpenLots(p.lots), NEW a, a \in ActionSet(Nat, Nat),
           NEW claim, Terms(a, claim), a.kind \in {"split", "reverse"}, SplitFits(p, claim)
    PROVE  LET lots == LotsAfterSettlement(p, a, claim)
           IN  /\ OpenLots(lots)
               /\ Quantity(lots) = Quantity(p.lots) + claim.delta
               /\ Cost(lots) = Cost(p.lots)
               /\ Principal(lots) = Principal(p.lots)
               /\ \A l \in lots : \E k \in p.lots : l.id = k.id
               /\ \A l \in lots : l.sellable >= a.sellable
<1> DEFINE S == p.lots
           after == [l \in S |-> Scaled(a, claim, l)]
           lots == {after[l] : l \in S}
           target == claim.qty + claim.delta
<1>1. /\ IsFiniteSet(S) /\ S \subseteq LotRecords
      /\ \A k, l \in S : k.id = l.id => k = l
      /\ \A l \in S : l.sellable >= l.acquired
      /\ claim.qty = Quantity(S) /\ claim.qty \in Nat /\ claim.delta \in Int
      /\ a.sellable \in Nat
  BY DEF Terms, OpenLots, ActionSet, SplitFits
<1>2. ASSUME NEW l \in S
      PROVE  /\ after[l] \in LotRecords /\ after[l].sellable >= after[l].acquired
             /\ after[l].id = l.id
             /\ l.qty \in Nat /\ l.cost \in Nat /\ l.principal \in Nat
             /\ after[l].qty \in Nat /\ claim.qty * after[l].qty = target * l.qty
             /\ after[l].cost = l.cost /\ after[l].principal = l.principal
             /\ after[l].sellable >= a.sellable
  <2>1. l \in LotRecords /\ l.qty \in Nat \ {0} /\ l.cost \in Nat /\ l.principal \in Nat
        /\ l.acquired \in Nat /\ l.sellable \in Nat /\ l.sellable >= l.acquired
    BY <1>1 DEF LotRecords
  <2>2. claim.qty \in Nat \ {0}  BY <1>1, QuantityLeq
  <2>3. target \in Nat \ {0}
    <3>1. target > 0  BY <2>2 DEF SplitFits
    <3> QED  BY <1>1, <3>1
  <2> DEFINE n == (l.qty * target) \div claim.qty
             m == Max({l.sellable, a.sellable})
  <2>4. n \in Nat \ {0} /\ claim.qty * n = target * l.qty
    <3>1. Divides(claim.qty, l.qty * target)  BY DEF SplitFits
    <3> HIDE DEF target
    <3> QED  BY <2>1, <2>2, <2>3, <3>1, Portion
  <2>5. m \in Nat /\ m >= l.acquired /\ m >= a.sellable
    <3>1. m \in Nat /\ m >= l.sellable /\ m >= a.sellable  BY <1>1, <2>1, MaxLeq
    <3> HIDE DEF m
    <3> QED  BY <2>1, <3>1
  <2>6. after[l] = [l EXCEPT !.qty = n, !.sellable = m]  BY DEF Scaled
  <2> HIDE DEF after, n, m, target
  <2>7. /\ [l EXCEPT !.qty = n, !.sellable = m].id = l.id
        /\ [l EXCEPT !.qty = n, !.sellable = m].acquired = l.acquired
        /\ [l EXCEPT !.qty = n, !.sellable = m].sellable = m
        /\ [l EXCEPT !.qty = n, !.sellable = m].qty = n
        /\ [l EXCEPT !.qty = n, !.sellable = m].cost = l.cost
        /\ [l EXCEPT !.qty = n, !.sellable = m].principal = l.principal
    BY <2>1 DEF LotRecords
  <2>8. [l EXCEPT !.qty = n, !.sellable = m] \in LotRecords
    BY <2>1, <2>4, <2>5 DEF LotRecords
  <2> QED  BY <2>1, <2>4, <2>5, <2>6, <2>7, <2>8
<1>3. \A k, l \in S : after[k].id = after[l].id => k = l
  <2> HIDE DEF after
  <2> QED  BY <1>1, <1>2
<1> DEFINE f == [l \in S |-> after[l].qty]
           g == [l \in S |-> after[l].cost]
           h == [l \in S |-> after[l].principal]
           qs == [l \in S |-> l.qty]
           cs == [l \in S |-> l.cost]
           ps == [l \in S |-> l.principal]
<1>4. /\ OpenLots(lots)
      /\ Quantity(lots) = SumFunctionOnSet(f, S)
      /\ Cost(lots) = SumFunctionOnSet(g, S)
      /\ Principal(lots) = SumFunctionOnSet(h, S)
  <2>1. (\A l \in S : after[l] \in LotRecords /\ after[l].sellable >= after[l].acquired)
        /\ OpenLots(S)
    BY <1>2
  <2> HIDE DEF after, S
  <2>2. LET image == {after[l] : l \in S}
        IN  /\ OpenLots(image)
            /\ Quantity(image) = SumFunctionOnSet([l \in S |-> after[l].qty], S)
            /\ Cost(image) = SumFunctionOnSet([l \in S |-> after[l].cost], S)
            /\ Principal(image) = SumFunctionOnSet([l \in S |-> after[l].principal], S)
    BY <1>3, <2>1, MappedLots
  <2> QED  BY <2>2
<1>5. /\ \A l \in S : /\ f[l] \in Int /\ qs[l] \in Int
                       /\ claim.qty * f[l] = target * qs[l]
      /\ \A l \in S : g[l] = cs[l]
      /\ \A l \in S : h[l] = ps[l]
  <2> HIDE DEF after, target
  <2> QED  BY <1>2
<1>6. /\ Quantity(S) = SumFunctionOnSet(qs, S)
      /\ Cost(S) = SumFunctionOnSet(cs, S)
      /\ Principal(S) = SumFunctionOnSet(ps, S)
  BY <1>1, AmountsOn
<1>7. \A l \in lots : \E k \in S : l.id = k.id
  <2> HIDE DEF after
  <2> QED  BY <1>2
<1>8. S = {} => claim.delta = 0 /\ claim.qty = 0
  <2> SUFFICES ASSUME S = {} PROVE claim.delta = 0 /\ claim.qty = 0  OBVIOUS
  <2>1. claim.qty = 0
    <3>1. SumFunctionOnSet(qs, S) = 0  BY SumEmpty
    <3> QED  BY <1>1, <1>6, <3>1
  <2>2. a.den * (claim.qty + claim.delta) = a.num * claim.qty
        /\ a.den \in Nat \ {0} /\ a.num \in Nat
    BY DEF Terms, ShareKinds, ActionSet
  <2> DEFINE d == a.den
             t == claim.delta
             n == a.num
  <2>3. d * (0 + t) = n * 0 /\ d \in Nat \ {0} /\ n \in Nat /\ t \in Int
    BY <1>1, <2>1, <2>2
  <2>4. t = 0
    <3> HIDE DEF d, t, n
    <3>1. d * t = d * 0  BY <2>3
    <3> QED  BY <2>3, <3>1, ProductCancel
  <2> QED  BY <2>1, <2>4
<1>14. \A l \in lots : l.sellable >= a.sellable
  <2> HIDE DEF after
  <2> QED  BY <1>2
<1>9. S # {} => claim.qty > 0  BY <1>1, QuantityLeq
<1>10. p.lots = S /\ lots = LotsAfterSettlement(p, a, claim)
  <2>1. lots = {Scaled(a, claim, lot) : lot \in p.lots}  OBVIOUS
  <2> HIDE DEF lots
  <2> QED  BY <2>1 DEF LotsAfterSettlement, GivesShares
<1> HIDE DEF S, after, lots, f, g, h, qs, cs, ps
<1>11. Quantity(lots) = target
  <2> DEFINE c == claim.qty
             t == target
             i == SumFunctionOnSet(f, S)
  <2>1. c \in Int /\ t \in Int
        /\ \A l \in S : qs[l] \in Int /\ f[l] \in Int /\ c * f[l] = t * qs[l]
    BY <1>1, <1>5
  <2>2. i \in Int  BY <1>1, <1>5, SumInt
  <2> HIDE DEF c, t
  <2>3. c * i = t * SumFunctionOnSet(qs, S)  BY <1>1, <2>1, SumShare
  <2>4. SumFunctionOnSet(qs, S) = c  BY <1>1, <1>6 DEF c
  <2>5. c * i = c * t
    <3>1. t * c = c * t  BY <2>1
    <3> QED  BY <2>3, <2>4, <3>1
  <2>6. CASE S = {}
    <3>1. i = 0  BY <2>6, SumEmpty
    <3> QED  BY <1>4, <1>8, <2>6, <3>1
  <2>7. CASE S # {}
    <3>1. c \in Nat \ {0}  BY <1>1, <1>9, <2>7 DEF c
    <3> HIDE DEF i
    <3>2. i = t  BY <2>1, <2>2, <2>5, <3>1, ProductCancel
    <3> QED  BY <1>4, <3>2 DEF i, t
  <2> QED  BY <2>6, <2>7
<1>12. Quantity(lots) = Quantity(S) + claim.delta  BY <1>1, <1>11
<1>13. Cost(lots) = Cost(S) /\ Principal(lots) = Principal(S)
  <2>1. SumFunctionOnSet(g, S) = SumFunctionOnSet(cs, S)  BY <1>1, <1>5, SumSame
  <2>2. SumFunctionOnSet(h, S) = SumFunctionOnSet(ps, S)  BY <1>1, <1>5, SumSame
  <2> QED  BY <1>4, <1>6, <2>1, <2>2
<1> QED  BY <1>4, <1>7, <1>10, <1>12, <1>13, <1>14

-----------------------------------------------------------------------------
(* A phase of one action: the claims of the others stay.                    *)

(* The claim of a becomes claim, and the phase is recorded. *)
Moves(p, q, a, claim, phase) ==
    /\ q.claims = [p.claims EXCEPT ![a.name] = claim]
    /\ q.phases = p.phases \cup {<<a.name, phase>>}
    /\ <<phase, p.claims[a.name].status, claim.status>> \in
          {<<"entitlement", "none", "captured">>, <<"accrual", "captured", "accrued">>,
           <<"settlement", "accrued", "settled">>}

(* What a phase of one action does to the sums over the claims. *)
LEMMA ClaimsMove ==
    ASSUME NEW actions, Calendar(actions), NEW p, AccountOK(p, actions), NEW a \in actions,
           a.kind # "rights", NEW q, NEW claim, NEW phase, Moves(p, q, a, claim, phase),
           Terms(a, claim), Traced(p, claim.lots)
    PROVE  /\ DOMAIN q.claims = DOMAIN p.claims /\ a.name \in DOMAIN p.claims
           /\ q.claims[a.name] = claim
           /\ \A b \in actions \ {a} : b.name # a.name /\ q.claims[b.name] = p.claims[b.name]
           /\ q.claims = [n \in NamesOf(actions) |-> q.claims[n]]
           /\ Settled(p) \subseteq Settled(q)
           /\ phase = "settlement" => a.name \in Settled(q)
           /\ \A b \in actions : ClaimOK(q, b)
           /\ Whole(q.claims)
<1>1. DOMAIN p.claims = NamesOf(actions) /\ a.name \in NamesOf(actions) /\ Whole(p.claims)
  BY AccountWhole DEF NamesOf
<1>2. DOMAIN q.claims = DOMAIN p.claims /\ q.claims[a.name] = claim
  BY <1>1 DEF Moves
<1>3. ASSUME NEW b \in actions, b # a
      PROVE  b.name # a.name /\ b.name \in DOMAIN p.claims /\ q.claims[b.name] = p.claims[b.name]
  <2>1. b.name # a.name  BY <1>3 DEF Calendar
  <2>2. b.name \in NamesOf(actions)  BY DEF NamesOf
  <2> QED  BY <1>1, <2>1, <2>2 DEF Moves
<1>4. q.claims = [n \in NamesOf(actions) |-> q.claims[n]]  BY <1>1 DEF Moves
<1>5. \A n \in DOMAIN p.claims \ {a.name} : q.claims[n] = p.claims[n]  BY DEF Moves
<1>6. p.claims[a.name].status # "settled"  BY DEF Moves
<1>7. Settled(p) \subseteq Settled(q)  BY <1>2, <1>5, <1>6 DEF Settled
<1>8. phase = "settlement" => a.name \in Settled(q)  BY <1>1, <1>2 DEF Settled, Moves
<1>9. ASSUME NEW b \in actions PROVE ClaimOK(q, b)
  <2>1. CASE b # a
    <3>1. ClaimOK(p, b)  BY DEF AccountOK
    <3>2. q.claims[b.name] = p.claims[b.name] /\ b.name # a.name  BY <1>3, <2>1
    <3>3. \A ph : Done(q, b, ph) <=> Done(p, b, ph)  BY <3>2 DEF Done, Moves
    <3>4. \A lots : Traced(p, lots) => Traced(q, lots)  BY <1>7 DEF Traced
    <3> QED  BY <3>1, <3>2, <3>3, <3>4 DEF ClaimOK
  <2>2. CASE b = a
    <3>1. ClaimOK(p, a)  BY DEF AccountOK
    <3>2. Traced(q, claim.lots)  BY <1>7 DEF Traced
    <3>3. /\ Done(q, a, "entitlement") <=> Done(p, a, "entitlement") \/ phase = "entitlement"
          /\ Done(q, a, "accrual") <=> Done(p, a, "accrual") \/ phase = "accrual"
          /\ Done(q, a, "settlement") <=> Done(p, a, "settlement") \/ phase = "settlement"
      BY DEF Done, Moves
    <3> DEFINE old == p.claims[a.name].status
               new == claim.status
    <3>4. /\ Done(p, a, "entitlement") <=> old # "none"
          /\ Done(p, a, "accrual") <=> old \in {"accrued", "settled"}
          /\ Done(p, a, "settlement") <=> old = "settled"
      BY <3>1 DEF ClaimOK
    <3>5. \/ phase = "entitlement" /\ old = "none" /\ new = "captured"
          \/ phase = "accrual" /\ old = "captured" /\ new = "accrued"
          \/ phase = "settlement" /\ old = "accrued" /\ new = "settled"
      BY DEF Moves
    <3> HIDE DEF old, new
    <3>6. /\ Done(q, a, "entitlement") <=> new # "none"
          /\ Done(q, a, "accrual") <=> new \in {"accrued", "settled"}
          /\ Done(q, a, "settlement") <=> new = "settled"
      BY <3>3, <3>4, <3>5
    <3> QED  BY <1>2, <2>2, <3>2, <3>6 DEF ClaimOK, new
  <2> QED  BY <2>1, <2>2
<1>10. Whole(q.claims)
  <2>1. ReservedOf(claim) \in Nat /\ claim.cash \in Int /\ claim.delta \in Int  BY ReservedNat
  <2>2. \A n \in DOMAIN p.claims : q.claims[n] = IF n = a.name THEN claim ELSE p.claims[n]
    BY <1>2, <1>5
  <2>3. ReservedOf(claim) \in Int  BY <2>1
  <2> HIDE DEF Moves
  <2> QED  BY <1>1, <1>2, <2>1, <2>2, <2>3 DEF Whole
<1> QED  BY <1>1, <1>2, <1>3, <1>4, <1>7, <1>8, <1>9, <1>10

(* The claims of other actions stay as they were. *)
LEMMA OthersStay ==
    ASSUME NEW actions, Calendar(actions), NEW p, AccountOK(p, actions), NEW a \in actions,
           NEW q, NEW claim, q.claims = [p.claims EXCEPT ![a.name] = claim]
    PROVE  /\ q.claims[a.name] = claim
           /\ \A b \in actions \ {a} : q.claims[b.name] = p.claims[b.name]
<1>1. a.name \in DOMAIN p.claims  BY AccountWhole DEF NamesOf
<1>2. \A b \in actions \ {a} : b.name # a.name /\ b.name \in DOMAIN p.claims
  BY AccountWhole DEF NamesOf, Calendar
<1> QED  BY <1>1, <1>2

(* The rest of the account moves with the claim. *)
Follows(p, q, old, claim) ==
    /\ q \in [ok : {TRUE}, cash : Nat, lots : SUBSET LotRecords, fills : SUBSET Nat,
              books : BookRecords, claims : {q.claims}, phases : {q.phases}]
    /\ OpenLots(q.lots) /\ Traced(q, q.lots)
    /\ Quantity(q.lots) = Quantity(p.lots) + GivenFor(claim) - GivenFor(old)
    /\ Principal(q.lots) + Kept(claim) = Principal(p.lots) + Kept(old)
    /\ q.cash = p.cash + PaidFor(claim) - PaidFor(old)
    /\ q.books.cash = p.books.cash + PaidFor(claim) - PaidFor(old)
    /\ q.books.receivable = p.books.receivable + Owed(claim) - Owed(old)
    /\ q.books.position = Cost(q.lots)
    /\ q.books.cash + q.books.position + q.books.expenses + q.books.pnl
         + q.books.receivable + q.books.income = 0

(* A phase that gives an action a lawful claim leaves a lawful account. *)
LEMMA PhaseOK ==
    ASSUME NEW actions, Calendar(actions), NEW p, AccountOK(p, actions), NEW a \in actions,
           a.kind # "rights", NEW q, NEW claim, NEW phase, Moves(p, q, a, claim, phase),
           Terms(a, claim), Traced(p, claim.lots), Follows(p, q, p.claims[a.name], claim)
    PROVE  AccountOK(q, actions) /\ Balanced(p, q)
<1> DEFINE old == p.claims[a.name]
<1>1. /\ DOMAIN q.claims = DOMAIN p.claims /\ a.name \in DOMAIN p.claims
      /\ q.claims[a.name] = claim
      /\ q.claims = [n \in NamesOf(actions) |-> q.claims[n]]
      /\ \A b \in actions : ClaimOK(q, b)
      /\ Whole(q.claims)
  BY ClaimsMove
<1>2. \A n \in DOMAIN p.claims \ {a.name} : q.claims[n] = p.claims[n]  BY DEF Moves
<1>3. Whole(p.claims)  BY AccountWhole
<1>4. /\ Receivable(q) = Receivable(p) + Owed(claim) - Owed(old)
      /\ PrincipalKept(q) = PrincipalKept(p) + Kept(claim) - Kept(old)
      /\ Paid(q) = Paid(p) + PaidFor(claim) - PaidFor(old)
      /\ Granted(q) = Granted(p) + GivenFor(claim) - GivenFor(old)
      /\ Receivable(p) \in Int /\ PrincipalKept(p) \in Int
      /\ Paid(p) \in Int /\ Granted(p) \in Int
  <2> DEFINE n == a.name
  <2>1. n \in DOMAIN p.claims /\ \A m \in DOMAIN p.claims \ {n} : q.claims[m] = p.claims[m]
    BY <1>1, <1>2
  <2>2. q.claims[n] = claim /\ p.claims[n] = old  BY <1>1
  <2>3. Whole(q.claims) /\ DOMAIN q.claims = DOMAIN p.claims  BY <1>1
  <2> HIDE DEF n, old
  <2>4. /\ Receivable(q) = Receivable(p) + Owed(q.claims[n]) - Owed(p.claims[n])
        /\ PrincipalKept(q) = PrincipalKept(p) + Kept(q.claims[n]) - Kept(p.claims[n])
        /\ Paid(q) = Paid(p) + PaidFor(q.claims[n]) - PaidFor(p.claims[n])
        /\ Granted(q) = Granted(p) + GivenFor(q.claims[n]) - GivenFor(p.claims[n])
        /\ Receivable(p) \in Int /\ PrincipalKept(p) \in Int
        /\ Paid(p) \in Int /\ Granted(p) \in Int
    BY <1>3, <2>1, <2>3, ClaimChanges
  <2> QED  BY <2>2, <2>4
<1>5. /\ \A n \in DOMAIN p.claims :
             p.claims[n].cash \in Int /\ p.claims[n].delta \in Int /\ ReservedOf(p.claims[n]) \in Int
      /\ claim.cash \in Int /\ claim.delta \in Int /\ ReservedOf(claim) \in Int
  <2>1. \A n \in DOMAIN q.claims :
             q.claims[n].cash \in Int /\ q.claims[n].delta \in Int /\ ReservedOf(q.claims[n]) \in Int
    BY <1>1 DEF Whole
  <2> QED  BY <1>1, <1>3, <2>1 DEF Whole
<1>6. /\ Owed(claim) \in Int /\ Kept(claim) \in Int /\ PaidFor(claim) \in Int
      /\ GivenFor(claim) \in Int
      /\ Owed(old) \in Int /\ Kept(old) \in Int /\ PaidFor(old) \in Int /\ GivenFor(old) \in Int
  BY <1>1, <1>5 DEF Owed, Kept, PaidFor, GivenFor
<1>7. /\ p.cash \in Nat /\ p.books.cash \in Int /\ p.books.receivable = Receivable(p)
      /\ Quantity(p.lots) \in Nat /\ Principal(p.lots) \in Nat /\ Principal(q.lots) \in Nat
  BY AmountsNat DEF AccountOK, Shape, BookRecords, BooksOK, Follows
<1>8. BooksOK(q)  BY <1>4, <1>7 DEF Follows, BooksOK
<1>9. Shape(q, actions)  BY <1>1 DEF Shape, Follows
<1>10. AccountOK(q, actions)  BY <1>1, <1>8, <1>9 DEF AccountOK, Follows
<1>11. Balanced(p, q)
  <2>1. /\ Quantity(q.lots) = Quantity(p.lots) + GivenFor(claim) - GivenFor(old)
        /\ Principal(q.lots) + Kept(claim) = Principal(p.lots) + Kept(old)
        /\ q.cash = p.cash + PaidFor(claim) - PaidFor(old)
        /\ q.books.cash = p.books.cash + PaidFor(claim) - PaidFor(old)
    BY DEF Follows
  <2> HIDE DEF old
  <2> QED  BY <1>4, <1>6, <1>7, <2>1 DEF Balanced, PrincipalInAll
<1> QED  BY <1>10, <1>11

LEMMA FieldsOf ==
    ASSUME NEW p, NEW actions, Shape(p, actions), NEW c
    PROVE  /\ p.ok = TRUE /\ p.cash \in Nat /\ p.lots \subseteq LotRecords
           /\ p.fills \subseteq Nat /\ p.books \in BookRecords
           /\ DOMAIN p = {"ok", "cash", "lots", "fills", "books", "claims", "phases"}
           /\ ~ Raise(p).ok
BY DEF Shape, Raise

(* capture_corporate_action_entitlement locks the holding and moves        *)
(* nothing.                                                                *)
LEMMA CaptureOK ==
    ASSUME NEW actions, Calendar(actions), NEW p, AccountOK(p, actions), NEW a \in actions,
           a.kind # "rights", NEW day, NEW q, q = Capture(p, a, day), q.ok,
           p.claims[a.name].status = "none"
    PROVE  LET claim == CapturedClaim(p, a)
           IN  /\ Moves(p, q, a, claim, "entitlement") /\ Terms(a, claim) /\ Traced(p, claim.lots)
               /\ AccountOK(q, actions) /\ Balanced(p, q)
               /\ claim.status = "captured" /\ claim.qty = Quantity(p.lots)
               /\ q.lots = p.lots
<1> DEFINE claim == CapturedClaim(p, a)
           held == Quantity(p.lots)
           next == [p EXCEPT !.claims[a.name] = claim]
<1>1. Shape(p, actions) /\ OpenLots(p.lots) /\ Traced(p, p.lots) /\ BooksOK(p) /\ ClaimOK(p, a)
  BY DEF AccountOK
<1>2. p.ok = TRUE /\ p.cash \in Nat /\ p.lots \subseteq LotRecords
      /\ p.fills \subseteq Nat /\ p.books \in BookRecords
      /\ DOMAIN p = {"ok", "cash", "lots", "fills", "books", "claims", "phases"}
      /\ ~ Raise(p).ok
  BY <1>1, FieldsOf
<1>3. ~ Done(p, a, "entitlement")  BY <1>1 DEF ClaimOK
<1>4. /\ q = Booked(next, a, "entitlement")
      /\ a.kind \in ShareKinds => Divides(a.den, held * a.num)
  <2> HIDE DEF held, next
  <2>1. q # Raise(p)  BY <1>2
  <2> QED  BY <1>3, <2>1 DEF Capture, held, next, claim
<1>5. /\ claim.status = "captured" /\ claim.qty = held /\ claim.lots = p.lots
      /\ claim.reserved = <<>>
      /\ claim.cash = (IF a.kind = "dividend" THEN a.perShare * held ELSE 0)
      /\ claim.delta = (IF a.kind \in ShareKinds THEN (held * a.num) \div a.den - held ELSE 0)
      /\ claim = [status |-> "captured", qty |-> held, cash |-> claim.cash, delta |-> claim.delta,
                  lots |-> p.lots, reserved |-> <<>>]
  <2> HIDE DEF held
  <2> QED  BY DEF CapturedClaim, Claim, held
<1>6. /\ q.ok = p.ok /\ q.cash = p.cash /\ q.lots = p.lots /\ q.fills = p.fills
      /\ q.books = p.books
      /\ q.claims = [p.claims EXCEPT ![a.name] = claim]
      /\ q.phases = p.phases \cup {<<a.name, "entitlement">>}
      /\ q = [ok |-> q.ok, cash |-> q.cash, lots |-> q.lots, fills |-> q.fills,
              books |-> q.books, claims |-> q.claims, phases |-> q.phases]
  <2> HIDE DEF claim
  <2> QED  BY <1>2, <1>4 DEF Booked
<1>7. Moves(p, q, a, claim, "entitlement")  BY <1>5, <1>6 DEF Moves
<1>8. /\ held \in Nat
      /\ a.perShare \in Nat /\ a.num \in Nat \ {0} /\ a.den \in Nat \ {0}
  BY <1>1, AmountsNat DEF Calendar, ActionSet
<1>9. /\ claim.cash \in Nat /\ claim.delta \in Int
      /\ a.kind \in ShareKinds => a.den * (claim.qty + claim.delta) = a.num * claim.qty
  <2> DEFINE n == a.num
             d == a.den
             c == a.perShare
  <2>1. held \in Nat /\ n \in Nat /\ d \in Nat \ {0} /\ c \in Nat  BY <1>8
  <2>2. a.kind \in ShareKinds => (held * n) % d = 0  BY <1>4 DEF Divides
  <2>3. claim.qty = held
        /\ claim.cash = (IF a.kind = "dividend" THEN c * held ELSE 0)
        /\ claim.delta = (IF a.kind \in ShareKinds THEN (held * n) \div d - held ELSE 0)
    BY <1>5
  <2> HIDE DEF n, d, c, held, claim
  <2>4. c * held \in Nat /\ held * n \in Nat  BY <2>1, ProductNat
  <2>5. (held * n) \div d \in Nat  BY <2>1, <2>4, DivNat
  <2>6. CASE a.kind \in ShareKinds
    <3> DEFINE t == (held * n) \div d
    <3>1. d * t = held * n  BY <2>1, <2>2, <2>4, <2>6, DivExact
    <3>2. claim.qty + claim.delta = t  BY <2>1, <2>3, <2>5, <2>6
    <3>3. held * n = n * held  BY <2>1
    <3>4. d * (claim.qty + claim.delta) = n * claim.qty
      <4> HIDE DEF t
      <4> QED  BY <2>3, <3>1, <3>2, <3>3
    <3>5. claim.cash \in Nat /\ claim.delta \in Int  BY <2>1, <2>3, <2>4, <2>5
    <3> QED  BY <3>4, <3>5 DEF n, d
  <2>7. CASE a.kind \notin ShareKinds  BY <2>3, <2>4, <2>7
  <2> QED  BY <2>6, <2>7
<1>10. Terms(a, claim)
  <2>1. OpenLots(claim.lots) /\ claim.qty = Quantity(claim.lots) /\ claim.lots \subseteq LotRecords
        /\ claim.qty \in Nat
    BY <1>1, <1>2, <1>5, <1>8
  <2>2. claim \in [status : {"captured", "accrued", "settled"}, qty : Nat, cash : Nat, delta : Int,
                   lots : SUBSET LotRecords, reserved : {claim.reserved}]
    <3> HIDE DEF claim, held
    <3> QED  BY <1>2, <1>5, <1>8, <1>9
  <2> HIDE DEF claim, held
  <2> QED  BY <1>5, <1>9, <2>1, <2>2 DEF Terms, GivesShares
<1>11. Traced(p, claim.lots)  BY <1>1, <1>5
<1>12. Follows(p, q, p.claims[a.name], claim)
  <2> DEFINE old == p.claims[a.name]
  <2>1. /\ GivenFor(claim) = 0 /\ GivenFor(old) = 0 /\ PaidFor(claim) = 0 /\ PaidFor(old) = 0
        /\ Owed(claim) = 0 /\ Owed(old) = 0 /\ Kept(claim) = 0 /\ Kept(old) = 0
    BY <1>5 DEF GivenFor, PaidFor, Owed, Kept
  <2>2. Traced(q, q.lots)
    <3>1. Settled(p) \subseteq Settled(q)  BY <1>7, <1>10, <1>11, ClaimsMove
    <3> QED  BY <1>1, <1>6, <3>1 DEF Traced
  <2>3. /\ q.ok = TRUE /\ q.cash \in Nat /\ q.lots \in SUBSET LotRecords
        /\ q.fills \in SUBSET Nat /\ q.books \in BookRecords
    BY <1>2, <1>6
  <2>4. q \in [ok : {TRUE}, cash : Nat, lots : SUBSET LotRecords, fills : SUBSET Nat,
               books : BookRecords, claims : {q.claims}, phases : {q.phases}]
    BY <1>6, <2>3
  <2>5. /\ p.books.cash \in Int /\ p.books.receivable \in Int /\ Principal(p.lots) \in Nat
        /\ Quantity(p.lots) \in Nat
    BY <1>1, <1>2, AmountsNat DEF BookRecords
  <2> HIDE DEF claim, held, old
  <2>6. Follows(p, q, old, claim)
    <3>1. OpenLots(q.lots)  BY <1>1, <1>6
    <3>2. /\ Quantity(q.lots) = Quantity(p.lots) + GivenFor(claim) - GivenFor(old)
          /\ Principal(q.lots) + Kept(claim) = Principal(p.lots) + Kept(old)
          /\ q.cash = p.cash + PaidFor(claim) - PaidFor(old)
          /\ q.books.cash = p.books.cash + PaidFor(claim) - PaidFor(old)
          /\ q.books.receivable = p.books.receivable + Owed(claim) - Owed(old)
      BY <1>2, <1>6, <2>1, <2>5
    <3>3. /\ q.books.position = Cost(q.lots)
          /\ q.books.cash + q.books.position + q.books.expenses + q.books.pnl
               + q.books.receivable + q.books.income = 0
      BY <1>1, <1>6 DEF BooksOK
    <3> QED  BY <2>2, <2>4, <3>1, <3>2, <3>3 DEF Follows
  <2> QED  BY <2>6 DEF old
<1>13. AccountOK(q, actions) /\ Balanced(p, q)  BY <1>7, <1>10, <1>11, <1>12, PhaseOK
<1> QED  BY <1>5, <1>6, <1>7, <1>10, <1>11, <1>13

(* The entries of an accrual and of a settlement, account by account. *)
LEMMA AccrualPosts ==
    ASSUME NEW b \in BookRecords, NEW x \in Int
    PROVE  LET c == AccrualEntry(b, x)
           IN  /\ c.cash = b.cash /\ c.position = b.position
               /\ c.expenses = b.expenses /\ c.pnl = b.pnl
               /\ c.receivable = b.receivable + x /\ c.income = b.income - x
               /\ c \in BookRecords
<1> DEFINE i == b.receivable + x
           j == b.income - x
           c == [b EXCEPT !.receivable = i, !.income = j]
<1>1. i \in Int /\ j \in Int
  <2>1. b.receivable \in Int /\ b.income \in Int  BY DEF BookRecords
  <2> QED  BY <2>1
<1>2. c = AccrualEntry(b, x)  BY DEF AccrualEntry
<1> HIDE DEF i, j
<1>3. /\ c.cash = b.cash /\ c.position = b.position /\ c.expenses = b.expenses /\ c.pnl = b.pnl
      /\ c.receivable = i /\ c.income = j
  BY DEF BookRecords
<1>4. c \in BookRecords  BY <1>1 DEF BookRecords
<1> QED  BY <1>2, <1>3, <1>4 DEF i, j

(* The posting of a settled dividend balances. *)
LEMMA SettlementPosts ==
    ASSUME NEW b \in BookRecords, NEW x \in Int
    PROVE  LET c == SettlementEntry(b, x)
           IN  /\ c.income = b.income /\ c.position = b.position
               /\ c.expenses = b.expenses /\ c.pnl = b.pnl
               /\ c.cash = b.cash + x /\ c.receivable = b.receivable - x
               /\ c \in BookRecords
<1> DEFINE i == b.cash + x
           j == b.receivable - x
           c == [b EXCEPT !.cash = i, !.receivable = j]
<1>1. i \in Int /\ j \in Int
  <2>1. b.receivable \in Int /\ b.cash \in Int  BY DEF BookRecords
  <2> QED  BY <2>1
<1>2. c = SettlementEntry(b, x)  BY DEF SettlementEntry
<1> HIDE DEF i, j
<1>3. /\ c.income = b.income /\ c.position = b.position /\ c.expenses = b.expenses /\ c.pnl = b.pnl
      /\ c.cash = i /\ c.receivable = j
  BY DEF BookRecords
<1>4. c \in BookRecords  BY <1>1 DEF BookRecords
<1> QED  BY <1>2, <1>3, <1>4 DEF i, j

(* The shares that can be sold on d. *)
Free(p, d) == Quantity(Eligible(p.lots, d))

LEMMA FreeNat ==
    ASSUME NEW p, NEW actions, AccountOK(p, actions), NEW d
    PROVE  Free(p, d) \in Nat
BY EligiblePart DEF AccountOK, Free

(* accrue_corporate_action keeps the account lawful and every total where  *)
(* it was.                                                                 *)
LEMMA AccrueOK ==
    ASSUME NEW actions, Calendar(actions), NEW p, AccountOK(p, actions), NEW a \in actions,
           NEW day, NEW q, q = Accrue(p, a, day), q.ok,
           p.claims[a.name].status = "captured"
    PROVE  LET old == p.claims[a.name]
               claim == AccruedClaim(p, a, old)
           IN  /\ a.kind # "rights"
               /\ Moves(p, q, a, claim, "accrual") /\ Terms(a, claim) /\ Traced(p, claim.lots)
               /\ AccountOK(q, actions) /\ Balanced(p, q)
               /\ claim.status = "accrued"
               /\ claim.qty = old.qty /\ claim.cash = old.cash /\ claim.delta = old.delta
               /\ \A d : Free(q, d) = Free(p, d)
<1> DEFINE old == p.claims[a.name]
           claim == AccruedClaim(p, a, old)
           lots == LotsAfterAccrual(p, a, old)
           next == [p EXCEPT !.claims[a.name] = claim, !.lots = lots,
                             !.books = AccrualEntry(@, old.cash)]
<1>1. Shape(p, actions) /\ OpenLots(p.lots) /\ Traced(p, p.lots) /\ BooksOK(p) /\ ClaimOK(p, a)
  BY DEF AccountOK
<1>2. p.ok = TRUE /\ p.cash \in Nat /\ p.lots \subseteq LotRecords
      /\ p.fills \subseteq Nat /\ p.books \in BookRecords
      /\ DOMAIN p = {"ok", "cash", "lots", "fills", "books", "claims", "phases"}
      /\ ~ Raise(p).ok
  BY <1>1, FieldsOf
<1>3. ~ Done(p, a, "accrual")  BY <1>1 DEF ClaimOK
<1>4. /\ a.kind # "rights" /\ Terms(a, old) /\ Traced(p, old.lots)
  <2>1. old # NoClaim  BY DEF NoClaim, Claim
  <2> QED  BY <1>1, <2>1 DEF ClaimOK
<1>5. /\ q = Booked(next, a, "accrual")
      /\ GivesShares(a, old) => RecordLotsKept(p, old)
  <2> HIDE DEF next, claim, lots
  <2>1. q # Raise(p)  BY <1>2
  <2> QED  BY <1>3, <2>1 DEF Accrue, next, claim, lots
<1>6. /\ OpenLots(lots)
      /\ Quantity(lots) = Quantity(p.lots) /\ Cost(lots) = Cost(p.lots)
      /\ Principal(lots) + ReservedOf(claim) = Principal(p.lots)
      /\ \A l \in lots : \E k \in p.lots : l.id = k.id
      /\ Terms(a, claim)
      /\ \A d : Quantity(Eligible(lots, d)) = Quantity(Eligible(p.lots, d))
  <2>1. old.status = "captured"  OBVIOUS
  <2> HIDE DEF old
  <2> QED  BY <1>1, <1>4, <1>5, <2>1, AccrualLots
<1>7. /\ claim.status = "accrued" /\ claim.qty = old.qty /\ claim.cash = old.cash
      /\ claim.delta = old.delta /\ claim.lots = old.lots
  <2> HIDE DEF old
  <2> QED  BY <1>4 DEF AccruedClaim, Terms
<1>8. /\ q.ok = p.ok /\ q.cash = p.cash /\ q.lots = lots /\ q.fills = p.fills
      /\ q.books.cash = p.books.cash /\ q.books.position = p.books.position
      /\ q.books.expenses = p.books.expenses /\ q.books.pnl = p.books.pnl
      /\ q.books.receivable = p.books.receivable + old.cash
      /\ q.books.income = p.books.income - old.cash
      /\ q.books \in BookRecords
      /\ q.claims = [p.claims EXCEPT ![a.name] = claim]
      /\ q.phases = p.phases \cup {<<a.name, "accrual">>}
      /\ q = [ok |-> q.ok, cash |-> q.cash, lots |-> q.lots, fills |-> q.fills,
              books |-> q.books, claims |-> q.claims, phases |-> q.phases]
  <2> HIDE DEF claim, lots, old
  <2> DEFINE b == AccrualEntry(p.books, old.cash)
  <2>1. /\ b.cash = p.books.cash /\ b.position = p.books.position
        /\ b.expenses = p.books.expenses /\ b.pnl = p.books.pnl
        /\ b.receivable = p.books.receivable + old.cash
        /\ b.income = p.books.income - old.cash
        /\ b \in BookRecords
    <3> DEFINE x == old.cash
               e == p.books
    <3>1. x \in Int /\ e \in BookRecords  BY <1>2, <1>4 DEF Terms
    <3>2. b = AccrualEntry(e, x)  OBVIOUS
    <3> HIDE DEF x, e, b
    <3>3. /\ b.cash = e.cash /\ b.position = e.position
          /\ b.expenses = e.expenses /\ b.pnl = e.pnl
          /\ b.receivable = e.receivable + x /\ b.income = e.income - x
          /\ b \in BookRecords
      BY <3>1, <3>2, AccrualPosts
    <3> QED  BY <3>3 DEF x, e
  <2>2. next.books = b /\ next.claims = [p.claims EXCEPT ![a.name] = claim] /\ next.lots = lots
        /\ next.ok = p.ok /\ next.cash = p.cash /\ next.fills = p.fills
        /\ next.phases = p.phases /\ DOMAIN next = DOMAIN p
        /\ next = [n \in DOMAIN p |-> next[n]]
    BY <1>2
  <2> HIDE DEF b, next
  <2>3. /\ q.ok = p.ok /\ q.cash = p.cash /\ q.lots = lots /\ q.fills = p.fills /\ q.books = b
        /\ q.claims = [p.claims EXCEPT ![a.name] = claim]
        /\ q.phases = p.phases \cup {<<a.name, "accrual">>}
        /\ q = [ok |-> q.ok, cash |-> q.cash, lots |-> q.lots, fills |-> q.fills,
                books |-> q.books, claims |-> q.claims, phases |-> q.phases]
    BY <1>2, <1>5, <2>2, ZenonT(60) DEF Booked
  <2> QED  BY <2>1, <2>3
<1>9. Moves(p, q, a, claim, "accrual")  BY <1>7, <1>8 DEF Moves
<1>10. Traced(p, claim.lots)  BY <1>4, <1>7
<1>11. old.cash \in Nat /\ old.delta \in Int /\ ReservedOf(claim) \in Nat /\ ReservedOf(old) = 0
  BY <1>4, <1>6, ReservedNat DEF Terms
<1>12. Follows(p, q, old, claim)
  <2>1. /\ GivenFor(claim) = 0 /\ GivenFor(old) = 0 /\ PaidFor(claim) = 0 /\ PaidFor(old) = 0
        /\ Owed(claim) = old.cash /\ Owed(old) = 0
        /\ Kept(claim) = ReservedOf(claim) /\ Kept(old) = 0
    BY <1>7 DEF GivenFor, PaidFor, Owed, Kept
  <2>2. Traced(q, q.lots)
    <3>1. Settled(p) \subseteq Settled(q)
      <4> HIDE DEF claim
      <4> QED  BY <1>4, <1>6, <1>9, <1>10, ClaimsMove
    <3> HIDE DEF lots
    <3> QED  BY <1>1, <1>6, <1>8, <3>1 DEF Traced
  <2>3. /\ p.books.cash \in Int /\ p.books.position \in Int /\ p.books.expenses \in Int
        /\ p.books.pnl \in Int /\ p.books.receivable \in Int /\ p.books.income \in Int
        /\ Principal(p.lots) \in Nat /\ Quantity(p.lots) \in Nat
    BY <1>1, <1>2, AmountsNat DEF BookRecords
  <2>4. q.books \in BookRecords  BY <1>8
  <2>5. /\ q.ok = TRUE /\ q.cash \in Nat /\ q.lots \in SUBSET LotRecords
        /\ q.fills \in SUBSET Nat
    BY <1>2, <1>6, <1>8 DEF OpenLots
  <2>6. q \in [ok : {TRUE}, cash : Nat, lots : SUBSET LotRecords, fills : SUBSET Nat,
               books : BookRecords, claims : {q.claims}, phases : {q.phases}]
    <3>1. q = [ok |-> q.ok, cash |-> q.cash, lots |-> q.lots, fills |-> q.fills,
               books |-> q.books, claims |-> q.claims, phases |-> q.phases]
      BY <1>8
    <3> QED  BY <2>4, <2>5, <3>1
  <2> HIDE DEF claim, old, lots
  <2>7. OpenLots(q.lots)  BY <1>6, <1>8
  <2>8. /\ Quantity(q.lots) = Quantity(p.lots) + GivenFor(claim) - GivenFor(old)
        /\ Principal(q.lots) + Kept(claim) = Principal(p.lots) + Kept(old)
        /\ q.cash = p.cash + PaidFor(claim) - PaidFor(old)
        /\ q.books.cash = p.books.cash + PaidFor(claim) - PaidFor(old)
        /\ q.books.receivable = p.books.receivable + Owed(claim) - Owed(old)
    BY <1>2, <1>6, <1>8, <1>11, <2>1, <2>3
  <2>9. q.books.position = Cost(q.lots)  BY <1>1, <1>6, <1>8 DEF BooksOK
  <2>10. q.books.cash + q.books.position + q.books.expenses + q.books.pnl
           + q.books.receivable + q.books.income = 0
    BY <1>1, <1>8, <1>11, <2>3 DEF BooksOK
  <2> QED  BY <2>2, <2>6, <2>7, <2>8, <2>9, <2>10 DEF Follows
<1>13. AccountOK(q, actions) /\ Balanced(p, q)
  BY <1>4, <1>6, <1>9, <1>10, <1>12, PhaseOK
<1>14. \A d : Free(q, d) = Free(p, d)
  <2> HIDE DEF lots
  <2> QED  BY <1>6, <1>8 DEF Free
<1> QED  BY <1>4, <1>6, <1>7, <1>9, <1>10, <1>13, <1>14

(* A distribution takes no share away. *)
LEMMA DistributionGives ==
    ASSUME NEW actions, Calendar(actions), NEW a \in actions, a.kind = "distribution",
           NEW claim, Terms(a, claim)
    PROVE  claim.delta \in Nat
<1> DEFINE d == a.den
           n == a.num
           t == claim.delta
           k == claim.qty
<1>1. /\ n > d /\ n \in Nat /\ d \in Nat \ {0} /\ t \in Int /\ k \in Nat
      /\ d * (k + t) = n * k
  <2>1. a.num > a.den /\ a.num \in Nat /\ a.den \in Nat \ {0}
    BY DEF Calendar, ValidAction, ActionSet
  <2>2. claim.delta \in Int /\ claim.qty \in Nat
        /\ a.den * (claim.qty + claim.delta) = a.num * claim.qty
    BY DEF Terms, ShareKinds
  <2> QED  BY <2>1, <2>2
<1> HIDE DEF d, n, t, k
<1>2. ~ (t < 0)
  <2> SUFFICES ASSUME t < 0 PROVE FALSE  OBVIOUS
  <2>1. d * (k + t) <= d * (k - 1)
    <3>1. k + t <= k - 1 /\ k + t \in Int /\ k - 1 \in Int  BY <1>1
    <3> QED  BY <1>1, <3>1, ProductOrder
  <2>2. d * (k - 1) = d * k - d  BY <1>1
  <2>3. k * d <= k * n  BY <1>1, ProductOrder
  <2>4. k * d = d * k /\ k * n = n * k /\ d * k \in Int /\ n * k \in Int  BY <1>1
  <2> QED  BY <1>1, <2>1, <2>2, <2>3, <2>4
<1>3. t \in Nat  BY <1>1, <1>2
<1> QED  BY <1>3 DEF t

(* What the settlement of a does to the shares that can be sold on d: its  *)
(* own are not sold before their date, and a split or a merger locks all.  *)
Releases(a, claim, was, now, d) ==
    /\ a.kind = "distribution" =>
          now \in was..(was + (IF a.sellable <= d THEN claim.delta ELSE 0))
    /\ d < a.sellable => now <= was

(* What becomes of the lots at settlement, by kind. *)
LEMMA SettledLots ==
    ASSUME NEW actions, Calendar(actions), NEW p, AccountOK(p, actions), NEW a \in actions,
           NEW claim, claim = p.claims[a.name], claim.status = "accrued",
           Terms(a, claim), Traced(p, claim.lots), SettlementFits(p, a, claim)
    PROVE  LET lots == LotsAfterSettlement(p, a, claim)
           IN  /\ OpenLots(lots)
               /\ Quantity(lots) = Quantity(p.lots) + claim.delta
               /\ Cost(lots) = Cost(p.lots)
               /\ Principal(lots) = Principal(p.lots) + ReservedOf(claim)
               /\ \A l \in lots : \A i \in 2..Len(l.id) : l.id[i] \in Settled(p) \cup {a.name}
               /\ \A d \in Nat : Releases(a, claim, Quantity(Eligible(p.lots, d)),
                                         Quantity(Eligible(lots, d)), d)
<1> DEFINE lots == LotsAfterSettlement(p, a, claim)
<1>1. OpenLots(p.lots) /\ Traced(p, p.lots) /\ a \in ActionSet(Nat, Nat)
  BY DEF AccountOK, Calendar
<1>2. a.name \notin Settled(p)  BY DEF Settled
<1>3. Quantity(p.lots) \in Nat /\ Principal(p.lots) \in Nat  BY <1>1, AmountsNat
<1>4. ~ GivesShares(a, claim) => claim.reserved = <<>> /\ ReservedOf(claim) = 0
  BY EmptySum DEF Terms, ReservedOf
<1>5. CASE GivesShares(a, claim)
  <2>1. DistributionFits(claim)  BY <1>5 DEF SettlementFits
  <2> DEFINE given == lots \ p.lots
             k == claim.delta
  <2>2. p.lots \subseteq lots  BY <1>5 DEF LotsAfterSettlement
  <2> HIDE DEF lots
  <2>3. /\ OpenLots(lots)
        /\ Quantity(lots) = Quantity(p.lots) + claim.delta
        /\ Cost(lots) = Cost(p.lots)
        /\ Principal(lots) = Principal(p.lots) + ReservedOf(claim)
        /\ \A l \in lots : \A i \in 2..Len(l.id) : l.id[i] \in Settled(p) \cup {a.name}
        /\ \A l \in given : l.sellable >= a.sellable
    BY <1>1, <1>2, <1>5, <2>1, GivenLots DEF lots
  <2>4. /\ OpenLots(given) /\ p.lots \cap given = {} /\ p.lots \cup given = lots
        /\ Quantity(lots) = Quantity(p.lots) + Quantity(given)
    BY <2>2, <2>3, OpenPart, AmountsParted
  <2>5. k \in Int /\ Quantity(given) = k
    <3>1. k \in Int  BY DEF Terms
    <3>2. Quantity(given) \in Nat  BY <2>4, AmountsNat
    <3> HIDE DEF given
    <3> QED  BY <1>3, <2>3, <2>4, <3>1, <3>2
  <2>6. a.sellable \in Nat  BY <1>1 DEF ActionSet
  <2>7. ASSUME NEW d \in Nat
        PROVE  Releases(a, claim, Quantity(Eligible(p.lots, d)), Quantity(Eligible(lots, d)), d)
    <3> DEFINE was == Quantity(Eligible(p.lots, d))
               more == Quantity(Eligible(given, d))
    <3>1. Quantity(Eligible(lots, d)) = was + more
      <4> HIDE DEF given
      <4>1. Quantity(Eligible(p.lots \cup given, d)) = was + more  BY <1>1, <2>4, EligibleUnion
      <4> QED  BY <2>4, <4>1, Zenon
    <3>2. was \in Nat /\ more \in Nat /\ more <= k  BY <1>1, <2>4, <2>5, EligiblePart
    <3>3. d < a.sellable => more = 0
      <4> SUFFICES ASSUME d < a.sellable PROVE more = 0  OBVIOUS
      <4>1. ASSUME NEW l \in given PROVE ~ (l.sellable <= d)
        <5>1. l.sellable \in Nat /\ l.sellable >= a.sellable
          BY <2>3, <2>4 DEF OpenLots, LotRecords
        <5> QED  BY <2>6, <5>1
      <4>2. Eligible(given, d) = {}  BY <4>1 DEF Eligible
      <4> QED  BY <4>2, NoneHeld
    <3> HIDE DEF was, more
    <3>4. was + more \in was..(was + (IF a.sellable <= d THEN k ELSE 0))
      BY <2>5, <2>6, <3>2, <3>3
    <3>5. d < a.sellable => was + more <= was  BY <3>2, <3>3
    <3> QED  BY <3>1, <3>4, <3>5 DEF Releases, was, k
  <2> QED  BY <2>3, <2>7 DEF lots
<1>6. CASE a.kind \in {"split", "reverse"}
  <2>1. ~ GivesShares(a, claim)  BY <1>6 DEF GivesShares
  <2>2. SplitFits(p, claim)  BY <1>6 DEF SettlementFits
  <2> HIDE DEF lots
  <2>4. /\ OpenLots(lots)
        /\ Quantity(lots) = Quantity(p.lots) + claim.delta
        /\ Cost(lots) = Cost(p.lots)
        /\ Principal(lots) = Principal(p.lots)
        /\ \A l \in lots : \E k \in p.lots : l.id = k.id
        /\ \A l \in lots : l.sellable >= a.sellable
    BY <1>1, <1>6, <2>2, ScaledLots DEF lots
  <2>5. \A l \in lots : \A i \in 2..Len(l.id) : l.id[i] \in Settled(p) \cup {a.name}
    BY <1>1, <2>4 DEF Traced
  <2>6. Principal(lots) = Principal(p.lots) + ReservedOf(claim)  BY <1>3, <1>4, <2>1, <2>4
  <2>7. ASSUME NEW d \in Nat
        PROVE  Releases(a, claim, Quantity(Eligible(p.lots, d)), Quantity(Eligible(lots, d)), d)
    <3>1. a.kind # "distribution"  BY <1>6
    <3>2. d < a.sellable => Quantity(Eligible(lots, d)) = 0
      <4> SUFFICES ASSUME d < a.sellable PROVE Quantity(Eligible(lots, d)) = 0  OBVIOUS
      <4>1. ASSUME NEW l \in lots PROVE ~ (l.sellable <= d)
        <5>1. l.sellable \in Nat /\ l.sellable >= a.sellable
          BY <2>4 DEF OpenLots, LotRecords
        <5>2. a.sellable \in Nat  BY <1>1 DEF ActionSet
        <5> QED  BY <5>1, <5>2
      <4>2. Eligible(lots, d) = {}  BY <4>1 DEF Eligible
      <4> QED  BY <4>2, NoneHeld
    <3>3. Quantity(Eligible(p.lots, d)) \in Nat  BY <1>1, EligiblePart
    <3> QED  BY <3>1, <3>2, <3>3 DEF Releases
  <2> QED  BY <2>4, <2>5, <2>6, <2>7 DEF lots
<1>7. CASE ~ GivesShares(a, claim) /\ a.kind \notin {"split", "reverse"}
  <2>1. lots = p.lots  BY <1>7 DEF LotsAfterSettlement
  <2>2. claim.delta = 0
    <3>1. CASE a.kind \in ShareKinds
      <4>1. a.kind = "distribution"  BY <1>7, <3>1 DEF ShareKinds
      <4>2. ~ (claim.delta > 0)  BY <1>7, <4>1 DEF GivesShares
      <4>3. claim.delta \in Nat  BY <4>1, DistributionGives
      <4> QED  BY <4>2, <4>3
    <3>2. CASE a.kind \notin ShareKinds  BY <3>2 DEF Terms
    <3> QED  BY <3>1, <3>2
  <2>3. ReservedOf(claim) = 0  BY <1>4, <1>7
  <2>4. \A l \in lots : \A i \in 2..Len(l.id) : l.id[i] \in Settled(p)
    BY <1>1, <2>1 DEF Traced
  <2>5. ASSUME NEW d \in Nat
        PROVE  Releases(a, claim, Quantity(Eligible(p.lots, d)), Quantity(Eligible(p.lots, d)), d)
    <3>1. Quantity(Eligible(p.lots, d)) \in Nat  BY <1>1, EligiblePart
    <3> HIDE DEF lots
    <3> QED  BY <2>2, <3>1 DEF Releases
  <2> HIDE DEF lots
  <2> QED  BY <1>1, <1>3, <2>1, <2>2, <2>3, <2>4, <2>5 DEF lots
<1> QED  BY <1>5, <1>6, <1>7

(* settle_corporate_action gives exactly the shares and the cash of the    *)
(* claim.                                                                  *)
LEMMA SettleOK ==
    ASSUME NEW actions, Calendar(actions), NEW p, AccountOK(p, actions), NEW a \in actions,
           NEW day, NEW q, q = Settle(p, a, day), q.ok,
           p.claims[a.name].status = "accrued"
    PROVE  LET old == p.claims[a.name]
               claim == [old EXCEPT !.status = "settled"]
           IN  /\ a.kind # "rights"
               /\ Moves(p, q, a, claim, "settlement") /\ Terms(a, claim) /\ Traced(p, claim.lots)
               /\ AccountOK(q, actions) /\ Balanced(p, q)
               /\ claim.status = "settled"
               /\ claim.qty = old.qty /\ claim.cash = old.cash /\ claim.delta = old.delta
               /\ \A d \in Nat : Releases(a, old, Free(p, d), Free(q, d), d)
               /\ a.kind = "dividend" => q.lots = p.lots
<1> DEFINE old == p.claims[a.name]
           claim == [old EXCEPT !.status = "settled"]
           lots == LotsAfterSettlement(p, a, old)
           next == [p EXCEPT !.claims[a.name].status = "settled", !.cash = @ + old.cash,
                             !.lots = lots, !.books = SettlementEntry(@, old.cash)]
<1>1. Shape(p, actions) /\ OpenLots(p.lots) /\ Traced(p, p.lots) /\ BooksOK(p) /\ ClaimOK(p, a)
  BY DEF AccountOK
<1>2. p.ok = TRUE /\ p.cash \in Nat /\ p.lots \subseteq LotRecords
      /\ p.fills \subseteq Nat /\ p.books \in BookRecords
      /\ DOMAIN p = {"ok", "cash", "lots", "fills", "books", "claims", "phases"}
      /\ ~ Raise(p).ok
  BY <1>1, FieldsOf
<1>3. ~ Done(p, a, "settlement")  BY <1>1 DEF ClaimOK
<1>4. /\ a.kind # "rights" /\ Terms(a, old) /\ Traced(p, old.lots)
  <2>1. old # NoClaim  BY DEF NoClaim, Claim
  <2> QED  BY <1>1, <2>1 DEF ClaimOK
<1>5. /\ q = Booked(next, a, "settlement")
      /\ SettlementFits(p, a, old)
  <2> HIDE DEF next, claim, lots
  <2>1. q # Raise(p)  BY <1>2
  <2> QED  BY <1>3, <2>1 DEF Settle, next, claim, lots
<1>6. /\ OpenLots(lots)
      /\ Quantity(lots) = Quantity(p.lots) + old.delta /\ Cost(lots) = Cost(p.lots)
      /\ Principal(lots) = Principal(p.lots) + ReservedOf(old)
      /\ \A l \in lots : \A i \in 2..Len(l.id) : l.id[i] \in Settled(p) \cup {a.name}
      /\ \A d \in Nat : Releases(a, old, Quantity(Eligible(p.lots, d)),
                                Quantity(Eligible(lots, d)), d)
  <2>1. old = p.claims[a.name] /\ old.status = "accrued"  OBVIOUS
  <2> HIDE DEF old
  <2> QED  BY <1>4, <1>5, <2>1, SettledLots
<1>7. /\ claim.status = "settled" /\ claim.qty = old.qty /\ claim.cash = old.cash
      /\ claim.delta = old.delta /\ claim.lots = old.lots /\ claim.reserved = old.reserved
      /\ claim = [status |-> "settled", qty |-> old.qty, cash |-> old.cash, delta |-> old.delta,
                  lots |-> old.lots, reserved |-> old.reserved]
  <2>1. old \in [status : {"captured", "accrued", "settled"}, qty : Nat, cash : Nat, delta : Int,
                 lots : SUBSET LotRecords, reserved : {old.reserved}]
    BY <1>4 DEF Terms
  <2> HIDE DEF old
  <2> QED  BY <2>1
<1>8. Terms(a, claim)
  <2>1. old.status = "accrued"  OBVIOUS
  <2>2. old.qty \in Nat /\ old.cash \in Nat /\ old.delta \in Int /\ old.lots \in SUBSET LotRecords
    BY <1>4 DEF Terms
  <2> HIDE DEF claim, old
  <2>3. claim \in [status : {"captured", "accrued", "settled"}, qty : Nat, cash : Nat, delta : Int,
                   lots : SUBSET LotRecords, reserved : {claim.reserved}]
    BY <1>7, <2>2
  <2>4. Entitled(claim) = Entitled(old) /\ (GivesShares(a, claim) <=> GivesShares(a, old))
    BY <1>7 DEF Entitled, GivesShares
  <2> QED  BY <1>4, <1>7, <2>1, <2>3, <2>4 DEF Terms
<1>9. /\ q.ok = p.ok /\ q.cash = p.cash + old.cash /\ q.lots = lots /\ q.fills = p.fills
      /\ q.books.cash = p.books.cash + old.cash /\ q.books.position = p.books.position
      /\ q.books.expenses = p.books.expenses /\ q.books.pnl = p.books.pnl
      /\ q.books.receivable = p.books.receivable - old.cash
      /\ q.books.income = p.books.income
      /\ q.books \in BookRecords
      /\ q.claims = [p.claims EXCEPT ![a.name] = claim]
      /\ q.phases = p.phases \cup {<<a.name, "settlement">>}
      /\ q = [ok |-> q.ok, cash |-> q.cash, lots |-> q.lots, fills |-> q.fills,
              books |-> q.books, claims |-> q.claims, phases |-> q.phases]
  <2> DEFINE x == old.cash
             e == p.books
             b == SettlementEntry(e, x)
  <2>1. /\ b.cash = e.cash + x /\ b.position = e.position
        /\ b.expenses = e.expenses /\ b.pnl = e.pnl
        /\ b.receivable = e.receivable - x /\ b.income = e.income
        /\ b \in BookRecords
    <3>1. x \in Int /\ e \in BookRecords  BY <1>2, <1>4 DEF Terms
    <3>2. b = SettlementEntry(e, x)  OBVIOUS
    <3> HIDE DEF x, e, b
    <3> QED  BY <3>1, <3>2, SettlementPosts
  <2>2. /\ next.books = b /\ next.claims = [p.claims EXCEPT ![a.name] = claim] /\ next.lots = lots
        /\ next.ok = p.ok /\ next.cash = p.cash + old.cash /\ next.fills = p.fills
        /\ next.phases = p.phases /\ DOMAIN next = DOMAIN p
        /\ next = [n \in DOMAIN p |-> next[n]]
    <3> HIDE DEF lots
    <3> QED  BY <1>2
  <2> HIDE DEF b, next, old, claim, lots
  <2>3. /\ q.ok = p.ok /\ q.cash = p.cash + old.cash /\ q.lots = lots /\ q.fills = p.fills
        /\ q.books = b
        /\ q.claims = [p.claims EXCEPT ![a.name] = claim]
        /\ q.phases = p.phases \cup {<<a.name, "settlement">>}
        /\ q = [ok |-> q.ok, cash |-> q.cash, lots |-> q.lots, fills |-> q.fills,
                books |-> q.books, claims |-> q.claims, phases |-> q.phases]
    BY <1>2, <1>5, <2>2, ZenonT(60) DEF Booked
  <2> QED  BY <2>1, <2>3
<1>10. Moves(p, q, a, claim, "settlement")  BY <1>7, <1>9 DEF Moves
<1>11. Traced(p, claim.lots)  BY <1>4, <1>7
<1>12. /\ old.cash \in Nat /\ old.delta \in Int /\ ReservedOf(old) \in Nat
  BY <1>4, ReservedNat DEF Terms
<1>13. Follows(p, q, old, claim)
  <2>1. /\ GivenFor(claim) = old.delta /\ GivenFor(old) = 0
        /\ PaidFor(claim) = old.cash /\ PaidFor(old) = 0
        /\ Owed(claim) = 0 /\ Owed(old) = old.cash
        /\ Kept(claim) = 0 /\ Kept(old) = ReservedOf(old)
    BY <1>7 DEF GivenFor, PaidFor, Owed, Kept
  <2>2. Traced(q, q.lots)
    <3>1. Settled(p) \subseteq Settled(q) /\ a.name \in Settled(q)
      <4>1. a.kind # "rights" /\ Calendar(actions) /\ AccountOK(p, actions) /\ a \in actions  BY <1>4
      <4> DEFINE phase == "settlement"
      <4>2. Moves(p, q, a, claim, phase) /\ phase = "settlement"  BY <1>10
      <4> HIDE DEF claim, old, lots, phase
      <4>3. Settled(p) \subseteq Settled(q) /\ (phase = "settlement" => a.name \in Settled(q))
        BY ONLY <4>1, <4>2, <1>8, <1>11, ClaimsMove
      <4> QED  BY <4>2, <4>3
    <3> HIDE DEF lots
    <3> QED  BY <1>6, <1>9, <3>1 DEF Traced
  <2>3. /\ p.books.cash \in Int /\ p.books.position \in Int /\ p.books.expenses \in Int
        /\ p.books.pnl \in Int /\ p.books.receivable \in Int /\ p.books.income \in Int
        /\ Principal(p.lots) \in Nat /\ Quantity(p.lots) \in Nat
    BY <1>1, <1>2, AmountsNat DEF BookRecords
  <2> HIDE DEF claim, old, lots
  <2>5. /\ q.ok = TRUE /\ q.cash \in Nat /\ q.lots \in SUBSET LotRecords
        /\ q.fills \in SUBSET Nat
    BY <1>2, <1>6, <1>9, <1>12 DEF OpenLots
  <2>6. q \in [ok : {TRUE}, cash : Nat, lots : SUBSET LotRecords, fills : SUBSET Nat,
               books : BookRecords, claims : {q.claims}, phases : {q.phases}]
    <3>1. q = [ok |-> q.ok, cash |-> q.cash, lots |-> q.lots, fills |-> q.fills,
               books |-> q.books, claims |-> q.claims, phases |-> q.phases]
          /\ q.books \in BookRecords
      BY <1>9
    <3> QED  BY <2>5, <3>1
  <2>7. OpenLots(q.lots)  BY <1>6, <1>9
  <2>8. /\ Quantity(q.lots) = Quantity(p.lots) + GivenFor(claim) - GivenFor(old)
        /\ Principal(q.lots) + Kept(claim) = Principal(p.lots) + Kept(old)
        /\ q.cash = p.cash + PaidFor(claim) - PaidFor(old)
        /\ q.books.cash = p.books.cash + PaidFor(claim) - PaidFor(old)
        /\ q.books.receivable = p.books.receivable + Owed(claim) - Owed(old)
    <3>1. /\ Quantity(q.lots) = Quantity(p.lots) + GivenFor(claim) - GivenFor(old)
          /\ Principal(q.lots) + Kept(claim) = Principal(p.lots) + Kept(old)
      BY <1>6, <1>9, <1>12, <2>1, <2>3
    <3>2. q.cash = p.cash + PaidFor(claim) - PaidFor(old)
      BY <1>2, <1>9, <1>12, <2>1
    <3>3. q.books.cash = p.books.cash + PaidFor(claim) - PaidFor(old)
      BY <1>9, <1>12, <2>1, <2>3
    <3>4. q.books.receivable = p.books.receivable + Owed(claim) - Owed(old)
      BY <1>9, <1>12, <2>1, <2>3
    <3> QED  BY <3>1, <3>2, <3>3, <3>4
  <2>9. q.books.position = Cost(q.lots)  BY <1>1, <1>6, <1>9 DEF BooksOK
  <2>10. q.books.cash + q.books.position + q.books.expenses + q.books.pnl
           + q.books.receivable + q.books.income = 0
    BY <1>1, <1>9, <1>12, <2>3 DEF BooksOK
  <2> QED  BY <2>2, <2>6, <2>7, <2>8, <2>9, <2>10 DEF Follows
<1>14. AccountOK(q, actions) /\ Balanced(p, q)
  BY <1>4, <1>8, <1>10, <1>11, <1>13, PhaseOK
<1>15. \A d \in Nat : Releases(a, old, Free(p, d), Free(q, d), d)
  <2> HIDE DEF lots, old
  <2> QED  BY <1>6, <1>9 DEF Free
<1>16. a.kind = "dividend" => q.lots = p.lots
  <2>1. a.kind = "dividend" => lots = p.lots  BY DEF LotsAfterSettlement, GivesShares
  <2> HIDE DEF lots
  <2> QED  BY <1>9, <2>1
<1> QED  BY <1>4, <1>7, <1>8, <1>10, <1>11, <1>14, <1>15, <1>16

(* decline_rights_issue moves nothing. *)
LEMMA DeclineOK ==
    ASSUME NEW actions, Calendar(actions), NEW p, AccountOK(p, actions), NEW a \in actions,
           NEW day, NEW q, q = Decline(p, a, day), q.ok
    PROVE  /\ AccountOK(q, actions) /\ Balanced(p, q)
           /\ q.claims = p.claims /\ q.lots = p.lots /\ p.phases \subseteq q.phases
           /\ Done(q, a, "declined")
<1>1. Shape(p, actions) /\ OpenLots(p.lots) /\ Traced(p, p.lots) /\ BooksOK(p)
  BY DEF AccountOK
<1>2. p.ok = TRUE /\ p.cash \in Nat /\ p.lots \subseteq LotRecords
      /\ p.fills \subseteq Nat /\ p.books \in BookRecords
      /\ DOMAIN p = {"ok", "cash", "lots", "fills", "books", "claims", "phases"}
      /\ ~ Raise(p).ok
  BY <1>1, FieldsOf
<1>3. q = Booked(p, a, "declined") \/ (q = p /\ Done(p, a, "declined"))
  <2>1. q # Raise(p)  BY <1>2
  <2> QED  BY <2>1 DEF Decline
<1>4. /\ q.ok = p.ok /\ q.cash = p.cash /\ q.lots = p.lots /\ q.fills = p.fills
      /\ q.books = p.books /\ q.claims = p.claims
      /\ q.phases = p.phases \cup {<<a.name, "declined">>}
      /\ q = [ok |-> q.ok, cash |-> q.cash, lots |-> q.lots, fills |-> q.fills,
              books |-> q.books, claims |-> q.claims, phases |-> q.phases]
  <2>1. CASE q = Booked(p, a, "declined")  BY <1>2, <2>1 DEF Booked
  <2>2. CASE q = p /\ Done(p, a, "declined")
    <3>1. p.phases = p.phases \cup {<<a.name, "declined">>}  BY <2>2 DEF Done
    <3>2. p = [ok |-> p.ok, cash |-> p.cash, lots |-> p.lots, fills |-> p.fills,
               books |-> p.books, claims |-> p.claims, phases |-> p.phases]
      BY <1>1 DEF Shape
    <3> QED  BY <2>2, <3>1, <3>2
  <2> QED  BY <1>3, <2>1, <2>2
<1>5. \A b \in actions, ph \in {"entitlement", "accrual", "settlement"} :
          Done(q, b, ph) <=> Done(p, b, ph)
  BY <1>4 DEF Done
<1>6. Settled(q) = Settled(p) /\ Accrued(q) = Accrued(p)  BY <1>4 DEF Settled, Accrued
<1>7. \A lots : Traced(q, lots) <=> Traced(p, lots)  BY <1>6 DEF Traced
<1>8. ASSUME NEW b \in actions PROVE ClaimOK(q, b)
  <2>1. ClaimOK(p, b)  BY DEF AccountOK
  <2> QED  BY <1>4, <1>5, <1>7, <2>1 DEF ClaimOK
<1>9. /\ Receivable(q) = Receivable(p) /\ PrincipalKept(q) = PrincipalKept(p)
      /\ Paid(q) = Paid(p) /\ Granted(q) = Granted(p)
  BY <1>4, <1>6 DEF Receivable, PrincipalKept, Paid, Granted
<1>10. Balanced(p, q)  BY <1>4, <1>9 DEF Balanced, PrincipalInAll
<1>11. BooksOK(q)  BY <1>1, <1>4, <1>9 DEF BooksOK
<1>12. Shape(q, actions)
  <2>1. q.claims = [n \in NamesOf(actions) |-> q.claims[n]]  BY <1>1, <1>4 DEF Shape
  <2>2. /\ q.ok = TRUE /\ q.cash \in Nat /\ q.lots \in SUBSET LotRecords
        /\ q.fills \in SUBSET Nat /\ q.books \in BookRecords
    BY <1>2, <1>4
  <2> QED  BY <1>4, <2>1, <2>2 DEF Shape
<1>13. AccountOK(q, actions)  BY <1>1, <1>4, <1>7, <1>8, <1>11, <1>12 DEF AccountOK
<1> QED  BY <1>4, <1>10, <1>13 DEF Done

-----------------------------------------------------------------------------
(* The turn of an action in a loop. *)

Loops == {"accrue", "credit", "register", "pay"}

StatusAfter(p, a, day, loop) ==
    LET status == p.claims[a.name].status
    IN  IF loop = "accrue" /\ status = "captured" /\ a.ex = day THEN "accrued"
        ELSE IF /\ loop = (IF a.kind = "dividend" THEN "pay" ELSE "credit")
                /\ status = "accrued" /\ a.settle <= day THEN "settled"
        ELSE IF loop = "register" /\ status = "none" /\ a.kind # "rights" /\ a.record = day
             THEN "captured"
        ELSE status

(* The claim of a after a loop: only its status moves, once it is there.    *)
Passed(p, q, a, day, loop) ==
    LET old == p.claims[a.name]
        new == q.claims[a.name]
    IN  /\ new.status = StatusAfter(p, a, day, loop)
        /\ old.status # "none" =>
              new.qty = old.qty /\ new.cash = old.cash /\ new.delta = old.delta
        /\ new.status = "none" => new = old
        /\ old.status = "none" /\ new.status # "none" => new.qty = Quantity(p.lots)
        /\ loop = "register" /\ a.kind = "rights" /\ a.record = day => Done(q, a, "declined")

Grown(p, q, loop) ==
    /\ p.phases \subseteq q.phases
    /\ loop = "register" => q.lots = p.lots

(* The actions of s whose shares a loop credits. *)
Credits(p, s, day, loop) ==
    {a \in s : /\ loop = "credit" /\ a.kind # "dividend"
               /\ p.claims[a.name].status = "accrued" /\ a.settle <= day}

TurnFrees(p, q, a, day, loop) ==
    \A d \in Nat : IF a \in Credits(p, {a}, day, loop)
                   THEN Releases(a, p.claims[a.name], Free(p, d), Free(q, d), d)
                   ELSE Free(q, d) = Free(p, d)

(* The turn of an action in a loop: it fails, or its claim is where the    *)
(* loop brings it and the account is lawful.                               *)
LEMMA TurnOK ==
    ASSUME NEW actions, Calendar(actions), NEW p, AccountOK(p, actions), NEW a \in actions,
           NEW day, NEW loop \in Loops, NEW q, q = Turn(p, a, day, loop), q.ok
    PROVE  /\ AccountOK(q, actions) /\ Balanced(p, q) /\ Grown(p, q, loop)
           /\ \A b \in actions \ {a} : q.claims[b.name] = p.claims[b.name]
           /\ Passed(p, q, a, day, loop)
           /\ TurnFrees(p, q, a, day, loop)
<1> DEFINE old == p.claims[a.name]
<1>1. ClaimOK(p, a)  BY DEF AccountOK
<1>2. /\ Done(p, a, "entitlement") <=> old.status # "none"
      /\ Done(p, a, "accrual") <=> old.status \in {"accrued", "settled"}
      /\ Done(p, a, "settlement") <=> old.status = "settled"
      /\ old.status \in {"none", "captured", "accrued", "settled"}
      /\ a.kind = "rights" => old.status = "none"
  BY <1>1 DEF ClaimOK, NoClaim, Claim, Terms
<1> DEFINE accrues == loop = "accrue" /\ AccruesOn(p, a, day)
           settles == /\ loop = (IF a.kind = "dividend" THEN "pay" ELSE "credit")
                      /\ SettlesBy(p, a, day)
           declines == loop = "register" /\ a.record = day /\ a.kind = "rights"
           captures == /\ loop = "register" /\ a.record = day /\ a.kind # "rights"
                       /\ old.status = "none"
<1>3. CASE accrues
  <2>1. old.status = "captured" /\ a.ex = day /\ loop = "accrue"  BY <1>2, <1>3 DEF AccruesOn
  <2>2. q = Accrue(p, a, day)  BY <1>3 DEF Turn
  <2> DEFINE claim == AccruedClaim(p, a, old)
  <2>3. /\ a.kind # "rights"
        /\ Moves(p, q, a, claim, "accrual") /\ Terms(a, claim) /\ Traced(p, claim.lots)
        /\ AccountOK(q, actions) /\ Balanced(p, q)
        /\ claim.status = "accrued"
        /\ claim.qty = old.qty /\ claim.cash = old.cash /\ claim.delta = old.delta
        /\ \A d : Free(q, d) = Free(p, d)
    BY <2>1, <2>2, AccrueOK
  <2> HIDE DEF claim, accrues, settles, declines, captures
  <2>4. q.claims[a.name] = claim /\ \A b \in actions \ {a} : q.claims[b.name] = p.claims[b.name]
    BY <2>3, OthersStay DEF Moves
  <2>5. Grown(p, q, loop)  BY <2>1, <2>3 DEF Grown, Moves
  <2>6. Passed(p, q, a, day, loop)  BY <2>1, <2>3, <2>4 DEF Passed, StatusAfter
  <2>7. TurnFrees(p, q, a, day, loop)  BY <2>1, <2>3 DEF TurnFrees, Credits
  <2> QED  BY <2>3, <2>4, <2>5, <2>6, <2>7
<1>4. CASE settles
  <2>1. old.status = "accrued" /\ a.settle <= day
        /\ loop = (IF a.kind = "dividend" THEN "pay" ELSE "credit")
    BY <1>4 DEF SettlesBy
  <2>2. q = Settle(p, a, day)  BY <1>4 DEF Turn
  <2> DEFINE claim == [old EXCEPT !.status = "settled"]
  <2>3. /\ a.kind # "rights"
        /\ Moves(p, q, a, claim, "settlement") /\ Terms(a, claim) /\ Traced(p, claim.lots)
        /\ AccountOK(q, actions) /\ Balanced(p, q)
        /\ claim.status = "settled"
        /\ claim.qty = old.qty /\ claim.cash = old.cash /\ claim.delta = old.delta
        /\ \A d \in Nat : Releases(a, old, Free(p, d), Free(q, d), d)
        /\ a.kind = "dividend" => q.lots = p.lots
    BY <2>1, <2>2, SettleOK
  <2> HIDE DEF claim, accrues, settles, declines, captures
  <2>4. q.claims[a.name] = claim /\ \A b \in actions \ {a} : q.claims[b.name] = p.claims[b.name]
    BY <2>3, OthersStay DEF Moves
  <2>5. Grown(p, q, loop)  BY <2>1, <2>3 DEF Grown, Moves
  <2>6. Passed(p, q, a, day, loop)  BY <2>1, <2>3, <2>4 DEF Passed, StatusAfter
  <2>7. TurnFrees(p, q, a, day, loop)
    <3>1. CASE a.kind = "dividend"
      BY <2>3, <3>1 DEF TurnFrees, Credits, Free
    <3>2. CASE a.kind # "dividend"
      <4>1. a \in Credits(p, {a}, day, loop)  BY <2>1, <3>2 DEF Credits
      <4> QED  BY <2>3, <4>1 DEF TurnFrees
    <3> QED  BY <3>1, <3>2
  <2> QED  BY <2>3, <2>4, <2>5, <2>6, <2>7
<1>5. CASE declines
  <2>1. q = Decline(p, a, day)  BY <1>5 DEF Turn, Registered
  <2>2. /\ AccountOK(q, actions) /\ Balanced(p, q)
        /\ q.claims = p.claims /\ q.lots = p.lots /\ p.phases \subseteq q.phases
        /\ Done(q, a, "declined")
    BY <2>1, DeclineOK
  <2>3. TurnFrees(p, q, a, day, loop)  BY <1>5, <2>2 DEF TurnFrees, Credits, Free
  <2> QED  BY <1>2, <1>5, <2>2, <2>3 DEF Grown, Passed, StatusAfter
<1>6. CASE captures
  <2>1. q = Capture(p, a, day)  BY <1>6 DEF Turn, Registered
  <2> DEFINE claim == CapturedClaim(p, a)
  <2>2. old.status = "none" /\ a.kind # "rights" /\ a.record = day /\ loop = "register"  BY <1>6
  <2>3. /\ Moves(p, q, a, claim, "entitlement") /\ Terms(a, claim) /\ Traced(p, claim.lots)
        /\ AccountOK(q, actions) /\ Balanced(p, q)
        /\ claim.status = "captured" /\ claim.qty = Quantity(p.lots)
        /\ q.lots = p.lots
    BY <2>1, <2>2, CaptureOK
  <2> HIDE DEF claim, accrues, settles, declines, captures
  <2>4. q.claims[a.name] = claim /\ \A b \in actions \ {a} : q.claims[b.name] = p.claims[b.name]
    BY <2>3, OthersStay DEF Moves
  <2>5. Grown(p, q, loop)  BY <2>3 DEF Grown, Moves
  <2>6. Passed(p, q, a, day, loop)  BY <2>2, <2>3, <2>4 DEF Passed, StatusAfter
  <2>7. TurnFrees(p, q, a, day, loop)  BY <2>2, <2>3 DEF TurnFrees, Credits, Free
  <2> QED  BY <2>3, <2>4, <2>5, <2>6, <2>7
<1>7. CASE ~ accrues /\ ~ settles /\ ~ declines /\ ~ captures
  <2>1. q = p
    <3>1. CASE loop = "register" /\ a.record = day
      <4>1. a.kind # "rights" /\ Done(p, a, "entitlement")  BY <1>2, <1>7, <3>1
      <4>2. q = Capture(p, a, day)  BY <3>1, <4>1 DEF Turn, Registered
      <4> QED  BY <3>1, <4>1, <4>2 DEF Capture
    <3>2. CASE ~ (loop = "register" /\ a.record = day)
      <4>1. /\ ~ (loop = "accrue" /\ AccruesOn(p, a, day))
            /\ ~ (loop = "credit" /\ a.kind # "dividend" /\ SettlesBy(p, a, day))
            /\ ~ (loop = "pay" /\ a.kind = "dividend" /\ SettlesBy(p, a, day))
        BY <1>7
      <4> QED  BY <3>2, <4>1 DEF Turn
    <3> QED  BY <3>1, <3>2
  <2>2. StatusAfter(p, a, day, loop) = old.status
    BY <1>2, <1>7 DEF StatusAfter, AccruesOn, SettlesBy
  <2>3. Passed(p, q, a, day, loop)  BY <1>7, <2>1, <2>2 DEF Passed
  <2>4. a \notin Credits(p, {a}, day, loop)  BY <1>2, <1>7 DEF Credits, SettlesBy
  <2>5. TurnFrees(p, q, a, day, loop)  BY <2>1, <2>4 DEF TurnFrees
  <2> QED  BY <2>1, <2>3, <2>5 DEF Balanced, Grown
<1> QED  BY <1>3, <1>4, <1>5, <1>6, <1>7

(* Shares given by the claims of some actions. *)
Given(p, some) == SumFunction([a \in some |-> p.claims[a.name].delta])

(* What crediting some actions does to the shares that can be sold on d. *)
Frees(p, q, some, d) ==
    /\ (\A a \in some : a.kind = "distribution") =>
          Free(q, d) \in Free(p, d)..(Free(p, d) + Given(p, {a \in some : a.sellable <= d}))
    /\ (\A a \in some : d < a.sellable) => Free(q, d) <= Free(p, d)

LEMMA GivenAdd ==
    ASSUME NEW actions, Calendar(actions), NEW p, AccountOK(p, actions)
    PROVE  /\ Given(p, {}) = 0
           /\ \A some \in SUBSET actions :
                 /\ Given(p, some) \in Int
                 /\ \A a \in actions \ some :
                       Given(p, some \cup {a}) = Given(p, some) + p.claims[a.name].delta
<1> DEFINE g == [a \in actions |-> p.claims[a.name].delta]
<1>1. IsFiniteSet(actions)  BY DEF Calendar
<1>2. \A a \in actions : g[a] \in Int
  <2>1. Whole(p.claims) /\ DOMAIN p.claims = NamesOf(actions)  BY AccountWhole
  <2> QED  BY <2>1 DEF Whole, NamesOf
<1>3. ASSUME NEW some \in SUBSET actions
      PROVE  IsFiniteSet(some) /\ Given(p, some) = SumFunctionOnSet(g, some)
  <2> DEFINE f == [a \in some |-> p.claims[a.name].delta]
  <2>1. IsFiniteSet(some)  BY <1>1, FS_Subset
  <2>2. Given(p, some) = SumFunctionOnSet(f, some)  BY DEF Given, SumFunction
  <2>3. \A a \in some : f[a] = g[a]  OBVIOUS
  <2> HIDE DEF f, g
  <2>4. SumFunctionOnSet(f, some) = SumFunctionOnSet(g, some)  BY <2>1, <2>3, SumSame
  <2> QED  BY <2>1, <2>2, <2>4
<1>4. \A a \in actions : g[a] = p.claims[a.name].delta  OBVIOUS
<1> HIDE DEF g
<1>5. Given(p, {}) = 0  BY <1>3, SumEmpty
<1>6. ASSUME NEW some \in SUBSET actions
      PROVE  /\ Given(p, some) \in Int
             /\ \A a \in actions \ some :
                   Given(p, some \cup {a}) = Given(p, some) + p.claims[a.name].delta
  <2>1. Given(p, some) \in Int  BY <1>2, <1>3, SumInt
  <2>2. ASSUME NEW a \in actions \ some
        PROVE  Given(p, some \cup {a}) = Given(p, some) + p.claims[a.name].delta
    <3>1. SumFunctionOnSet(g, some \cup {a}) = g[a] + SumFunctionOnSet(g, some)
      BY <1>2, <1>3, SumAdd
    <3>2. some \cup {a} \in SUBSET actions  OBVIOUS
    <3> QED  BY <1>2, <1>3, <1>4, <2>1, <3>1, <3>2
  <2> QED  BY <2>1, <2>2
<1> QED  BY <1>5, <1>6

(* One more action is credited. *)
LEMMA FreesMore ==
    ASSUME NEW actions, Calendar(actions), NEW p, AccountOK(p, actions),
           NEW some \in SUBSET actions, NEW a \in actions \ some,
           NEW d \in Nat, NEW r, NEW q, Free(p, d) \in Nat, Free(r, d) \in Nat, Free(q, d) \in Nat,
           Frees(p, r, some, d), Releases(a, p.claims[a.name], Free(r, d), Free(q, d), d)
    PROVE  Frees(p, q, some \cup {a}, d)
<1> DEFINE more == some \cup {a}
           D == {b \in some : b.sellable <= d}
           E == {b \in more : b.sellable <= d}
           k == p.claims[a.name].delta
<1>1. Given(p, D) \in Int /\ Given(p, D \cup {a}) = Given(p, D) + k /\ k \in Int
  <2>1. Whole(p.claims) /\ a.name \in DOMAIN p.claims  BY AccountWhole DEF NamesOf
  <2>2. k \in Int  BY <2>1 DEF Whole
  <2>3. D \in SUBSET actions /\ a \in actions \ D  OBVIOUS
  <2> HIDE DEF D
  <2> QED  BY <2>2, <2>3, GivenAdd
<1>2. E = IF a.sellable <= d THEN D \cup {a} ELSE D  OBVIOUS
<1>3. Given(p, E) = Given(p, D) + (IF a.sellable <= d THEN k ELSE 0)
  <2> HIDE DEF D, E, k
  <2> QED  BY <1>1, <1>2
<1>4. ASSUME \A b \in more : b.kind = "distribution"
      PROVE  Free(q, d) \in Free(p, d)..(Free(p, d) + Given(p, E))
  <2>1. Free(r, d) \in Free(p, d)..(Free(p, d) + Given(p, D))  BY <1>4 DEF Frees
  <2>2. Free(q, d) \in Free(r, d)..(Free(r, d) + (IF a.sellable <= d THEN k ELSE 0))
    BY <1>4 DEF Releases
  <2> HIDE DEF D, E, k
  <2> QED  BY <1>1, <1>3, <2>1, <2>2
<1>5. ASSUME \A b \in more : d < b.sellable PROVE Free(q, d) <= Free(p, d)
  <2>1. Free(r, d) <= Free(p, d) /\ Free(q, d) <= Free(r, d)  BY <1>5 DEF Frees, Releases
  <2> QED  BY <2>1
<1> QED  BY <1>4, <1>5 DEF Frees

(* What a loop has done when the actions of s took their turns. *)
LoopDid(p, q, actions, s, day, loop) ==
    /\ AccountOK(q, actions) /\ Balanced(p, q) /\ Grown(p, q, loop)
    /\ \A a \in s : Passed(p, q, a, day, loop)
    /\ \A a \in actions \ s : q.claims[a.name] = p.claims[a.name]
    /\ \A d \in Nat : Frees(p, q, Credits(p, s, day, loop), d)

(* A loop that does not fail gives every action of the calendar its turn. *)
LEMMA LoopOK ==
    ASSUME NEW actions, Calendar(actions), NEW p, AccountOK(p, actions),
           NEW day, NEW loop \in Loops, ForEach(p, actions, day, loop).ok
    PROVE  LoopDid(p, ForEach(p, actions, day, loop), actions, actions, day, loop)
<1> DEFINE After1(s) == ForEach(p, s, day, loop)
           X == {s \in SUBSET actions :
                    After1(s).ok => LoopDid(p, After1(s), actions, s, day, loop)}
<1>1. {} \in X
  <2>1. After1({}) = p  BY LoopStep
  <2>2. ASSUME NEW d \in Nat PROVE Frees(p, p, Credits(p, {}, day, loop), d)
    <3>1. Credits(p, {}, day, loop) = {} /\ {a \in {} : a.sellable <= d} = {}  BY DEF Credits
    <3>2. Free(p, d) \in Nat /\ Given(p, {}) = 0  BY FreeNat, GivenAdd
    <3> QED  BY <3>1, <3>2 DEF Frees
  <2>3. LoopDid(p, p, actions, {}, day, loop)  BY <2>2 DEF LoopDid, Balanced, Grown
  <2> QED  BY <2>1, <2>3
<1>2. ASSUME NEW s \in SUBSET actions, s # {}, s \ {Last(s)} \in X PROVE s \in X
  <2> DEFINE a == Last(s)
             t == s \ {a}
             r == After1(t)
             q == After1(s)
  <2>1. a \in s /\ a \in actions  BY <1>2, LastIn
  <2>2. q = Stepped(r, a, day, loop)  BY <1>2, LoopStep
  <2>3. r.ok => LoopDid(p, r, actions, t, day, loop)  BY <1>2
  <2> HIDE DEF r, q, a
  <2> SUFFICES ASSUME q.ok PROVE LoopDid(p, q, actions, s, day, loop)
    BY DEF q
  <2>4. r.ok /\ q = Turn(r, a, day, loop)  BY <2>2 DEF Stepped
  <2>5. /\ AccountOK(r, actions) /\ Balanced(p, r) /\ Grown(p, r, loop)
        /\ \A b \in t : Passed(p, r, b, day, loop)
        /\ \A b \in actions \ t : r.claims[b.name] = p.claims[b.name]
        /\ \A d \in Nat : Frees(p, r, Credits(p, t, day, loop), d)
    BY <2>3, <2>4 DEF LoopDid
  <2>6. /\ AccountOK(q, actions) /\ Balanced(r, q) /\ Grown(r, q, loop)
        /\ \A b \in actions \ {a} : q.claims[b.name] = r.claims[b.name]
        /\ Passed(r, q, a, day, loop) /\ TurnFrees(r, q, a, day, loop)
    BY <2>1, <2>4, <2>5, TurnOK
  <2>7. Balanced(p, q)  BY <2>5, <2>6 DEF Balanced
  <2>8. Grown(p, q, loop)  BY <2>5, <2>6 DEF Grown
  <2>9. ASSUME NEW b \in t PROVE Passed(p, q, b, day, loop)
    <3>1. q.claims[b.name] = r.claims[b.name]  BY <2>6
    <3>2. Passed(p, r, b, day, loop)  BY <2>5
    <3>3. Done(r, b, "declined") => Done(q, b, "declined")  BY <2>6 DEF Done, Grown
    <3> QED  BY <3>1, <3>2, <3>3 DEF Passed
  <2>10. Passed(p, q, a, day, loop)
    <3>1. r.claims[a.name] = p.claims[a.name]  BY <2>1, <2>5
    <3>2. StatusAfter(r, a, day, loop) = StatusAfter(p, a, day, loop)  BY <3>1 DEF StatusAfter
    <3>3. p.claims[a.name].status = "none" /\ StatusAfter(p, a, day, loop) # "none"
          => r.lots = p.lots
      BY <2>5 DEF StatusAfter, Grown
    <3> QED  BY <2>6, <3>1, <3>2, <3>3 DEF Passed
  <2>11. \A b \in actions \ s : q.claims[b.name] = p.claims[b.name]  BY <2>1, <2>5, <2>6
  <2>12. \A b \in s : Passed(p, q, b, day, loop)  BY <2>9, <2>10
  <2>13. ASSUME NEW d \in Nat PROVE Frees(p, q, Credits(p, s, day, loop), d)
    <3> DEFINE some == Credits(p, t, day, loop)
    <3>1. r.claims[a.name] = p.claims[a.name]  BY <2>1, <2>5
    <3>2. Free(p, d) \in Nat /\ Free(r, d) \in Nat /\ Free(q, d) \in Nat
      BY <2>5, <2>6, FreeNat
    <3>3. a \in Credits(r, {a}, day, loop) <=> a \in Credits(p, {a}, day, loop)
      BY <3>1 DEF Credits
    <3>4. some \in SUBSET actions /\ a \in actions \ some /\ Frees(p, r, some, d)
      BY <2>1, <2>5 DEF Credits
    <3>5. Credits(p, s, day, loop)
          = IF a \in Credits(p, {a}, day, loop) THEN some \cup {a} ELSE some
      BY <2>1 DEF Credits
    <3> HIDE DEF some
    <3>6. CASE a \in Credits(p, {a}, day, loop)
      <4>1. Releases(a, p.claims[a.name], Free(r, d), Free(q, d), d)
        BY <2>6, <3>1, <3>3, <3>6 DEF TurnFrees
      <4>2. Frees(p, q, some \cup {a}, d)  BY <3>2, <3>4, <4>1, FreesMore
      <4> QED  BY <3>5, <3>6, <4>2
    <3>7. CASE a \notin Credits(p, {a}, day, loop)
      <4>1. Free(q, d) = Free(r, d)  BY <2>6, <3>3, <3>7 DEF TurnFrees
      <4> QED  BY <3>4, <3>5, <3>7, <4>1 DEF Frees
    <3> QED  BY <3>6, <3>7
  <2> QED  BY <2>6, <2>7, <2>8, <2>11, <2>12, <2>13 DEF LoopDid
<1>3. \A s \in SUBSET actions : s # {} => \E x \in s : s \ {x} \in X => s \in X
  <2> HIDE DEF X
  <2> QED  BY <1>2, LastIn
<1>4. IsFiniteSet(actions)  BY DEF Calendar
<1>5. SUBSET actions \subseteq X
  <2> HIDE DEF X
  <2> QED  BY <1>1, <1>3, <1>4, SetInduction
<1> QED  BY <1>5

(* A loop in which no action has anything to do leaves the account alone. *)
LEMMA LoopIdle ==
    ASSUME NEW actions, Calendar(actions), NEW p, NEW day, NEW loop,
           \A a \in actions : Stepped(p, a, day, loop) = p
    PROVE  ForEach(p, actions, day, loop) = p
<1> DEFINE X == {s \in SUBSET actions : ForEach(p, s, day, loop) = p}
<1>1. {} \in X
  <2>1. ForEach(p, {}, day, loop) = p  BY LoopStep
  <2> QED  BY <2>1
<1>2. ASSUME NEW s \in SUBSET actions, s # {}, s \ {Last(s)} \in X PROVE s \in X
  <2>1. Last(s) \in actions  BY <1>2, LastIn
  <2>2. ForEach(p, s, day, loop) = Stepped(ForEach(p, s \ {Last(s)}, day, loop), Last(s), day, loop)
    BY <1>2, LoopStep
  <2>3. ForEach(p, s, day, loop) = p  BY <1>2, <2>1, <2>2
  <2> QED  BY <2>3
<1>3. \A s \in SUBSET actions : s # {} => \E x \in s : s \ {x} \in X => s \in X
  <2> HIDE DEF X
  <2> QED  BY <1>2, LastIn
<1>4. IsFiniteSet(actions)  BY DEF Calendar
<1>5. SUBSET actions \subseteq X
  <2> HIDE DEF X
  <2> QED  BY <1>1, <1>3, <1>4, SetInduction
<1> QED  BY <1>5

-----------------------------------------------------------------------------
(* Fills leave the claims alone. *)

(* A fill that keeps the lots and the books in order keeps the account     *)
(* lawful.                                                                 *)
LEMMA TradeOK ==
    ASSUME NEW actions, NEW p, AccountOK(p, actions), NEW q,
           q \in [ok : {TRUE}, cash : Nat, lots : SUBSET LotRecords, fills : SUBSET Nat,
                  books : BookRecords, claims : {q.claims}, phases : {q.phases}],
           q.claims = p.claims, q.phases = p.phases, OpenLots(q.lots),
           \A l \in q.lots : Len(l.id) = 1 \/ \E k \in p.lots : l.id = k.id,
           q.books.position = Cost(q.lots), q.books.receivable = p.books.receivable,
           q.books.cash + q.books.position + q.books.expenses + q.books.pnl
             + q.books.receivable + q.books.income = 0
    PROVE  /\ AccountOK(q, actions)
           /\ PrincipalKept(q) = PrincipalKept(p)
           /\ Paid(q) = Paid(p) /\ Granted(q) = Granted(p)
<1>1. Settled(q) = Settled(p) /\ Accrued(q) = Accrued(p)  BY DEF Settled, Accrued
<1>2. /\ Receivable(q) = Receivable(p) /\ PrincipalKept(q) = PrincipalKept(p)
      /\ Paid(q) = Paid(p) /\ Granted(q) = Granted(p)
  BY <1>1 DEF Receivable, PrincipalKept, Paid, Granted
<1>3. \A lots : Traced(q, lots) <=> Traced(p, lots)  BY <1>1 DEF Traced
<1>4. Traced(q, q.lots)
  <2>1. ASSUME NEW l \in q.lots, NEW i \in 2..Len(l.id) PROVE l.id[i] \in Settled(q)
    <3>1. CASE Len(l.id) = 1  BY <3>1
    <3>2. CASE Len(l.id) # 1
      <4>1. PICK k \in p.lots : l.id = k.id  BY <3>2
      <4>2. k.id[i] \in Settled(p)  BY <4>1 DEF AccountOK, Traced
      <4> QED  BY <1>1, <4>1, <4>2
    <3> QED  BY <3>1, <3>2
  <2> QED  BY <2>1 DEF Traced
<1>5. ASSUME NEW b \in actions PROVE ClaimOK(q, b)
  <2>1. ClaimOK(p, b)  BY DEF AccountOK
  <2>2. \A ph : Done(q, b, ph) <=> Done(p, b, ph)  BY DEF Done
  <2> QED  BY <1>3, <2>1, <2>2 DEF ClaimOK
<1>6. BooksOK(q)  BY <1>2 DEF AccountOK, BooksOK
<1>7. Shape(q, actions)
  <2>1. q.claims = [n \in NamesOf(actions) |-> q.claims[n]]  BY DEF AccountOK, Shape
  <2> QED  BY <2>1 DEF Shape
<1> QED  BY <1>2, <1>4, <1>5, <1>6, <1>7 DEF AccountOK

(* A fill as the market reports it. *)
FillRecords == [id : Nat, day : Nat, qty : Nat \ {0}, price : Nat \ {0}, fees : Nat]

LEMMA FillAmounts ==
    ASSUME NEW fill \in FillRecords
    PROVE  /\ Gross(fill) \in Nat \ {0} /\ BuyCost(fill) \in Nat \ {0} /\ Proceeds(fill) \in Int
           /\ BuyCost(fill) = Gross(fill) + fill.fees /\ Proceeds(fill) = Gross(fill) - fill.fees
           /\ fill.fees \in Nat
<1> DEFINE c == fill.price
           n == fill.qty
           e == fill.fees
<1>1. c \in Nat /\ n \in Nat /\ e \in Nat /\ c > 0 /\ n > 0  BY DEF FillRecords
<1> HIDE DEF c, n, e
<1>2. c * n \in Nat /\ c * n > 0  BY <1>1, ProductNat
<1>3. Gross(fill) = c * n /\ BuyCost(fill) = Gross(fill) + e /\ Proceeds(fill) = Gross(fill) - e
  BY DEF Gross, BuyCost, Proceeds, c, n, e
<1> DEFINE g == c * n
<1> HIDE DEF g
<1>4. g \in Nat /\ g > 0 /\ Gross(fill) = g  BY <1>2, <1>3 DEF g
<1> QED  BY <1>1, <1>3, <1>4 DEF e

(* apply_buy adds the shares, spends their cost and leaves the other lots  *)
(* and the claims alone.                                                   *)
LEMMA BoughtOK ==
    ASSUME NEW actions, NEW p, AccountOK(p, actions), NEW fill \in FillRecords,
           NEW sellableOn \in Nat, CanBuy(p, fill, sellableOn),
           NEW q, q = Bought(p, fill, sellableOn)
    PROVE  /\ AccountOK(q, actions)
           /\ q.claims = p.claims /\ q.phases = p.phases /\ p.lots \subseteq q.lots
           /\ Quantity(q.lots) = Quantity(p.lots) + fill.qty
           /\ q.cash = p.cash - BuyCost(fill) /\ q.books.cash = p.books.cash - BuyCost(fill)
           /\ Paid(q) = Paid(p) /\ Granted(q) = Granted(p)
           /\ q.cash < p.cash
           /\ \A d \in Nat : Free(q, d) = Free(p, d) + (IF d >= sellableOn THEN fill.qty ELSE 0)
<1> DEFINE lot == Lot(<<fill.id>>, fill.day, sellableOn, fill.qty, BuyCost(fill), Gross(fill))
           lots == p.lots \cup {lot}
           c == BuyCost(fill)
           e == p.books
           b == BuyEntry(e, fill)
<1>1. Shape(p, actions) /\ OpenLots(p.lots) /\ BooksOK(p)  BY DEF AccountOK
<1>2. p.ok = TRUE /\ p.cash \in Nat /\ p.lots \subseteq LotRecords
      /\ p.fills \subseteq Nat /\ p.books \in BookRecords
      /\ DOMAIN p = {"ok", "cash", "lots", "fills", "books", "claims", "phases"}
  BY <1>1, FieldsOf
<1>3. /\ Gross(fill) \in Nat \ {0} /\ c \in Nat \ {0}
      /\ fill.id \in Nat /\ fill.day \in Nat /\ fill.qty \in Nat \ {0}
      /\ sellableOn > fill.day /\ p.cash >= c
      /\ fill.id \notin AppliedFills(p)
  BY FillAmounts DEF FillRecords, CanBuy
<1>4. /\ lot.id = <<fill.id>> /\ Len(lot.id) = 1 /\ lot.qty = fill.qty /\ lot.cost = c
      /\ lot \in LotRecords /\ lot.sellable >= lot.acquired
  <2>1. <<fill.id>> \in Seq(Nat) \ {<<>>}  BY <1>3
  <2> HIDE DEF c
  <2> QED  BY <1>3, <2>1 DEF Lot, LotRecords, c
<1>20. lot.sellable = sellableOn  BY DEF Lot
<1>5. \A l \in p.lots : l.id # lot.id
  <2> SUFFICES ASSUME NEW l \in p.lots, l.id = lot.id PROVE FALSE  OBVIOUS
  <2>1. Len(l.id) = 1 /\ l.id[1] = fill.id  BY <1>4
  <2> QED  BY <1>3, <2>1 DEF AppliedFills
<1> HIDE DEF lot, c
<1>6. /\ OpenLots({lot}) /\ {lot} \cap p.lots = {}
      /\ Quantity({lot}) = lot.qty /\ Cost({lot}) = lot.cost
  <2>1. IsFiniteSet({lot})  BY FS_Singleton
  <2> QED  BY <1>4, <1>5, <2>1, AmountsOne DEF OpenLots
<1>7. Quantity(p.lots) \in Nat /\ Cost(p.lots) \in Nat  BY <1>1, AmountsNat
<1>8. /\ Quantity(lots) = Quantity(p.lots) + fill.qty
      /\ Cost(lots) = Cost(p.lots) + c
  BY <1>1, <1>4, <1>6, <1>7, AmountsUnion
<1>9. OpenLots(lots)
  <2>1. IsFiniteSet(lots)  BY <1>1, <1>6, FS_Union DEF OpenLots
  <2> QED  BY <1>1, <1>4, <1>5, <2>1 DEF OpenLots
<1>10. /\ b.income = e.income /\ b.receivable = e.receivable
       /\ b.expenses = e.expenses /\ b.pnl = e.pnl
       /\ b.position = e.position + c /\ b.cash = e.cash - c
       /\ b \in BookRecords
  <2> DEFINE i == e.position + c
             j == e.cash - c
             d == [e EXCEPT !.position = i, !.cash = j]
  <2>1. i \in Int /\ j \in Int
    <3>1. e.position \in Int /\ e.cash \in Int  BY <1>2 DEF BookRecords
    <3> HIDE DEF e
    <3> QED  BY <1>3, <3>1
  <2>2. d = b  BY DEF BuyEntry, c
  <2>3. e \in BookRecords  BY <1>2
  <2> HIDE DEF i, j, e, b
  <2>4. /\ d.income = e.income /\ d.receivable = e.receivable
        /\ d.expenses = e.expenses /\ d.pnl = e.pnl
        /\ d.position = i /\ d.cash = j
    BY <2>3 DEF BookRecords
  <2>5. d \in BookRecords  BY <2>1, <2>3 DEF BookRecords
  <2> QED  BY <2>2, <2>4, <2>5 DEF i, j
<1>11. /\ q.ok = p.ok /\ q.cash = p.cash - c /\ q.lots = lots
       /\ q.fills = p.fills \cup {fill.id} /\ q.books = b
       /\ q.claims = p.claims /\ q.phases = p.phases
       /\ q = [ok |-> q.ok, cash |-> q.cash, lots |-> q.lots, fills |-> q.fills,
               books |-> q.books, claims |-> q.claims, phases |-> q.phases]
  <2>1. q = [p EXCEPT !.cash = @ - c, !.lots = @ \cup {lot}, !.fills = @ \cup {fill.id},
                      !.books = BuyEntry(@, fill)]
    BY DEF Bought, lot, c
  <2> QED  BY <1>2, <2>1
<1> HIDE DEF b, lots
<1>12. q \in [ok : {TRUE}, cash : Nat, lots : SUBSET LotRecords, fills : SUBSET Nat,
              books : BookRecords, claims : {q.claims}, phases : {q.phases}]
  <2>1. /\ q.ok = TRUE /\ q.cash \in Nat /\ q.lots \in SUBSET LotRecords
        /\ q.fills \in SUBSET Nat /\ q.books \in BookRecords
    BY <1>2, <1>3, <1>9, <1>10, <1>11 DEF OpenLots
  <2> QED  BY <1>11, <2>1
<1>13. \A l \in q.lots : Len(l.id) = 1 \/ \E k \in p.lots : l.id = k.id
  BY <1>4, <1>11 DEF lots
<1>14. /\ e.cash \in Int /\ e.position \in Int /\ e.expenses \in Int
       /\ e.pnl \in Int /\ e.receivable \in Int /\ e.income \in Int
       /\ e.position = Cost(p.lots)
       /\ e.cash + e.position + e.expenses + e.pnl + e.receivable + e.income = 0
  BY <1>1, <1>2 DEF BookRecords, BooksOK
<1>15. q.books.position = Cost(q.lots) /\ q.books.receivable = p.books.receivable
  BY <1>8, <1>10, <1>11, <1>14
<1>16. q.books.cash + q.books.position + q.books.expenses + q.books.pnl
         + q.books.receivable + q.books.income = 0
  <2> HIDE DEF e
  <2> QED  BY <1>3, <1>10, <1>11, <1>14
<1>17. /\ AccountOK(q, actions) /\ Paid(q) = Paid(p) /\ Granted(q) = Granted(p)
  <2>1. q.claims = p.claims /\ q.phases = p.phases /\ OpenLots(q.lots)  BY <1>9, <1>11
  <2> HIDE DEF e
  <2> QED  BY ONLY AccountOK(p, actions), <2>1, <1>12, <1>13, <1>15, <1>16, TradeOK
<1>18. q.cash < p.cash  BY <1>2, <1>3, <1>11
<1>19. ASSUME NEW d \in Nat
       PROVE  Free(q, d) = Free(p, d) + (IF d >= sellableOn THEN fill.qty ELSE 0)
  <2>1. Quantity(Eligible(p.lots \cup {lot}, d)) = Free(p, d) + Quantity(Eligible({lot}, d))
    BY <1>1, <1>6, EligibleUnion DEF Free
  <2>2. Eligible({lot}, d) = IF d >= sellableOn THEN {lot} ELSE {}
    BY <1>20 DEF Eligible
  <2>3. Quantity(Eligible({lot}, d)) = IF d >= sellableOn THEN fill.qty ELSE 0
    BY <1>4, <1>6, <2>2, NoneHeld
  <2>4. Free(q, d) = Quantity(Eligible(p.lots \cup {lot}, d))  BY <1>11 DEF Free, lots
  <2> QED  BY <2>1, <2>3, <2>4
<1> QED  BY <1>8, <1>10, <1>11, <1>17, <1>18, <1>19 DEF lots, c

(* The postings of a sale balance (_sell_entry). *)
LEMMA SellPosts ==
    ASSUME NEW b \in BookRecords, NEW fill \in FillRecords, NEW x \in Int
    PROVE  LET c == SellEntry(b, fill, x)
           IN  /\ c.income = b.income /\ c.receivable = b.receivable
               /\ c.cash = b.cash + Proceeds(fill) /\ c.expenses = b.expenses + fill.fees
               /\ c.position = b.position - x /\ c.pnl = b.pnl - (Gross(fill) - x)
               /\ c \in BookRecords
<1> DEFINE i == b.cash + Proceeds(fill)
           j == b.expenses + fill.fees
           k == b.position - x
           l == b.pnl - (Gross(fill) - x)
           c == [b EXCEPT !.cash = i, !.expenses = j, !.position = k, !.pnl = l]
<1>1. i \in Int /\ j \in Int /\ k \in Int /\ l \in Int
  <2>1. /\ b.cash \in Int /\ b.expenses \in Int /\ b.position \in Int /\ b.pnl \in Int
        /\ Proceeds(fill) \in Int /\ fill.fees \in Nat /\ Gross(fill) \in Nat
    BY FillAmounts DEF BookRecords
  <2> QED  BY <2>1
<1>2. c = SellEntry(b, fill, x)  BY DEF SellEntry
<1> HIDE DEF i, j, k, l
<1>3. /\ c.income = b.income /\ c.receivable = b.receivable
      /\ c.cash = i /\ c.expenses = j /\ c.position = k /\ c.pnl = l
  BY DEF BookRecords
<1>4. c \in BookRecords  BY <1>1 DEF BookRecords
<1> QED  BY <1>2, <1>3, <1>4 DEF i, j, k, l

LEMMA SumsInt ==
    ASSUME NEW p, Whole(p.claims)
    PROVE  PrincipalKept(p) \in Int /\ Paid(p) \in Int /\ Granted(p) \in Int
<1> DEFINE S == DOMAIN p.claims
           kept == [n \in S |-> Kept(p.claims[n])]
           paid == [n \in S |-> PaidFor(p.claims[n])]
           given == [n \in S |-> GivenFor(p.claims[n])]
<1>1. /\ PrincipalKept(p) = SumFunctionOnSet(kept, S)
      /\ Paid(p) = SumFunctionOnSet(paid, S)
      /\ Granted(p) = SumFunctionOnSet(given, S)
  BY SumsOfClaims
<1>2. IsFiniteSet(S) /\ \A n \in S : kept[n] \in Int /\ paid[n] \in Int /\ given[n] \in Int
  BY DEF Whole, Kept, PaidFor, GivenFor
<1> HIDE DEF S, kept, paid, given
<1> QED  BY <1>1, <1>2, SumInt

(* apply_sell removes the shares, brings the proceeds and never adds       *)
(* principal.                                                              *)
LEMMA SoldOK ==
    ASSUME NEW actions, Calendar(actions), NEW p, AccountOK(p, actions), NEW fill \in FillRecords,
           NEW cf \in BOOLEAN, CanSell(p, fill, cf), NEW q, q = Sold(p, fill, cf)
    PROVE  /\ AccountOK(q, actions)
           /\ q.claims = p.claims /\ q.phases = p.phases
           /\ Quantity(q.lots) = Quantity(p.lots) - fill.qty
           /\ q.cash = p.cash + Proceeds(fill) /\ q.books.cash = p.books.cash + Proceeds(fill)
           /\ Paid(q) = Paid(p) /\ Granted(q) = Granted(p)
           /\ PrincipalInAll(q) <= PrincipalInAll(p)
           /\ fill.qty <= Free(p, fill.day)
           /\ \A d \in Nat : d >= fill.day => Free(q, d) = Free(p, d) - fill.qty
<1> DEFINE queue == Eligible(p.lots, fill.day)
           rest == Survivors(queue, fill.qty, cf)
           others == p.lots \ queue
           lots == others \cup rest
           cost == SoldCost(queue, fill.qty, cf)
           c == Proceeds(fill)
           e == p.books
           b == SellEntry(e, fill, cost)
<1>1. Shape(p, actions) /\ OpenLots(p.lots) /\ BooksOK(p)  BY DEF AccountOK
<1>2. p.ok = TRUE /\ p.cash \in Nat /\ p.lots \subseteq LotRecords
      /\ p.fills \subseteq Nat /\ p.books \in BookRecords
      /\ DOMAIN p = {"ok", "cash", "lots", "fills", "books", "claims", "phases"}
  BY <1>1, FieldsOf
<1>3. /\ c \in Int /\ fill.id \in Nat /\ fill.qty \in Nat /\ p.cash + c >= 0
      /\ fill.qty <= Quantity(queue)
  BY FillAmounts DEF FillRecords, CanSell, SaleCovered
<1>4. queue \subseteq p.lots /\ OpenLots(queue) /\ OpenLots(others)
  <2>1. queue \subseteq p.lots  BY DEF Eligible
  <2> HIDE DEF queue
  <2> QED  BY <1>1, <2>1, OpenPart
<1>5. Quantity(queue) \in Nat  BY <1>4, AmountsNat
<1>6. /\ OpenLots(rest)
      /\ Quantity(rest) = Quantity(queue) - fill.qty
      /\ Cost(rest) = Cost(queue) - cost
      /\ cost \in Int
      /\ Principal(rest) <= Principal(queue)
      /\ \A lot \in rest : \E l \in queue : lot.id = l.id
  <2> DEFINE n == fill.qty
  <2>1. n \in 0..Quantity(queue)  BY <1>3, <1>5
  <2> HIDE DEF queue, n
  <2> QED  BY <1>4, <2>1, SurvivorsKeep DEF n
<1> HIDE DEF queue, rest, cost, c
<1>7. \A k \in rest, l \in others : k.id # l.id
  <2> SUFFICES ASSUME NEW k \in rest, NEW l \in others, k.id = l.id PROVE FALSE  OBVIOUS
  <2>1. PICK m \in queue : k.id = m.id  BY <1>6
  <2>2. m = l  BY <1>1, <1>4, <2>1 DEF OpenLots
  <2> QED  BY <2>1, <2>2
<1>8. others \cap rest = {}  BY <1>7
<1>9. /\ Quantity(p.lots) = Quantity(queue) + Quantity(others)
      /\ Cost(p.lots) = Cost(queue) + Cost(others)
      /\ Principal(p.lots) = Principal(queue) + Principal(others)
  BY <1>1, <1>4, AmountsParted
<1>10. /\ Quantity(lots) = Quantity(others) + Quantity(rest)
       /\ Cost(lots) = Cost(others) + Cost(rest)
       /\ Principal(lots) = Principal(others) + Principal(rest)
  <2> HIDE DEF others
  <2> QED  BY <1>4, <1>6, <1>8, AmountsUnion
<1>11. /\ Quantity(queue) \in Nat /\ Quantity(others) \in Nat
       /\ Cost(queue) \in Nat /\ Cost(others) \in Nat
       /\ Principal(queue) \in Nat /\ Principal(others) \in Nat /\ Principal(rest) \in Nat
  BY <1>4, <1>6, AmountsNat
<1>12. OpenLots(lots)
  <2>1. IsFiniteSet(lots)  BY <1>4, <1>6, FS_Union DEF OpenLots
  <2>2. lots \subseteq LotRecords /\ \A l \in lots : l.sellable >= l.acquired
    BY <1>4, <1>6 DEF OpenLots
  <2>3. \A k, l \in lots : k.id = l.id => k = l
    <3>1. \A k, l \in others : k.id = l.id => k = l  BY <1>4 DEF OpenLots
    <3>2. \A k, l \in rest : k.id = l.id => k = l  BY <1>6 DEF OpenLots
    <3> HIDE DEF others
    <3> QED  BY <1>7, <3>1, <3>2
  <2> HIDE DEF lots
  <2> QED  BY <2>1, <2>2, <2>3 DEF OpenLots
<1>13. \A l \in lots : Len(l.id) = 1 \/ \E k \in p.lots : l.id = k.id
  BY <1>4, <1>6
<1> HIDE DEF lots, others
<1>14. /\ Quantity(lots) = Quantity(p.lots) - fill.qty
       /\ Cost(lots) = Cost(p.lots) - cost
       /\ Principal(lots) <= Principal(p.lots)
       /\ Principal(lots) \in Nat /\ Principal(p.lots) \in Nat
  <2>1. Quantity(lots) = Quantity(p.lots) - fill.qty  BY <1>3, <1>6, <1>9, <1>10, <1>11
  <2>2. Cost(lots) = Cost(p.lots) - cost  BY <1>6, <1>9, <1>10, <1>11
  <2>3. /\ Principal(lots) <= Principal(p.lots)
        /\ Principal(lots) \in Nat /\ Principal(p.lots) \in Nat
    BY <1>6, <1>9, <1>10, <1>11
  <2> QED  BY <2>1, <2>2, <2>3
<1>15. /\ b.income = e.income /\ b.receivable = e.receivable
       /\ b.cash = e.cash + c /\ b.expenses = e.expenses + fill.fees
       /\ b.position = e.position - cost /\ b.pnl = e.pnl - (Gross(fill) - cost)
       /\ b \in BookRecords
  <2>1. e \in BookRecords /\ b = SellEntry(e, fill, cost)  BY <1>2
  <2> HIDE DEF e, b
  <2> QED  BY <1>6, <2>1, SellPosts DEF c
<1>16. /\ q.ok = p.ok /\ q.cash = p.cash + c /\ q.lots = lots
       /\ q.fills = p.fills \cup {fill.id} /\ q.books = b
       /\ q.claims = p.claims /\ q.phases = p.phases
       /\ q = [ok |-> q.ok, cash |-> q.cash, lots |-> q.lots, fills |-> q.fills,
               books |-> q.books, claims |-> q.claims, phases |-> q.phases]
  <2>1. q = [p EXCEPT !.cash = @ + c, !.lots = lots, !.fills = @ \cup {fill.id},
                      !.books = SellEntry(@, fill, cost)]
    BY DEF Sold, lots, others, rest, queue, cost, c
  <2> QED  BY <1>2, <2>1
<1> HIDE DEF b
<1>17. q \in [ok : {TRUE}, cash : Nat, lots : SUBSET LotRecords, fills : SUBSET Nat,
              books : BookRecords, claims : {q.claims}, phases : {q.phases}]
  <2>1. /\ q.ok = TRUE /\ q.cash \in Nat /\ q.lots \in SUBSET LotRecords
        /\ q.fills \in SUBSET Nat /\ q.books \in BookRecords
    BY <1>2, <1>3, <1>12, <1>15, <1>16 DEF OpenLots
  <2> QED  BY <1>16, <2>1
<1>18. /\ e.cash \in Int /\ e.position \in Int /\ e.expenses \in Int
       /\ e.pnl \in Int /\ e.receivable \in Int /\ e.income \in Int
       /\ e.position = Cost(p.lots)
       /\ e.cash + e.position + e.expenses + e.pnl + e.receivable + e.income = 0
  BY <1>1, <1>2 DEF BookRecords, BooksOK
<1>19. q.books.position = Cost(q.lots) /\ q.books.receivable = p.books.receivable
  BY <1>14, <1>15, <1>16, <1>18
<1>20. q.books.cash + q.books.position + q.books.expenses + q.books.pnl
         + q.books.receivable + q.books.income = 0
  <2>1. c = Gross(fill) - fill.fees /\ Gross(fill) \in Nat /\ fill.fees \in Nat
    BY FillAmounts DEF c
  <2> HIDE DEF e
  <2> QED  BY <1>6, <1>15, <1>16, <1>18, <2>1
<1>21. /\ AccountOK(q, actions) /\ Paid(q) = Paid(p) /\ Granted(q) = Granted(p)
       /\ PrincipalKept(q) = PrincipalKept(p)
  <2>1. /\ q.claims = p.claims /\ q.phases = p.phases /\ OpenLots(q.lots)
        /\ \A l \in q.lots : Len(l.id) = 1 \/ \E k \in p.lots : l.id = k.id
    BY <1>12, <1>13, <1>16
  <2> HIDE DEF e
  <2> QED  BY ONLY AccountOK(p, actions), <2>1, <1>17, <1>19, <1>20, TradeOK
<1>22. PrincipalInAll(q) <= PrincipalInAll(p)
  <2>1. PrincipalKept(p) \in Int  BY AccountWhole, SumsInt
  <2>2. Principal(q.lots) <= Principal(p.lots)
        /\ Principal(q.lots) \in Nat /\ Principal(p.lots) \in Nat
    BY <1>14, <1>16
  <2> QED  BY <1>21, <2>1, <2>2 DEF PrincipalInAll
<1>23. q.cash = p.cash + Proceeds(fill) /\ q.books.cash = p.books.cash + Proceeds(fill)
  BY <1>15, <1>16 DEF c
<1>24. Quantity(q.lots) = Quantity(p.lots) - fill.qty  BY <1>14, <1>16
<1>25. q.claims = p.claims /\ q.phases = p.phases  BY <1>16
<1> HIDE DEF e
<1>26. fill.qty <= Free(p, fill.day)  BY DEF CanSell, SaleCovered, Free
<1>27. ASSUME NEW d \in Nat, d >= fill.day
       PROVE  Free(q, d) = Free(p, d) - fill.qty
  <2> DEFINE day == fill.day
             qty == fill.qty
             sold == (p.lots \ queue) \cup Survivors(queue, qty, cf)
  <2>1. day \in Nat /\ qty \in 0..Quantity(queue)
    <3>1. day \in Nat /\ qty \in Nat  BY DEF FillRecords
    <3>2. qty <= Quantity(queue)  BY <1>26 DEF Free, queue
    <3> QED  BY <1>11, <3>1, <3>2
  <2>2. q.lots = sold  BY <1>16 DEF lots, others, rest
  <2>3. queue = Eligible(p.lots, day)  BY DEF queue
  <2>4. d >= day  BY <1>27
  <2> HIDE DEF day, qty, queue
  <2>5. Quantity(Eligible(sold, d)) = Quantity(Eligible(p.lots, d)) - qty
    BY <1>1, <2>1, <2>3, <2>4, SaleUnlocked
  <2> QED  BY <2>2, <2>5 DEF Free, qty
<1> QED  BY <1>21, <1>22, <1>23, <1>24, <1>25, <1>26, <1>27

-----------------------------------------------------------------------------
(* The boundaries of a session: two loops, one after the other. *)

(* A loop over an account that was given up does nothing. *)
LEMMA LoopFails ==
    ASSUME NEW actions, Calendar(actions), NEW p, NEW day, NEW loop, ~ p.ok
    PROVE  ForEach(p, actions, day, loop) = p
<1>1. \A a \in actions : Stepped(p, a, day, loop) = p  BY DEF Stepped
<1> QED  BY <1>1, LoopIdle

(* A boundary that completed completed both of its loops. *)
LEMMA TwoLoops ==
    ASSUME NEW actions, Calendar(actions), NEW p, AccountOK(p, actions), NEW day,
           NEW first \in Loops, NEW second \in Loops,
           NEW m, m = ForEach(p, actions, day, first),
           NEW q, q = ForEach(m, actions, day, second), q.ok
    PROVE  /\ LoopDid(p, m, actions, actions, day, first)
           /\ LoopDid(m, q, actions, actions, day, second)
           /\ AccountOK(q, actions) /\ Balanced(p, q) /\ p.phases \subseteq q.phases
<1>1. m.ok
  <2> SUFFICES ASSUME ~ m.ok PROVE FALSE  OBVIOUS
  <2>1. q = m  BY LoopFails
  <2> QED  BY <2>1
<1>2. LoopDid(p, m, actions, actions, day, first)  BY <1>1, LoopOK
<1>3. AccountOK(m, actions)  BY <1>2 DEF LoopDid
<1>4. LoopDid(m, q, actions, actions, day, second)  BY <1>3, LoopOK
<1> QED  BY <1>2, <1>4 DEF LoopDid, Balanced, Grown

(* What the sums over the claims come to, action by action. *)
LEMMA OverActions ==
    ASSUME NEW actions, Calendar(actions), NEW g, \A n \in NamesOf(actions) : g[n] \in Int,
           NEW D, D \subseteq actions, NEW x,
           \A a \in D : x[a] = g[a.name],
           \A a \in actions \ D : g[a.name] = 0
    PROVE  SumFunctionOnSet(g, NamesOf(actions)) = SumFunctionOnSet(x, D)
<1> DEFINE N == NamesOf(actions)
           f == [a \in actions |-> g[a.name]]
           nameOf == [a \in actions |-> a.name]
<1>1. N = {nameOf[a] : a \in actions} /\ \A a, b \in actions : nameOf[a] = nameOf[b] => a = b
  BY DEF NamesOf, Calendar
<1>2. \A a \in actions : nameOf[a] \in N /\ f[a] \in Int /\ g[nameOf[a]] = f[a]
  <2>1. \A a \in actions : a.name \in N  BY <1>1
  <2> QED  BY <2>1
<1>3. IsFiniteSet(actions) /\ IsFiniteSet(D)  BY FS_Subset DEF Calendar
<1>4. /\ \A a \in D : x[a] = f[a]
      /\ \A a \in actions \ D : f[a] = 0
  OBVIOUS
<1> HIDE DEF N, f, nameOf
<1>5. SumFunctionOnSet(g, {nameOf[a] : a \in actions}) = SumFunctionOnSet(f, actions)
  BY <1>1, <1>2, <1>3, SumImage
<1>6. SumFunctionOnSet(f, actions) = SumFunctionOnSet(f, D)  BY <1>2, <1>3, <1>4, SumPart
<1>7. SumFunctionOnSet(x, D) = SumFunctionOnSet(f, D)  BY <1>3, <1>4, SumSame
<1> QED  BY <1>1, <1>5, <1>6, <1>7 DEF N

(* Shares and cash of settled claims as sums over the calendar. *)
LEMMA GrantedOver ==
    ASSUME NEW actions, Calendar(actions), NEW p, AccountOK(p, actions),
           NEW D, D \subseteq actions, NEW x,
           \A a \in D : x[a] = GivenFor(p.claims[a.name]),
           \A a \in actions \ D : GivenFor(p.claims[a.name]) = 0
    PROVE  Granted(p) = SumFunctionOnSet(x, D)
<1> DEFINE N == NamesOf(actions)
           g == [n \in N |-> GivenFor(p.claims[n])]
<1>1. Whole(p.claims) /\ DOMAIN p.claims = N  BY AccountWhole
<1>2. Granted(p) = SumFunctionOnSet(g, N)  BY <1>1, SumsOfClaims
<1>3. \A n \in N : g[n] \in Int  BY <1>1 DEF Whole, GivenFor
<1>4. \A a \in actions : g[a.name] = GivenFor(p.claims[a.name])  BY DEF NamesOf
<1>5. /\ \A a \in D : x[a] = g[a.name]
      /\ \A a \in actions \ D : g[a.name] = 0
  BY <1>4
<1> HIDE DEF g
<1> QED  BY <1>2, <1>3, <1>5, OverActions

LEMMA PaidOver ==
    ASSUME NEW actions, Calendar(actions), NEW p, AccountOK(p, actions),
           NEW D, D \subseteq actions, NEW x,
           \A a \in D : x[a] = PaidFor(p.claims[a.name]),
           \A a \in actions \ D : PaidFor(p.claims[a.name]) = 0
    PROVE  Paid(p) = SumFunctionOnSet(x, D)
<1> DEFINE N == NamesOf(actions)
           g == [n \in N |-> PaidFor(p.claims[n])]
<1>1. Whole(p.claims) /\ DOMAIN p.claims = N  BY AccountWhole
<1>2. Paid(p) = SumFunctionOnSet(g, N)  BY <1>1, SumsOfClaims
<1>3. \A n \in N : g[n] \in Int  BY <1>1 DEF Whole, PaidFor
<1>4. \A a \in actions : g[a.name] = PaidFor(p.claims[a.name])  BY DEF NamesOf
<1>5. /\ \A a \in D : x[a] = g[a.name]
      /\ \A a \in actions \ D : g[a.name] = 0
  BY <1>4
<1> HIDE DEF g
<1> QED  BY <1>2, <1>3, <1>5, OverActions

(* What the claims of D bring when they settle. *)
LEMMA SettledMore ==
    ASSUME NEW all, Calendar(all), NEW p, AccountOK(p, all), NEW q, AccountOK(q, all),
           NEW D, D \subseteq all,
           \A a \in all :
              LET old == p.claims[a.name]
                  new == q.claims[a.name]
              IN  /\ new.status = "settled" <=> a \in D \/ old.status = "settled"
                  /\ a \in D => old.status # "settled"
                  /\ new.status = "settled" => new.cash = old.cash /\ new.delta = old.delta
    PROVE  /\ Granted(q) = Granted(p) + SumFunctionOnSet([a \in D |-> p.claims[a.name].delta], D)
           /\ Paid(q) = Paid(p) + SumFunctionOnSet([a \in D |-> p.claims[a.name].cash], D)
<1> DEFINE gp == [a \in all |-> GivenFor(p.claims[a.name])]
           gq == [a \in all |-> GivenFor(q.claims[a.name])]
           gd == [a \in all |-> IF a \in D THEN p.claims[a.name].delta ELSE 0]
           g  == [a \in D |-> p.claims[a.name].delta]
           cp == [a \in all |-> PaidFor(p.claims[a.name])]
           cq == [a \in all |-> PaidFor(q.claims[a.name])]
           cd == [a \in all |-> IF a \in D THEN p.claims[a.name].cash ELSE 0]
           c  == [a \in D |-> p.claims[a.name].cash]
<1>1. /\ IsFiniteSet(all) /\ IsFiniteSet(D)
      /\ \A a \in all : p.claims[a.name].delta \in Int /\ p.claims[a.name].cash \in Int
  <2>1. Whole(p.claims) /\ DOMAIN p.claims = NamesOf(all)  BY AccountWhole
  <2>2. IsFiniteSet(all) /\ IsFiniteSet(D)  BY FS_Subset DEF Calendar
  <2> QED  BY <2>1, <2>2 DEF Whole, NamesOf
<1>2. /\ \A a \in all : gp[a] \in Int /\ gd[a] \in Int /\ gq[a] = gp[a] + gd[a]
      /\ \A a \in all : cp[a] \in Int /\ cd[a] \in Int /\ cq[a] = cp[a] + cd[a]
  BY <1>1 DEF GivenFor, PaidFor
<1>3. /\ \A a \in all \ D : gd[a] = 0 /\ cd[a] = 0
      /\ \A a \in D : gd[a] = g[a] /\ cd[a] = c[a]
  OBVIOUS
<1>4. /\ \A a \in all : gp[a] = GivenFor(p.claims[a.name]) /\ gq[a] = GivenFor(q.claims[a.name])
      /\ \A a \in all : cp[a] = PaidFor(p.claims[a.name]) /\ cq[a] = PaidFor(q.claims[a.name])
  OBVIOUS
<1> HIDE DEF gp, gq, gd, g, cp, cq, cd, c
<1>5. all \subseteq all /\ all \ all = {}  OBVIOUS
<1>6. Granted(p) = SumFunctionOnSet(gp, all) /\ Granted(q) = SumFunctionOnSet(gq, all)
  BY <1>4, <1>5, GrantedOver
<1>7. Paid(p) = SumFunctionOnSet(cp, all) /\ Paid(q) = SumFunctionOnSet(cq, all)
  BY <1>4, <1>5, PaidOver
<1>8. /\ SumFunctionOnSet(gq, all) = SumFunctionOnSet(gp, all) + SumFunctionOnSet(gd, all)
      /\ SumFunctionOnSet(cq, all) = SumFunctionOnSet(cp, all) + SumFunctionOnSet(cd, all)
  BY <1>1, <1>2, SumPlus
<1>9. /\ SumFunctionOnSet(gd, all) = SumFunctionOnSet(gd, D)
      /\ SumFunctionOnSet(cd, all) = SumFunctionOnSet(cd, D)
  BY <1>1, <1>2, <1>3, SumPart
<1>10. SumFunctionOnSet(gd, D) = SumFunctionOnSet(g, D) /\ SumFunctionOnSet(cd, D) = SumFunctionOnSet(c, D)
  BY <1>1, <1>3, SumSame
<1> QED  BY <1>6, <1>7, <1>8, <1>9, <1>10 DEF g, c

(* What the two boundaries do to the claim of an action. *)
OpenedStatus(a, status, day) ==
    IF (status = "captured" /\ a.ex = day) \/ status = "accrued"
    THEN IF a.kind # "dividend" /\ a.settle <= day THEN "settled" ELSE "accrued"
    ELSE status

ClosedStatus(a, status, day) ==
    IF status = "none" /\ a.kind # "rights" /\ a.record = day THEN "captured"
    ELSE IF status = "accrued" /\ a.kind = "dividend" /\ a.settle <= day THEN "settled"
    ELSE status

SameTerms(old, new) ==
    /\ old.status # "none" => new.qty = old.qty /\ new.cash = old.cash /\ new.delta = old.delta
    /\ new.status = "none" => new = old

(* What the boundary before a session credits. *)
Credited(p, actions, day) ==
    {a \in actions : /\ p.claims[a.name].status # "settled"
                     /\ OpenedStatus(a, p.claims[a.name].status, day) = "settled"}

(* A loop that credits nothing changes nothing that can be sold. *)
LEMMA NoneCredited ==
    ASSUME NEW actions, Calendar(actions), NEW p, AccountOK(p, actions),
           NEW q, AccountOK(q, actions), NEW d \in Nat, Frees(p, q, {}, d)
    PROVE  Free(q, d) = Free(p, d)
<1>1. Free(p, d) \in Nat /\ Free(q, d) \in Nat /\ Given(p, {}) = 0  BY FreeNat, GivenAdd
<1>2. {a \in {} : a.sellable <= d} = {}  OBVIOUS
<1>3. Free(q, d) \in Free(p, d)..(Free(p, d) + 0)  BY <1>1, <1>2 DEF Frees
<1> QED  BY <1>1, <1>3

(* apply_before_session: what is due accrues and, unless a dividend,       *)
(* settles.                                                                *)
THEOREM BeforeSessionOK ==
    ASSUME NEW actions, Calendar(actions), NEW p, AccountOK(p, actions), NEW day,
           NEW q, q = BeforeSession(p, actions, day), q.ok
    PROVE  /\ AccountOK(q, actions) /\ Balanced(p, q) /\ p.phases \subseteq q.phases
           /\ \A a \in actions :
                 LET old == p.claims[a.name]
                     new == q.claims[a.name]
                 IN  new.status = OpenedStatus(a, old.status, day) /\ SameTerms(old, new)
           /\ \A d \in Nat : Frees(p, q, Credited(p, actions, day), d)
<1> DEFINE m == ForEach(p, actions, day, "accrue")
<1>1. q = ForEach(m, actions, day, "credit")  BY DEF BeforeSession
<1>2. "accrue" \in Loops /\ "credit" \in Loops  BY DEF Loops
<1>3. /\ LoopDid(p, m, actions, actions, day, "accrue")
      /\ LoopDid(m, q, actions, actions, day, "credit")
      /\ AccountOK(q, actions) /\ Balanced(p, q) /\ p.phases \subseteq q.phases
  BY <1>1, <1>2, TwoLoops
<1> HIDE DEF m
<1>4. ASSUME NEW a \in actions
      PROVE  LET old == p.claims[a.name]
                 new == q.claims[a.name]
             IN  new.status = OpenedStatus(a, old.status, day) /\ SameTerms(old, new)
  <2>1. Passed(p, m, a, day, "accrue") /\ Passed(m, q, a, day, "credit")  BY <1>3 DEF LoopDid
  <2> DEFINE s == p.claims[a.name].status
             t == m.claims[a.name].status
             u == q.claims[a.name].status
  <2>2. t = StatusAfter(p, a, day, "accrue") /\ u = StatusAfter(m, a, day, "credit")
    BY <2>1 DEF Passed
  <2>3. t = IF s = "captured" /\ a.ex = day THEN "accrued" ELSE s
    BY <2>2 DEF StatusAfter
  <2>4. u = IF a.kind # "dividend" /\ t = "accrued" /\ a.settle <= day THEN "settled" ELSE t
    BY <2>2 DEF StatusAfter
  <2>5. u = OpenedStatus(a, s, day)
    <3> HIDE DEF s, t, u
    <3> QED  BY <2>3, <2>4 DEF OpenedStatus
  <2>6. (s = "none" <=> t = "none") /\ (t = "none" <=> u = "none")
    <3> HIDE DEF s, t, u
    <3> QED  BY <2>3, <2>4
  <2> QED  BY <2>1, <2>5, <2>6 DEF Passed, SameTerms
<1>5. ASSUME NEW d \in Nat PROVE Frees(p, q, Credited(p, actions, day), d)
  <2> DEFINE some == Credited(p, actions, day)
  <2>1. /\ AccountOK(m, actions) /\ \A a \in actions : Passed(p, m, a, day, "accrue")
        /\ Frees(p, m, Credits(p, actions, day, "accrue"), d)
        /\ Frees(m, q, Credits(m, actions, day, "credit"), d)
    BY <1>3 DEF LoopDid
  <2>2. Credits(p, actions, day, "accrue") = {}  BY DEF Credits
  <2>3. Free(m, d) = Free(p, d)  BY <2>1, <2>2, NoneCredited
  <2>4. ASSUME NEW a \in actions
        PROVE  LET s == p.claims[a.name].status
                   t == m.claims[a.name].status
               IN  /\ t = IF s = "captured" /\ a.ex = day THEN "accrued" ELSE s
                   /\ s # "none" => m.claims[a.name].delta = p.claims[a.name].delta
    <3>1. Passed(p, m, a, day, "accrue")  BY <2>1
    <3> QED  BY <3>1 DEF Passed, StatusAfter
  <2>5. Credits(m, actions, day, "credit") = some
    <3>1. ASSUME NEW a \in actions
          PROVE  a \in Credits(m, actions, day, "credit") <=> a \in some
      BY <2>4 DEF Credits, Credited, OpenedStatus
    <3> QED  BY <3>1 DEF Credits, Credited
  <2>6. \A a \in some : m.claims[a.name].delta = p.claims[a.name].delta
    <3>1. \A a \in some : a \in actions /\ p.claims[a.name].status # "none"
      BY DEF Credited, OpenedStatus
    <3> QED  BY <2>4, <3>1
  <2> HIDE DEF some
  <2>7. Given(m, {a \in some : a.sellable <= d}) = Given(p, {a \in some : a.sellable <= d})
    <3> DEFINE part == {a \in some : a.sellable <= d}
    <3>1. \A a \in part : m.claims[a.name].delta = p.claims[a.name].delta  BY <2>6
    <3> HIDE DEF part
    <3>2. [a \in part |-> m.claims[a.name].delta] = [a \in part |-> p.claims[a.name].delta]
      BY <3>1
    <3>3. Given(m, part) = Given(p, part)  BY <3>2 DEF Given
    <3> QED  BY <3>3 DEF part
  <2>8. Frees(m, q, some, d)  BY <2>1, <2>5
  <2>9. Frees(p, q, some, d)  BY <2>3, <2>7, <2>8 DEF Frees
  <2> QED  BY <2>9 DEF some
<1> QED  BY <1>3, <1>4, <1>5

(* apply_after_session: what is recorded today is captured or declined,    *)
(* and dividends due are paid.                                             *)
THEOREM AfterSessionOK ==
    ASSUME NEW actions, Calendar(actions), NEW p, AccountOK(p, actions), NEW day,
           NEW q, q = AfterSession(p, actions, day), q.ok
    PROVE  /\ AccountOK(q, actions) /\ Balanced(p, q) /\ p.phases \subseteq q.phases
           /\ \A a \in actions :
                 LET old == p.claims[a.name]
                     new == q.claims[a.name]
                 IN  /\ new.status = ClosedStatus(a, old.status, day) /\ SameTerms(old, new)
                     /\ old.status = "none" /\ new.status # "none" => new.qty = Quantity(p.lots)
                     /\ a.kind = "rights" /\ a.record = day => Done(q, a, "declined")
           /\ \A d \in Nat : Free(q, d) = Free(p, d)
<1> DEFINE m == ForEach(p, actions, day, "register")
<1>1. q = ForEach(m, actions, day, "pay")  BY DEF AfterSession
<1>2. "register" \in Loops /\ "pay" \in Loops  BY DEF Loops
<1>3. /\ LoopDid(p, m, actions, actions, day, "register")
      /\ LoopDid(m, q, actions, actions, day, "pay")
      /\ AccountOK(q, actions) /\ Balanced(p, q) /\ p.phases \subseteq q.phases
  BY <1>1, <1>2, TwoLoops
<1> HIDE DEF m
<1>4. ASSUME NEW a \in actions
      PROVE  LET old == p.claims[a.name]
                 new == q.claims[a.name]
             IN  /\ new.status = ClosedStatus(a, old.status, day) /\ SameTerms(old, new)
                 /\ old.status = "none" /\ new.status # "none" => new.qty = Quantity(p.lots)
                 /\ a.kind = "rights" /\ a.record = day => Done(q, a, "declined")
  <2>1. Passed(p, m, a, day, "register") /\ Passed(m, q, a, day, "pay")  BY <1>3 DEF LoopDid
  <2> DEFINE s == p.claims[a.name].status
             t == m.claims[a.name].status
             u == q.claims[a.name].status
  <2>2. t = StatusAfter(p, a, day, "register") /\ u = StatusAfter(m, a, day, "pay")
    BY <2>1 DEF Passed
  <2>3. t = IF s = "none" /\ a.kind # "rights" /\ a.record = day THEN "captured" ELSE s
    BY <2>2 DEF StatusAfter
  <2>4. u = IF a.kind = "dividend" /\ t = "accrued" /\ a.settle <= day THEN "settled" ELSE t
    BY <2>2 DEF StatusAfter
  <2>5. u = ClosedStatus(a, s, day)
    <3> HIDE DEF s, t, u
    <3> QED  BY <2>3, <2>4 DEF ClosedStatus
  <2>6. (t = "none" => s = "none") /\ (t = "none" <=> u = "none")
    <3> HIDE DEF s, t, u
    <3> QED  BY <2>3, <2>4
  <2>7. m.phases \subseteq q.phases  BY <1>3 DEF LoopDid, Grown
  <2>8. a.kind = "rights" /\ a.record = day => Done(q, a, "declined")
    BY <2>1, <2>7 DEF Passed, Done
  <2>9. SameTerms(p.claims[a.name], q.claims[a.name])
    BY <2>1, <2>6 DEF Passed, SameTerms
  <2>10. s = "none" /\ u # "none" => q.claims[a.name].qty = Quantity(p.lots)
    BY <2>1, <2>6 DEF Passed
  <2> QED  BY <2>5, <2>8, <2>9, <2>10
<1>5. ASSUME NEW d \in Nat PROVE Free(q, d) = Free(p, d)
  <2>1. /\ AccountOK(m, actions) /\ AccountOK(q, actions)
        /\ Frees(p, m, Credits(p, actions, day, "register"), d)
        /\ Frees(m, q, Credits(m, actions, day, "pay"), d)
    BY <1>3 DEF LoopDid
  <2>2. Credits(p, actions, day, "register") = {} /\ Credits(m, actions, day, "pay") = {}
    BY DEF Credits
  <2>3. Free(m, d) = Free(p, d) /\ Free(q, d) = Free(m, d)  BY <2>1, <2>2, NoneCredited
  <2> QED  BY <2>3
<1> QED  BY <1>3, <1>4, <1>5
================================================================================
