---------------------------- MODULE CowForkProofs ---------------------------
(* fork() of lib/fork.c for any number of environments, addresses and pages: *)
(* the invariant of CowForkInvariant holds, and with it the properties of    *)
(* CowFork. A memory operator is known to the rest by its effect on who      *)
(* shares a page with whom and what each page holds (the lemmas that end in  *)
(* Effect).                                                                  *)
EXTENDS CowForkInvariant, FunctionTheorems, FiniteSetTheorems, TLAPS

-----------------------------------------------------------------------------
(* Sets of pages.                                                            *)

(* As many images as pages, at most.                                         *)
LEMMA ImageOfPages ==
    ASSUME NEW S, IsFiniteSet(S), NEW T, NEW f, f \in [S -> T]
    PROVE  IsFiniteSet({f[x] : x \in S}) /\ Cardinality({f[x] : x \in S}) <= Cardinality(S)
<1> DEFINE R == {f[x] : x \in S}
<1>1. f \in Surjection(S, R)
  BY DEF Surjection
<1> HIDE DEF R
<1>2. IsFiniteSet(R) /\ Cardinality(R) <= Cardinality(S)
  BY <1>1, FS_Surjection
<1> QED
  BY <1>2 DEF R

(* A page and what the EXCEPTs of the memory operators make of it.           *)
LEMMA PageParts ==
    ASSUME NEW q \in Page
    PROVE  /\ q.at \subseteq Envs \X Places /\ q.data \in Values
           /\ \A X : [q EXCEPT !.at = @ \ X] = [at |-> q.at \ X, data |-> q.data]
           /\ \A X : [q EXCEPT !.at = @ \union X] = [at |-> q.at \union X, data |-> q.data]
           /\ \A v : [q EXCEPT !.data = v] = [at |-> q.at, data |-> v]
BY SMTT(30) DEF Page

(* What is a page.                                                           *)
LEMMA PageIs ==
    ASSUME NEW X, X \subseteq Envs \X Places, NEW v \in Values
    PROVE  [at |-> X, data |-> v] \in Page
BY DEF Page

(* Without(): the places that are left share and hold what they did.         *)
LEMMA WithoutPages ==
    ASSUME NEW ps, PagesOK(ps), NEW X
    PROVE  /\ PagesOK(Without(ps, X)) /\ Cardinality(Without(ps, X)) <= Cardinality(ps)
           /\ \A e, c, va, wa :
                 /\ Same(Without(ps, X), e, va, c, wa) <=>
                       Same(ps, e, va, c, wa) /\ <<e, va>> \notin X /\ <<c, wa>> \notin X
                 /\ Holds(Without(ps, X), e, va) <=> Holds(ps, e, va) /\ <<e, va>> \notin X
           /\ \A e, va, v :
                 Content(Without(ps, X), e, va, v) <=> Content(ps, e, va, v) /\ <<e, va>> \notin X
<1> DEFINE cut(q) == [at |-> q.at \ X, data |-> q.data]
           R == {cut(q) : q \in ps}
           W == {p \in R : p.at # {}}
           f == [q \in ps |-> cut(q)]
<1>1. \A q \in ps : q \in Page /\ q.at # {} /\ cut(q) \in Page
                    /\ [q EXCEPT !.at = @ \ X] = cut(q)
  BY PageParts, PageIs DEF PagesOK
<1>2. Without(ps, X) = W
  <2>1. R = {[q EXCEPT !.at = @ \ X] : q \in ps}
    BY <1>1, ZenonT(30)
  <2> QED BY <2>1 DEF Without
<1>3. f \in [ps -> Page] /\ R = {f[x] : x \in ps}
  BY <1>1
<1>4. IsFiniteSet(ps) /\ Cardinality(ps) <= MaxPages
  BY DEF PagesOK
<1>5. IsFiniteSet(R) /\ Cardinality(R) <= Cardinality(ps)
  <2> HIDE DEF R, f
  <2>1. IsFiniteSet({f[x] : x \in ps}) /\ Cardinality({f[x] : x \in ps}) <= Cardinality(ps)
    BY ONLY <1>3, <1>4, ImageOfPages
  <2> QED BY <1>3, <2>1
<1>6. IsFiniteSet(W) /\ Cardinality(W) <= Cardinality(R)
  <2>1. W \in SUBSET R
    OBVIOUS
  <2> HIDE DEF W, R
  <2> QED BY <2>1, <1>5, FS_Subset
<1>7. Cardinality(W) <= Cardinality(ps) /\ Cardinality(W) <= MaxPages
  <2> HIDE DEF W, R
  <2> QED BY <1>4, <1>5, <1>6, FS_CardinalityType, CowForkAssumption
<1>8. Disjoint(W)
  <2> SUFFICES ASSUME NEW p \in W, NEW q \in W, p.at \intersect q.at # {} PROVE p = q
    BY DEF Disjoint
  <2>1. PICK a \in ps, b \in ps : p = cut(a) /\ q = cut(b)
    OBVIOUS
  <2>2. a.at \intersect b.at # {}
    BY <2>1
  <2>3. a = b
    BY <2>2 DEF PagesOK, Disjoint
  <2> QED BY <2>1, <2>3
<1>9. PagesOK(W)
  <2>1. W \subseteq Page /\ \A p \in W : p.at # {}
    BY <1>1
  <2> HIDE DEF W
  <2> QED BY <2>1, <1>6, <1>5, <1>7, <1>8 DEF PagesOK
<1>10. \A x, y : (\E p \in W : x \in p.at /\ y \in p.at) <=>
                    (\E p \in ps : x \in p.at /\ y \in p.at) /\ x \notin X /\ y \notin X
  <2>1. \A q \in ps : \A x : x \in q.at \ X => cut(q) \in W /\ x \in cut(q).at
    BY <1>1
  <2>2. \A p \in W : \E q \in ps : p.at = q.at \ X
    OBVIOUS
  <2> HIDE DEF W
  <2> QED BY <2>1, <2>2
<1>11. \A x, v : (\E p \in W : x \in p.at /\ p.data = v) <=>
                    (\E p \in ps : x \in p.at /\ p.data = v) /\ x \notin X
  <2>1. \A q \in ps : \A x : x \in q.at \ X => cut(q) \in W /\ x \in cut(q).at /\ cut(q).data = q.data
    BY <1>1
  <2>2. \A p \in W : \E q \in ps : p.at = q.at \ X /\ p.data = q.data
    OBVIOUS
  <2> HIDE DEF W, cut
  <2> QED BY <2>1, <2>2
<1> HIDE DEF W
<1>12. \A e, c, va, wa :
           /\ Same(W, e, va, c, wa) <=>
                       Same(ps, e, va, c, wa) /\ <<e, va>> \notin X /\ <<c, wa>> \notin X
           /\ Holds(W, e, va) <=> Holds(ps, e, va) /\ <<e, va>> \notin X
  BY <1>10 DEF Same, Holds
<1>13. \A e, va, v :
                 Content(W, e, va, v) <=> Content(ps, e, va, v) /\ <<e, va>> \notin X
  BY <1>11 DEF Content
<1> QED BY <1>2, <1>7, <1>9, <1>12, <1>13

(* A new page of zeros at a place that had none.                             *)
LEMMA AddedPage ==
    ASSUME NEW ps, PagesOK(ps), NEW e \in Envs, NEW va \in Places, ~Holds(ps, e, va),
           Cardinality(ps) < MaxPages, NEW qs, qs = ps \union {[at |-> {<<e, va>>}, data |-> 0]}
    PROVE  /\ PagesOK(qs)
           /\ \A d, c, xa, wa :
                 Same(qs, d, xa, c, wa) <=> Same(ps, d, xa, c, wa) \/ (d = e /\ c = e /\ xa = va /\ wa = va)
           /\ \A d, xa : Holds(qs, d, xa) <=> Holds(ps, d, xa) \/ (d = e /\ xa = va)
           /\ \A d, xa, v :
                 Content(qs, d, xa, v) <=>
                    Content(ps, d, xa, v) \/ (d = e /\ xa = va /\ v = 0)
<1> DEFINE new == [at |-> {<<e, va>>}, data |-> 0]
<1>1. qs \subseteq Page /\ \A p \in qs : p.at # {}
  <2>1. new \in Page /\ new.at # {}
    <3>1. {<<e, va>>} \subseteq Envs \X Places
      OBVIOUS
    <3> QED BY <3>1, PageIs, CowForkAssumption
  <2> QED BY <2>1 DEF PagesOK
<1>2. IsFiniteSet(qs) /\ Cardinality(qs) <= MaxPages
  <2>1. IsFiniteSet(ps) /\ Cardinality(ps) \in Nat /\ MaxPages \in Nat
    BY FS_CardinalityType, CowForkAssumption DEF PagesOK
  <2>2. IsFiniteSet(qs) /\ Cardinality(qs) <= Cardinality(ps) + 1
    <3> HIDE DEF new
    <3>1. qs = ps \union {new}
      BY DEF new
    <3>2. IsFiniteSet(qs) /\ Cardinality(qs) = IF new \in ps THEN Cardinality(ps) ELSE Cardinality(ps) + 1
      BY ONLY <2>1, <3>1, FS_AddElement
    <3> QED BY <2>1, <3>2
  <2>3. Cardinality(qs) \in Nat
    BY <2>2, FS_CardinalityType
  <2> QED BY <2>1, <2>2, <2>3
<1>3. Disjoint(qs)
  <2> SUFFICES ASSUME NEW p \in qs, NEW q \in qs, NEW x, x \in p.at, x \in q.at PROVE p = q
    BY DEF Disjoint
  <2>1. \A r \in ps : <<e, va>> \notin r.at
    BY DEF Holds
  <2> QED BY <2>1 DEF PagesOK, Disjoint
<1>4. PagesOK(qs)
  BY <1>1, <1>2, <1>3 DEF PagesOK
<1>5. \A p : p \in qs <=> p \in ps \/ p = new
  OBVIOUS
<1>6. new.data = 0 /\ \A d, xa : <<d, xa>> \in new.at <=> d = e /\ xa = va
  OBVIOUS
<1> HIDE DEF new
<1>7. \A d, c, xa, wa :
          Same(qs, d, xa, c, wa) <=> Same(ps, d, xa, c, wa) \/ (d = e /\ c = e /\ xa = va /\ wa = va)
  BY ONLY <1>5, <1>6 DEF Same
<1>9. \A d, xa : Holds(qs, d, xa) <=> Holds(ps, d, xa) \/ (d = e /\ xa = va)
  BY ONLY <1>5, <1>6 DEF Holds
<1>8. \A d, xa, v : Content(qs, d, xa, v) <=>
                    Content(ps, d, xa, v) \/ (d = e /\ xa = va /\ v = 0)
  BY ONLY <1>5, <1>6 DEF Content
<1> QED BY <1>4, <1>7, <1>8, <1>9

(* The pages after the one of <<e, va>> is also given the place <<f, wa>>. *)
Shared(ps, e, va, f, wa) ==
    {IF <<e, va>> \in q.at THEN [at |-> q.at \union {<<f, wa>>}, data |-> q.data] ELSE q : q \in ps}

(* The place of f joins the page of e at va.                                 *)
LEMMA SharedPage ==
    ASSUME NEW ps, PagesOK(ps), NEW e \in Envs, NEW va \in Places,
           NEW f \in Envs, NEW wa \in Places,
           Holds(ps, f, wa) => Same(ps, e, va, f, wa), NEW qs, qs = Shared(ps, e, va, f, wa)
    PROVE  /\ PagesOK(qs)
           /\ \A d, c, xa, ya :
                 Same(qs, d, xa, c, ya) <=>
                    \/ Same(ps, d, xa, c, ya)
                    \/ Holds(ps, e, va) /\ d = f /\ xa = wa /\ (Same(ps, e, va, c, ya) \/ (c = f /\ ya = wa))
                    \/ Holds(ps, e, va) /\ c = f /\ ya = wa /\ Same(ps, e, va, d, xa)
           /\ \A d, xa :
                 Holds(qs, d, xa) <=> Holds(ps, d, xa) \/ (Holds(ps, e, va) /\ d = f /\ xa = wa)
           /\ \A d, xa, u :
                 Content(qs, d, xa, u) <=>
                    IF Same(ps, e, va, d, xa) \/ (Holds(ps, e, va) /\ d = f /\ xa = wa)
                      THEN Content(ps, e, va, u)
                      ELSE Content(ps, d, xa, u)
<1> DEFINE new(q) == IF <<e, va>> \in q.at
                   THEN [at |-> q.at \union {<<f, wa>>}, data |-> q.data]
                   ELSE q
           g == [q \in ps |-> new(q)]
<1>1. \A q \in ps : q \in Page /\ q.at # {} /\ new(q) \in Page /\ new(q).at # {}
  BY PageParts, PageIs DEF PagesOK
<1>2. g \in [ps -> Page] /\ qs = {g[x] : x \in ps}
  BY <1>1 DEF Shared
<1>3. IsFiniteSet(ps) /\ Cardinality(ps) <= MaxPages
  BY DEF PagesOK
<1>4. IsFiniteSet(qs) /\ Cardinality(qs) <= Cardinality(ps)
  <2> HIDE DEF g
  <2>1. IsFiniteSet({g[x] : x \in ps}) /\ Cardinality({g[x] : x \in ps}) <= Cardinality(ps)
    BY ONLY <1>2, <1>3, ImageOfPages
  <2> QED BY ONLY <1>2, <2>1
<1>5. Cardinality(qs) <= MaxPages
  BY <1>3, <1>4, FS_CardinalityType, CowForkAssumption
<1>6. \A q \in ps : /\ \A d, xa : <<d, xa>> \in new(q).at <=>
                          <<d, xa>> \in q.at \/ (<<e, va>> \in q.at /\ d = f /\ xa = wa)
                    /\ new(q).data = q.data
  OBVIOUS
<1>7. \A p, q \in ps : \A x : x \in p.at /\ x \in q.at => p = q
  BY DEF PagesOK, Disjoint
<1>8. qs = {new(q) : q \in ps}
  BY DEF Shared
<1> HIDE DEF new
<1>9. \A q \in ps : new(q) \in qs
  BY <1>8
<1>10. \A p \in qs : \E q \in ps : p = new(q)
  BY <1>8
<1>11. \A p, q \in ps : \A d, xa : <<d, xa>> \in new(p).at /\ <<d, xa>> \in new(q).at => p = q
  BY <1>6, <1>7 DEF Same, Holds
<1>12. Disjoint(qs)
  <2> SUFFICES ASSUME NEW p \in qs, NEW q \in qs, NEW x, x \in p.at, x \in q.at PROVE p = q
    BY DEF Disjoint
  <2>1. PICK a \in ps, b \in ps : p = new(a) /\ q = new(b)
    BY <1>10
  <2>2. new(a).at \subseteq Envs \X Places
    BY <1>1, PageParts
  <2>3. PICK d \in Envs, xa \in Places : x = <<d, xa>>
    BY <2>1, <2>2
  <2> QED BY ONLY <2>1, <2>3, <1>11, x \in p.at, x \in q.at
<1>13. PagesOK(qs)
  BY <1>1, <1>4, <1>5, <1>10, <1>12 DEF PagesOK
<1>14. \A d, c, xa, ya :
          Same(qs, d, xa, c, ya) <=> \E q \in ps : <<d, xa>> \in new(q).at /\ <<c, ya>> \in new(q).at
  BY <1>9, <1>10 DEF Same
<1>15. \A d, c, xa, ya :
                 Same(qs, d, xa, c, ya) <=>
                    \/ Same(ps, d, xa, c, ya)
                    \/ Holds(ps, e, va) /\ d = f /\ xa = wa /\ (Same(ps, e, va, c, ya) \/ (c = f /\ ya = wa))
                    \/ Holds(ps, e, va) /\ c = f /\ ya = wa /\ Same(ps, e, va, d, xa)
  <2> TAKE d, c, xa, ya
  <2>1. Same(qs, d, xa, c, ya) => 
                    \/ Same(ps, d, xa, c, ya)
                    \/ Holds(ps, e, va) /\ d = f /\ xa = wa /\ (Same(ps, e, va, c, ya) \/ (c = f /\ ya = wa))
                    \/ Holds(ps, e, va) /\ c = f /\ ya = wa /\ Same(ps, e, va, d, xa)
    <3> SUFFICES ASSUME NEW q \in ps, <<d, xa>> \in new(q).at, <<c, ya>> \in new(q).at
                 PROVE  \/ Same(ps, d, xa, c, ya)
                        \/ Holds(ps, e, va) /\ d = f /\ xa = wa /\ (Same(ps, e, va, c, ya) \/ (c = f /\ ya = wa))
                        \/ Holds(ps, e, va) /\ c = f /\ ya = wa /\ Same(ps, e, va, d, xa)
      BY <1>14
    <3>1. \/ <<d, xa>> \in q.at
          \/ <<e, va>> \in q.at /\ d = f /\ xa = wa
      BY <1>6
    <3>2. \/ <<c, ya>> \in q.at
          \/ <<e, va>> \in q.at /\ c = f /\ ya = wa
      BY <1>6
    <3> QED BY ONLY <3>1, <3>2, q \in ps DEF Same, Holds
  <2> SUFFICES ASSUME \/ Same(ps, d, xa, c, ya)
                      \/ Holds(ps, e, va) /\ d = f /\ xa = wa /\ (Same(ps, e, va, c, ya) \/ (c = f /\ ya = wa))
                      \/ Holds(ps, e, va) /\ c = f /\ ya = wa /\ Same(ps, e, va, d, xa)
               PROVE  \E q \in ps : <<d, xa>> \in new(q).at /\ <<c, ya>> \in new(q).at
    BY <2>1, <1>14
  <2>2. CASE Same(ps, d, xa, c, ya)
    BY <2>2, <1>6 DEF Same
  <2>3. CASE Holds(ps, e, va) /\ d = f /\ xa = wa /\ (Same(ps, e, va, c, ya) \/ (c = f /\ ya = wa))
    BY <2>3, <1>6 DEF Same, Holds
  <2>4. CASE Holds(ps, e, va) /\ c = f /\ ya = wa /\ Same(ps, e, va, d, xa)
    BY <2>4, <1>6 DEF Same, Holds
  <2> QED BY <2>2, <2>3, <2>4
<1>16. \A d, xa :
                 Holds(qs, d, xa) <=> Holds(ps, d, xa) \/ (Holds(ps, e, va) /\ d = f /\ xa = wa)
  <2> TAKE d, xa
  <2>1. Holds(qs, d, xa) <=> \E q \in ps : <<d, xa>> \in new(q).at
    BY <1>9, <1>10 DEF Holds
  <2> QED BY <2>1, <1>6 DEF Holds
<1>17. \A d, xa, u :
                 Content(qs, d, xa, u) <=>
                    IF Same(ps, e, va, d, xa) \/ (Holds(ps, e, va) /\ d = f /\ xa = wa)
                      THEN Content(ps, e, va, u)
                      ELSE Content(ps, d, xa, u)
  <2> TAKE d, xa, u
  <2>1. Content(qs, d, xa, u) <=> \E q \in ps : <<d, xa>> \in new(q).at /\ new(q).data = u
    BY <1>9, <1>10 DEF Content
  <2>2. CASE ~(Same(ps, e, va, d, xa) \/ (Holds(ps, e, va) /\ d = f /\ xa = wa))
    <3>1. \A q \in ps : <<d, xa>> \in new(q).at => <<d, xa>> \in q.at /\ <<e, va>> \notin q.at
      BY <2>2, <1>6 DEF Same, Holds
    <3>2. \A q \in ps : <<d, xa>> \in q.at => <<d, xa>> \in new(q).at /\ new(q).data = q.data
      BY <2>2, <1>6 DEF Same, Holds
    <3> QED BY <2>1, <2>2, <3>1, <3>2 DEF Content
  <2>3. CASE Same(ps, e, va, d, xa) \/ (Holds(ps, e, va) /\ d = f /\ xa = wa)
    <3>1. PICK q \in ps : <<e, va>> \in q.at
      BY <2>3 DEF Same, Holds
    <3>2. <<d, xa>> \in new(q).at
      BY <2>3, <3>1, <1>6, <1>7 DEF Same, Holds
    <3>3. Content(qs, d, xa, u) <=> new(q).data = u
      BY <2>1, <3>2, <1>11
    <3>4. Content(ps, e, va, u) <=> q.data = u
      BY <3>1, <1>7 DEF Content
    <3> QED BY <2>3, <3>1, <3>3, <3>4, <1>6
  <2> QED BY <2>2, <2>3
<1> QED BY <1>13, <1>15, <1>16, <1>17

(* The pages after a store to the one of <<e, va>>. *)
LEMMA StoredPage ==
    ASSUME NEW ps, PagesOK(ps), NEW e \in Envs, NEW va \in Places, NEW v \in Values, NEW qs,
           qs = {IF <<e, va>> \in q.at THEN [at |-> q.at, data |-> v] ELSE q : q \in ps}
    PROVE  /\ PagesOK(qs)
           /\ \A d, c, xa, ya : Same(qs, d, xa, c, ya) <=> Same(ps, d, xa, c, ya)
           /\ \A d, xa : Holds(qs, d, xa) <=> Holds(ps, d, xa)
           /\ \A d, xa, u : Content(qs, d, xa, u) <=>
                 IF Same(ps, e, va, d, xa) THEN u = v ELSE Content(ps, d, xa, u)
<1> DEFINE new(q) == IF <<e, va>> \in q.at THEN [at |-> q.at, data |-> v] ELSE q
           g == [q \in ps |-> new(q)]
<1>1. \A q \in ps : q \in Page /\ q.at # {} /\ new(q) \in Page /\ new(q).at = q.at
  BY PageParts, PageIs DEF PagesOK
<1>2. g \in [ps -> Page] /\ qs = {g[x] : x \in ps}
  BY <1>1
<1>3. IsFiniteSet(ps) /\ Cardinality(ps) <= MaxPages
  BY DEF PagesOK
<1>4. IsFiniteSet(qs) /\ Cardinality(qs) <= Cardinality(ps)
  <2> HIDE DEF g
  <2>1. IsFiniteSet({g[x] : x \in ps}) /\ Cardinality({g[x] : x \in ps}) <= Cardinality(ps)
    BY ONLY <1>2, <1>3, ImageOfPages
  <2> QED BY ONLY <1>2, <2>1
<1>5. Cardinality(qs) <= MaxPages
  BY <1>3, <1>4, FS_CardinalityType, CowForkAssumption
<1>6. \A q \in ps : new(q).data = IF <<e, va>> \in q.at THEN v ELSE q.data
  OBVIOUS
<1>7. \A p, q \in ps : \A x : x \in p.at /\ x \in q.at => p = q
  BY DEF PagesOK, Disjoint
<1>8. qs = {new(q) : q \in ps}
  OBVIOUS
<1> HIDE DEF new
<1>9. \A q \in ps : new(q) \in qs
  BY <1>8
<1>10. \A p \in qs : \E q \in ps : p = new(q)
  BY <1>8
<1>11. Disjoint(qs)
  <2> SUFFICES ASSUME NEW p \in qs, NEW q \in qs, NEW x, x \in p.at, x \in q.at PROVE p = q
    BY DEF Disjoint
  <2>1. PICK a \in ps, b \in ps : p = new(a) /\ q = new(b)
    BY <1>10
  <2> QED BY <2>1, <1>1, <1>7
<1>12. PagesOK(qs)
  BY <1>1, <1>4, <1>5, <1>10, <1>11 DEF PagesOK
<1>13. \A d, c, xa, ya : Same(qs, d, xa, c, ya) <=> Same(ps, d, xa, c, ya)
  BY ONLY <1>1, <1>9, <1>10 DEF Same
<1>14. \A d, xa : Holds(qs, d, xa) <=> Holds(ps, d, xa)
  BY ONLY <1>1, <1>9, <1>10 DEF Holds
<1>15. \A d, xa, u : Content(qs, d, xa, u) <=>
                 IF Same(ps, e, va, d, xa) THEN u = v ELSE Content(ps, d, xa, u)
  <2> TAKE d, xa, u
  <2>1. Content(qs, d, xa, u) <=> \E q \in ps : <<d, xa>> \in q.at /\ new(q).data = u
    BY ONLY <1>1, <1>9, <1>10 DEF Content
  <2>2. CASE ~Same(ps, e, va, d, xa)
    BY ONLY <1>6, <2>1, <2>2 DEF Same, Content
  <2>3. CASE Same(ps, e, va, d, xa)
    BY ONLY <1>6, <1>7, <2>1, <2>3 DEF Same, Content
  <2> QED BY <2>2, <2>3
<1> QED BY <1>12, <1>13, <1>14, <1>15

-----------------------------------------------------------------------------
(* What the memory operators do.                                             *)

(* To share a page is an equivalence on the places that have one.            *)
LEMMA SharingIs ==
    ASSUME NEW ps, PagesOK(ps)
    PROVE  /\ \A d, c, xa, ya : Same(ps, d, xa, c, ya) => Same(ps, c, ya, d, xa)
           /\ \A d, c, xa, ya : Same(ps, d, xa, c, ya) => Holds(ps, d, xa) /\ Holds(ps, c, ya)
           /\ \A d, xa : Holds(ps, d, xa) => Same(ps, d, xa, d, xa) /\ d \in Envs /\ xa \in Places
           /\ \A d, c, b, xa, ya, za : Same(ps, d, xa, c, ya) /\ Same(ps, c, ya, b, za) => Same(ps, d, xa, b, za)
<1>1. \A p, q \in ps : \A x : x \in p.at /\ x \in q.at => p = q
  BY DEF PagesOK, Disjoint
<1>2. \A p \in ps : p.at \subseteq Envs \X Places
  BY PageParts DEF PagesOK
<1>3. \A d, xa : Holds(ps, d, xa) => Same(ps, d, xa, d, xa) /\ d \in Envs /\ xa \in Places
  BY <1>2 DEF Same, Holds
<1>4. \A d, c, b, xa, ya, za : Same(ps, d, xa, c, ya) /\ Same(ps, c, ya, b, za) => Same(ps, d, xa, b, za)
  BY <1>1 DEF Same
<1> QED BY <1>3, <1>4 DEF Same, Holds

(* A place that has a page has one content, the same for all that share it.  *)
LEMMA ContentIs ==
    ASSUME NEW ps, PagesOK(ps)
    PROVE  /\ \A d, xa, v : Content(ps, d, xa, v) => Holds(ps, d, xa) /\ v \in Values
           /\ \A d, xa : Holds(ps, d, xa) => \E v \in Values : Content(ps, d, xa, v)
           /\ \A d, xa, u, v : Content(ps, d, xa, u) /\ Content(ps, d, xa, v) => u = v
           /\ \A d, c, xa, ya, v : Same(ps, d, xa, c, ya) =>
                                      (Content(ps, d, xa, v) <=> Content(ps, c, ya, v))
<1>1. \A p, q \in ps : \A x : x \in p.at /\ x \in q.at => p = q
  BY DEF PagesOK, Disjoint
<1>2. \A p \in ps : p.data \in Values
  BY PageParts DEF PagesOK
<1>3. \A d, c, xa, ya, v : Same(ps, d, xa, c, ya) =>
                                      (Content(ps, d, xa, v) <=> Content(ps, c, ya, v))
  BY <1>1 DEF Same, Content
<1> QED BY <1>1, <1>2, <1>3 DEF Holds, Content

(* The page and the content of a place that is mapped. *)
LEMMA PageIsUnique ==
    ASSUME MemoryOK, NEW e \in Envs, NEW va, Mapped(e, va)
    PROVE  /\ va \in Places /\ Holds(pages, e, va) /\ perm[e][va] \in Perms
           /\ PageAt(e, va) \in pages /\ <<e, va>> \in PageAt(e, va).at
           /\ \A p \in pages : <<e, va>> \in p.at => p = PageAt(e, va)
           /\ Data(e, va) \in Values /\ \A v : Content(pages, e, va, v) <=> v = Data(e, va)
           /\ \A c \in Envs : \A wa : Mapped(c, wa) =>
                 (PageAt(e, va) = PageAt(c, wa) <=> Same(pages, e, va, c, wa))
<1>1. \A d \in Envs : \A xa : Mapped(d, xa) => xa \in Places /\ perm[d][xa] \in Perms
  BY DEF MemoryOK, Mapped
<1>2. \A d \in Envs : \A xa : Mapped(d, xa) => Holds(pages, d, xa)
  BY <1>1 DEF MemoryOK
<1>3. \A d \in Envs : \A xa : Mapped(d, xa) => PageAt(d, xa) \in pages /\ <<d, xa>> \in PageAt(d, xa).at
  BY <1>2 DEF Holds, PageAt
<1>4. \A p, q \in pages : \A x : x \in p.at /\ x \in q.at => p = q
  BY DEF MemoryOK, PagesOK, Disjoint
<1>5. \A p \in pages : p.data \in Values
  BY PageParts DEF MemoryOK, PagesOK
<1>6. \A v : Content(pages, e, va, v) <=> v = Data(e, va)
  BY <1>3, <1>4 DEF Content, Data
<1>7. ASSUME NEW c \in Envs, NEW wa, Mapped(c, wa)
      PROVE  PageAt(e, va) = PageAt(c, wa) <=> Same(pages, e, va, c, wa)
  BY <1>3, <1>4, <1>7 DEF Same
<1> QED BY <1>1, <1>2, <1>3, <1>4, <1>5, <1>6, <1>7 DEF Data

----------------------------------------------------------------------------
(* The effects of the operations on memory. *)

PermsOf == UNION {[D -> Perms] : D \in SUBSET Places}

(* The permissions after With().                                             *)
LEMMA Bound ==
    ASSUME perm \in [Envs -> PermsOf], NEW e \in Envs, NEW va \in Places, NEW p \in Perms,
           perm' = [perm EXCEPT ![e] = With(@, va, p)]
    PROVE  /\ perm' \in [Envs -> PermsOf]
           /\ DOMAIN perm'[e] = (DOMAIN perm[e]) \union {va}
           /\ perm'[e][va] = p /\ \A a \in (DOMAIN perm[e]) \ {va} : perm'[e][a] = perm[e][a]
           /\ \A d \in Envs \ {e} : perm'[d] = perm[d]
<1>1. perm[e] \in PermsOf
  OBVIOUS
<1>2. PICK D \in SUBSET Places : perm[e] \in [D -> Perms]
  BY <1>1 DEF PermsOf
<1>3. perm'[e] = [a \in D \union {va} |-> IF a = va THEN p ELSE perm[e][a]]
  BY <1>2 DEF With
<1>4. perm'[e] \in [D \union {va} -> Perms] /\ D \union {va} \in SUBSET Places
  BY <1>2, <1>3
<1>5. perm'[e] \in PermsOf
  BY <1>4 DEF PermsOf
<1>6. perm' \in [Envs -> PermsOf] /\ \A d \in Envs \ {e} : perm'[d] = perm[d]
  BY <1>5
<1> QED BY <1>2, <1>3, <1>6

(* The permissions after Dropped().                                          *)
LEMMA Unbound ==
    ASSUME perm \in [Envs -> PermsOf], NEW e \in Envs, NEW va,
           perm' = [perm EXCEPT ![e] = Dropped(@, va)]
    PROVE  /\ perm' \in [Envs -> PermsOf]
           /\ DOMAIN perm'[e] = (DOMAIN perm[e]) \ {va}
           /\ \A a \in (DOMAIN perm[e]) \ {va} : perm'[e][a] = perm[e][a]
           /\ \A d \in Envs \ {e} : perm'[d] = perm[d]
<1>1. perm[e] \in PermsOf
  OBVIOUS
<1>2. PICK D \in SUBSET Places : perm[e] \in [D -> Perms]
  BY <1>1 DEF PermsOf
<1>3. perm'[e] = [a \in D \ {va} |-> perm[e][a]]
  BY <1>2 DEF Dropped
<1>4. perm'[e] \in [D \ {va} -> Perms] /\ D \ {va} \in SUBSET Places
  BY <1>2, <1>3
<1>5. perm'[e] \in PermsOf
  BY <1>4 DEF PermsOf
<1>6. perm' \in [Envs -> PermsOf] /\ \A d \in Envs \ {e} : perm'[d] = perm[d]
  BY <1>5
<1> QED BY <1>2, <1>3, <1>6

Binds(e, va, p) ==
    /\ DOMAIN perm'[e] = (DOMAIN perm[e]) \union {va}
    /\ perm'[e][va] = p /\ \A a \in (DOMAIN perm[e]) \ {va} : perm'[e][a] = perm[e][a]
    /\ \A d \in Envs \ {e} : perm'[d] = perm[d]

(* What sys_page_alloc() does to who shares and who holds what.              *)
LEMMA AllocEffect ==
    ASSUME MemoryOK, NEW e \in Envs, NEW va \in Places, NEW p \in Perms,
           ~NoMemory, Alloc(e, va, p)
    PROVE  /\ MemoryOK' /\ Binds(e, va, p)
           /\ \A d, c, xa, ya : Same(pages', d, xa, c, ya) <=>
                 \/ Same(pages, d, xa, c, ya) /\ ~(d = e /\ xa = va) /\ ~(c = e /\ ya = va)
                 \/ d = e /\ xa = va /\ c = e /\ ya = va
           /\ \A d, xa, v : Content(pages', d, xa, v) <=>
                 IF d = e /\ xa = va THEN v = 0 ELSE Content(pages, d, xa, v)
<1> DEFINE ps == Without(pages, {<<e, va>>})
<1>1. PagesOK(pages) /\ perm \in [Envs -> PermsOf]
  BY DEF MemoryOK, PermsOf
<1>2. /\ PagesOK(ps) /\ Cardinality(ps) <= Cardinality(pages)
      /\ \A d, c, xa, ya : Same(ps, d, xa, c, ya) <=>
            Same(pages, d, xa, c, ya) /\ ~(d = e /\ xa = va) /\ ~(c = e /\ ya = va)
      /\ \A d, xa : Holds(ps, d, xa) <=> Holds(pages, d, xa) /\ ~(d = e /\ xa = va)
      /\ \A d, xa, v : Content(ps, d, xa, v) <=> Content(pages, d, xa, v) /\ ~(d = e /\ xa = va)
  <2>1. \A d, xa : <<d, xa>> \in {<<e, va>>} <=> d = e /\ xa = va
    OBVIOUS
  <2>2. /\ PagesOK(ps) /\ Cardinality(ps) <= Cardinality(pages)
        /\ \A d, c, xa, ya :
              /\ Same(ps, d, xa, c, ya) <=>
                     Same(pages, d, xa, c, ya) /\ <<d, xa>> \notin {<<e, va>>} /\ <<c, ya>> \notin {<<e, va>>}
              /\ Holds(ps, d, xa) <=> Holds(pages, d, xa) /\ <<d, xa>> \notin {<<e, va>>}
        /\ \A d, xa, v : Content(ps, d, xa, v) <=> Content(pages, d, xa, v) /\ <<d, xa>> \notin {<<e, va>>}
    BY ONLY <1>1, WithoutPages
  <2> QED BY <2>1, <2>2
<1> HIDE DEF ps
<1>3. Cardinality(ps) < MaxPages
  <2>1. IsFiniteSet(ps) /\ IsFiniteSet(pages) /\ Cardinality(ps) \in Nat /\ Cardinality(pages) \in Nat
    BY <1>1, <1>2, FS_CardinalityType DEF PagesOK
  <2>2. Cardinality(pages) < MaxPages
    BY <2>1, CowForkAssumption DEF NoMemory
  <2> QED BY <1>2, <2>1, <2>2, CowForkAssumption
<1>4. pages' = ps \union {[at |-> {<<e, va>>}, data |-> 0]}
  BY DEF Alloc, ps
<1>5. /\ PagesOK(pages')
      /\ \A d, c, xa, wa :
            Same(pages', d, xa, c, wa) <=> Same(ps, d, xa, c, wa) \/ (d = e /\ c = e /\ xa = va /\ wa = va)
      /\ \A d, xa : Holds(pages', d, xa) <=> Holds(ps, d, xa) \/ (d = e /\ xa = va)
      /\ \A d, xa, v : Content(pages', d, xa, v) <=>
                    Content(ps, d, xa, v) \/ (d = e /\ xa = va /\ v = 0)
  <2>1. ~Holds(ps, e, va)
    BY <1>2
  <2> QED BY ONLY <1>2, <1>3, <1>4, <2>1, AddedPage, e \in Envs, va \in Places, SMTT(30)
<1>6. perm' \in [Envs -> PermsOf] /\ Binds(e, va, p)
  BY <1>1, Bound DEF Alloc, Binds
<1>7. \A d \in Envs, xa \in Places : Mapped(d, xa)' <=> Holds(pages', d, xa)
  BY <1>2, <1>5, <1>6 DEF MemoryOK, Mapped, Binds
<1>8. MemoryOK'
  BY <1>5, <1>6, <1>7 DEF MemoryOK, PermsOf
<1> QED BY <1>2, <1>5, <1>6, <1>8

(* What sys_page_map() does.                                                 *)
LEMMA MapEffect ==
    ASSUME MemoryOK, NEW s \in Envs, NEW va \in Places, NEW f \in Envs, NEW wa \in Places,
           NEW p \in Perms, Mapped(s, va), Map(s, va, f, wa, p)
    PROVE  /\ MemoryOK' /\ Binds(f, wa, p)
           /\ \A d, c, xa, ya : Same(pages', d, xa, c, ya) <=>
                 IF d = f /\ xa = wa THEN Same(pages, s, va, c, ya) \/ (c = f /\ ya = wa)
                 ELSE IF c = f /\ ya = wa THEN Same(pages, s, va, d, xa)
                 ELSE Same(pages, d, xa, c, ya)
           /\ \A d, xa, v : Content(pages', d, xa, v) <=>
                 IF d = f /\ xa = wa THEN Content(pages, s, va, v) ELSE Content(pages, d, xa, v)
<1> DEFINE X == {<<f, wa>>} \ {<<s, va>>}
           ps == Without(pages, X)
<1>1. PagesOK(pages) /\ perm \in [Envs -> PermsOf] /\ Holds(pages, s, va)
  BY DEF MemoryOK, PermsOf
<1>2. \A d, xa : <<d, xa>> \in X <=> d = f /\ xa = wa /\ ~(s = f /\ va = wa)
  OBVIOUS
<1>3. /\ PagesOK(ps)
      /\ \A d, c, xa, ya : Same(ps, d, xa, c, ya) <=>
            Same(pages, d, xa, c, ya) /\ <<d, xa>> \notin X /\ <<c, ya>> \notin X
      /\ \A d, xa : Holds(ps, d, xa) <=> Holds(pages, d, xa) /\ <<d, xa>> \notin X
      /\ \A d, xa, v : Content(ps, d, xa, v) <=> Content(pages, d, xa, v) /\ <<d, xa>> \notin X
  <2> HIDE DEF X
  <2> QED BY ONLY <1>1, WithoutPages
<1>4. pages' = Shared(ps, s, va, f, wa)
  <2>1. \A q \in ps : [q EXCEPT !.at = @ \union {<<f, wa>>}] = [at |-> q.at \union {<<f, wa>>}, data |-> q.data]
    BY <1>3, PageParts DEF PagesOK
  <2>2. pages' = {IF <<s, va>> \in q.at THEN [q EXCEPT !.at = @ \union {<<f, wa>>}] ELSE q : q \in ps}
    BY DEF Map
  <2> HIDE DEF ps
  <2> QED BY <2>1, <2>2 DEF Shared
<1> HIDE DEF X, ps
<1>5. Holds(ps, s, va) /\ (Holds(ps, f, wa) => Same(ps, s, va, f, wa))
  <2>1. Holds(ps, s, va)
    BY <1>1, <1>2, <1>3
  <2>2. Holds(ps, f, wa) => s = f /\ va = wa
    BY <1>2, <1>3
  <2> QED BY <1>3, <2>1, <2>2, SharingIs
<1>6. /\ PagesOK(pages')
      /\ \A d, c, xa, ya :
                 Same(pages', d, xa, c, ya) <=>
                    \/ Same(ps, d, xa, c, ya)
                    \/ Holds(ps, s, va) /\ d = f /\ xa = wa /\ (Same(ps, s, va, c, ya) \/ (c = f /\ ya = wa))
                    \/ Holds(ps, s, va) /\ c = f /\ ya = wa /\ Same(ps, s, va, d, xa)
      /\ \A d, xa :
                 Holds(pages', d, xa) <=> Holds(ps, d, xa) \/ (Holds(ps, s, va) /\ d = f /\ xa = wa)
      /\ \A d, xa, u :
                 Content(pages', d, xa, u) <=>
                    IF Same(ps, s, va, d, xa) \/ (Holds(ps, s, va) /\ d = f /\ xa = wa)
                      THEN Content(ps, s, va, u)
                      ELSE Content(ps, d, xa, u)
  BY ONLY <1>3, <1>4, <1>5, SharedPage, s \in Envs, va \in Places, f \in Envs, wa \in Places
<1>7. \A d, c, xa, ya : Same(pages', d, xa, c, ya) <=>
                 IF d = f /\ xa = wa THEN Same(pages, s, va, c, ya) \/ (c = f /\ ya = wa)
                 ELSE IF c = f /\ ya = wa THEN Same(pages, s, va, d, xa)
                 ELSE Same(pages, d, xa, c, ya)
  <2> TAKE d, c, xa, ya
  <2>3. Same(pages', d, xa, c, ya) <=>
            \/ Same(ps, d, xa, c, ya)
            \/ d = f /\ xa = wa /\ (Same(ps, s, va, c, ya) \/ (c = f /\ ya = wa))
            \/ c = f /\ ya = wa /\ Same(ps, s, va, d, xa)
    BY ONLY <1>5, <1>6
  <2>1. CASE s = f /\ va = wa
    <3>1. Same(ps, d, xa, c, ya) <=> Same(pages, d, xa, c, ya)
      BY <1>2, <1>3, <2>1
    <3>2. Same(ps, s, va, c, ya) <=> Same(pages, s, va, c, ya)
      BY <1>2, <1>3, <2>1
    <3>3. Same(ps, s, va, d, xa) <=> Same(pages, s, va, d, xa)
      BY <1>2, <1>3, <2>1
    <3>4. Same(pages, s, va, s, va) /\ (Same(pages, s, va, d, xa) <=> Same(pages, d, xa, s, va))
      BY <1>1, SharingIs
    <3> QED BY ONLY <2>3, <2>1, <3>1, <3>2, <3>3, <3>4
  <2>2. CASE ~(s = f /\ va = wa)
    <3>1. Same(ps, d, xa, c, ya) <=>
             Same(pages, d, xa, c, ya) /\ ~(d = f /\ xa = wa) /\ ~(c = f /\ ya = wa)
      BY <1>2, <1>3, <2>2
    <3>2. Same(ps, s, va, c, ya) <=> Same(pages, s, va, c, ya) /\ ~(c = f /\ ya = wa)
      BY <1>2, <1>3, <2>2
    <3>3. Same(ps, s, va, d, xa) <=> Same(pages, s, va, d, xa) /\ ~(d = f /\ xa = wa)
      BY <1>2, <1>3, <2>2
    <3>5. CASE d = f /\ xa = wa
      BY ONLY <2>3, <2>2, <3>1, <3>2, <3>3, <3>5
    <3>6. CASE c = f /\ ya = wa /\ ~(d = f /\ xa = wa)
      BY ONLY <2>3, <2>2, <3>1, <3>2, <3>3, <3>6
    <3>7. CASE ~(c = f /\ ya = wa) /\ ~(d = f /\ xa = wa)
      BY ONLY <2>3, <2>2, <3>1, <3>2, <3>3, <3>7
    <3> QED BY <3>5, <3>6, <3>7
  <2> QED BY <2>1, <2>2
<1>8. \A d, xa, v : Content(pages', d, xa, v) <=>
                 IF d = f /\ xa = wa THEN Content(pages, s, va, v) ELSE Content(pages, d, xa, v)
  BY <1>1, <1>2, <1>3, <1>5, <1>6, ContentIs, ZenonT(30)
<1>9. perm' \in [Envs -> PermsOf] /\ Binds(f, wa, p)
  BY <1>1, Bound DEF Map, Binds
<1>10. \A d \in Envs, xa \in Places : Mapped(d, xa)' <=> Holds(pages', d, xa)
  <2> SUFFICES ASSUME NEW d \in Envs, NEW xa \in Places
               PROVE  Mapped(d, xa)' <=> Holds(pages', d, xa)
    OBVIOUS
  <2>1. Holds(pages', d, xa) <=> Holds(pages, d, xa) \/ (d = f /\ xa = wa)
    BY <1>1, <1>2, <1>3, <1>5, <1>6
  <2>2. Mapped(d, xa)' <=> Mapped(d, xa) \/ (d = f /\ xa = wa)
    BY <1>9 DEF Mapped, Binds
  <2> QED BY <2>1, <2>2 DEF MemoryOK
<1>11. MemoryOK'
  BY <1>4, <1>6, <1>9, <1>10 DEF MemoryOK, PermsOf
<1> QED BY <1>4, <1>7, <1>8, <1>9, <1>11

(* What sys_page_unmap() does.                                               *)
LEMMA UnmapEffect ==
    ASSUME MemoryOK, NEW e \in Envs, NEW va \in Places, Unmap(e, va)
    PROVE  /\ MemoryOK'
           /\ DOMAIN perm'[e] = (DOMAIN perm[e]) \ {va}
           /\ \A a \in (DOMAIN perm[e]) \ {va} : perm'[e][a] = perm[e][a]
           /\ \A d \in Envs \ {e} : perm'[d] = perm[d]
           /\ \A d, c, xa, ya : Same(pages', d, xa, c, ya) <=>
                 Same(pages, d, xa, c, ya) /\ ~(d = e /\ xa = va) /\ ~(c = e /\ ya = va)
           /\ \A d, xa, v : Content(pages', d, xa, v) <=>
                 Content(pages, d, xa, v) /\ ~(d = e /\ xa = va)
<1>1. PagesOK(pages) /\ perm \in [Envs -> PermsOf]
  BY DEF MemoryOK, PermsOf
<1>2. \A d, xa : <<d, xa>> \in {<<e, va>>} <=> d = e /\ xa = va
  OBVIOUS
<1>3. /\ PagesOK(pages')
      /\ \A d, c, xa, ya : Same(pages', d, xa, c, ya) <=>
            Same(pages, d, xa, c, ya) /\ ~(d = e /\ xa = va) /\ ~(c = e /\ ya = va)
      /\ \A d, xa : Holds(pages', d, xa) <=> Holds(pages, d, xa) /\ ~(d = e /\ xa = va)
      /\ \A d, xa, v : Content(pages', d, xa, v) <=> Content(pages, d, xa, v) /\ ~(d = e /\ xa = va)
  <2>1. pages' = Without(pages, {<<e, va>>})
    BY DEF Unmap
  <2>2. /\ PagesOK(pages')
        /\ \A d, c, xa, ya :
              /\ Same(pages', d, xa, c, ya) <=>
                     Same(pages, d, xa, c, ya) /\ <<d, xa>> \notin {<<e, va>>} /\ <<c, ya>> \notin {<<e, va>>}
              /\ Holds(pages', d, xa) <=> Holds(pages, d, xa) /\ <<d, xa>> \notin {<<e, va>>}
        /\ \A d, xa, v : Content(pages', d, xa, v) <=> Content(pages, d, xa, v) /\ <<d, xa>> \notin {<<e, va>>}
    BY ONLY <1>1, <2>1, WithoutPages
  <2> QED BY <1>2, <2>2
<1>4. /\ perm' \in [Envs -> PermsOf]
      /\ DOMAIN perm'[e] = (DOMAIN perm[e]) \ {va}
      /\ \A a \in (DOMAIN perm[e]) \ {va} : perm'[e][a] = perm[e][a]
      /\ \A d \in Envs \ {e} : perm'[d] = perm[d]
  BY <1>1, Unbound DEF Unmap
<1>5. \A d \in Envs, xa \in Places : Mapped(d, xa)' <=> Holds(pages', d, xa)
  BY <1>3, <1>4 DEF MemoryOK, Mapped
<1> QED BY <1>3, <1>4, <1>5 DEF MemoryOK, PermsOf

(* What a write of memory does.                                              *)
LEMMA StoreEffect ==
    ASSUME MemoryOK, NEW e \in Envs, NEW va \in Places, NEW v \in Values, Store(e, va, v)
    PROVE  /\ MemoryOK' /\ perm' = perm
           /\ \A d, c, xa, ya : Same(pages', d, xa, c, ya) <=> Same(pages, d, xa, c, ya)
           /\ \A d, xa, u : Content(pages', d, xa, u) <=>
                 IF Same(pages, e, va, d, xa) THEN u = v ELSE Content(pages, d, xa, u)
<1>1. PagesOK(pages) /\ perm' = perm
  BY DEF MemoryOK, Store
<1>2. pages' = {IF <<e, va>> \in q.at THEN [at |-> q.at, data |-> v] ELSE q : q \in pages}
  <2>1. \A q \in pages : [q EXCEPT !.data = v] = [at |-> q.at, data |-> v]
    BY <1>1, PageParts DEF PagesOK
  <2> QED BY <2>1 DEF Store
<1>3. /\ PagesOK(pages')
      /\ \A d, c, xa, ya : Same(pages', d, xa, c, ya) <=> Same(pages, d, xa, c, ya)
      /\ \A d, xa : Holds(pages', d, xa) <=> Holds(pages, d, xa)
      /\ \A d, xa, u : Content(pages', d, xa, u) <=>
            IF Same(pages, e, va, d, xa) THEN u = v ELSE Content(pages, d, xa, u)
  BY ONLY <1>1, <1>2, StoredPage, e \in Envs, va \in Places, v \in Values, SMTT(30)
<1>4. MemoryOK'
  BY <1>1, <1>3 DEF MemoryOK, Mapped
<1> QED BY <1>1, <1>3, <1>4

(* What env_free() does to the memory of the others: nothing.                *)
LEMMA DestroyEffect ==
    ASSUME MemoryOK, NEW e \in Envs, Destroy(e)
    PROVE  /\ MemoryOK'
           /\ DOMAIN perm'[e] = {} /\ \A d \in Envs \ {e} : perm'[d] = perm[d]
           /\ \A d, c, xa, ya : Same(pages', d, xa, c, ya) <=>
                 Same(pages, d, xa, c, ya) /\ d # e /\ c # e
           /\ \A d, xa, v : Content(pages', d, xa, v) <=> Content(pages, d, xa, v) /\ d # e
<1> DEFINE X == {<<e, va>> : va \in DOMAIN perm[e]}
<1>1. PagesOK(pages) /\ perm \in [Envs -> PermsOf]
  BY DEF MemoryOK, PermsOf
<1>2. \A d, xa : Holds(pages, d, xa) => (<<d, xa>> \in X <=> d = e)
  <2>1. \A d, xa : <<d, xa>> \in X <=> d = e /\ Mapped(e, xa)
    BY DEF Mapped
  <2> QED BY <1>1, <2>1, SharingIs DEF MemoryOK
<1>3. pages' = Without(pages, X)
  BY DEF Destroy
<1> HIDE DEF X
<1>4. /\ PagesOK(pages')
      /\ \A d, c, xa, ya : Same(pages', d, xa, c, ya) <=>
            Same(pages, d, xa, c, ya) /\ <<d, xa>> \notin X /\ <<c, ya>> \notin X
      /\ \A d, xa : Holds(pages', d, xa) <=> Holds(pages, d, xa) /\ <<d, xa>> \notin X
      /\ \A d, xa, v : Content(pages', d, xa, v) <=> Content(pages, d, xa, v) /\ <<d, xa>> \notin X
  BY <1>1, <1>3, WithoutPages
<1>5. /\ \A d, c, xa, ya : Same(pages', d, xa, c, ya) <=>
                 Same(pages, d, xa, c, ya) /\ d # e /\ c # e
      /\ \A d, xa, v : Content(pages', d, xa, v) <=> Content(pages, d, xa, v) /\ d # e
      /\ \A d, xa : Holds(pages', d, xa) <=> Holds(pages, d, xa) /\ d # e
  BY <1>1, <1>2, <1>4, SharingIs, ContentIs, ZenonT(30)
<1>6. NoPages \in PermsOf /\ DOMAIN NoPages = {}
  <2>1. NoPages \in [{} -> Perms] /\ {} \in SUBSET Places
    BY DEF NoPages
  <2> QED BY <2>1 DEF PermsOf
<1>7. /\ perm' \in [Envs -> PermsOf] /\ DOMAIN perm'[e] = {}
      /\ \A d \in Envs \ {e} : perm'[d] = perm[d]
  BY <1>1, <1>6 DEF Destroy
<1>8. \A d \in Envs, xa \in Places : Mapped(d, xa)' <=> Holds(pages', d, xa)
  BY <1>5, <1>7 DEF MemoryOK, Mapped
<1> QED BY <1>4, <1>5, <1>7, <1>8 DEF MemoryOK, PermsOf

-----------------------------------------------------------------------------
(* Where programs can be.                                                    *)

(* The addresses of the loop come once each, and the three kinds are         *)
(* disjoint.                                                                 *)
LEMMA Addresses ==
    /\ Len(VaSeq) \in Nat /\ \A i \in 1..Len(VaSeq) : VaSeq[i] \in Vas
    /\ \A va \in Vas : \E i \in 1..Len(VaSeq) : VaSeq[i] = va
    /\ \A i, j \in 1..Len(VaSeq) : VaSeq[i] = VaSeq[j] => i = j
    /\ UXSTACK \in Vas /\ TEMP \notin Vas /\ Stack \in Shown /\ Stack \notin ReadOnly
    /\ Vas \subseteq Places /\ TEMP \in Places /\ Shown \subseteq Vas /\ UXSTACK \notin Shown
<1>1. VaSeq \in Seq(Vas) /\ IsInjective(VaSeq) /\ Stack \in Vas \ {UXSTACK} /\ Stack \notin ReadOnly
      /\ UXSTACK = Last(VaSeq) /\ TEMP \notin Vas
  BY CowForkAssumption DEF Vas
<1>2. Vas = {VaSeq[i] : i \in 1..Len(VaSeq)} /\ DOMAIN VaSeq = 1..Len(VaSeq) /\ Len(VaSeq) \in Nat
  BY <1>1 DEF Vas, ToSet
<1>3. 1 <= Len(VaSeq)
  BY <1>1, <1>2
<1>4. UXSTACK \in Vas
  BY <1>1, <1>2, <1>3 DEF Last
<1> QED BY <1>1, <1>2, <1>4 DEF IsInjective, Places, Shown

Pcs == {"out", "exofork", "scan"} \union Mapping \union Late

(* Where fork() can be.                                                      *)
LEMMA ForkIs ==
    ASSUME PcOK, NEW e \in Envs
    PROVE  /\ fork[e].pc \in Pcs
           /\ fork[e].pc = "out" <=> fork[e] = Idle
           /\ fork[e].pc \notin {"out", "exofork"} =>
                 /\ fork[e] \in Making
                 /\ fork[e].child \in Envs /\ fork[e].i \in 1..(Len(VaSeq) + 1) /\ fork[e].pte \in Perms
                 /\ fork[e] = [pc |-> fork[e].pc, child |-> fork[e].child, i |-> fork[e].i, pte |-> fork[e].pte]
<1>1. fork[e] \in {Idle, [pc |-> "exofork"]} \union Making
  BY DEF PcOK
<1>2. CASE fork[e] = Idle
  BY <1>2 DEF Idle, Pcs
<1>3. CASE fork[e] = [pc |-> "exofork"]
  BY <1>3 DEF Idle, Pcs
<1>4. CASE fork[e] \in Making
  <2>1. fork[e].pc \in {"scan"} \union Mapping \union Late /\ fork[e].child \in Envs
        /\ fork[e].i \in 1..(Len(VaSeq) + 1) /\ fork[e].pte \in Perms
    BY <1>4 DEF Making
  <2>2. fork[e] = [pc |-> fork[e].pc, child |-> fork[e].child, i |-> fork[e].i, pte |-> fork[e].pte]
    BY <1>4 DEF Making
  <2>3. fork[e].pc \notin {"out", "exofork"}
    BY <2>1 DEF Mapping, Late
  <2>4. fork[e] # Idle
    BY <2>3 DEF Idle
  <2> QED BY <1>4, <2>1, <2>2, <2>3, <2>4 DEF Pcs
<1> QED BY <1>1, <1>2, <1>3, <1>4

(* Where pgfault() can be.                                                   *)
LEMMA FaultIs ==
    ASSUME PcOK, NEW e \in Envs
    PROVE  /\ fault[e].pc \in {"out", "panicked", "alloc", "copy", "map", "unmap"}
           /\ fault[e].pc = "out" <=> fault[e] = Idle
           /\ fault[e].pc \notin {"out", "panicked"} =>
                 fault[e].va \in Vas /\ fault[e] = [pc |-> fault[e].pc, va |-> fault[e].va]
<1>1. fault[e] \in {Idle, [pc |-> "panicked"]} \union Handled
  BY DEF PcOK
<1>2. CASE fault[e] = Idle
  BY <1>2 DEF Idle
<1>3. CASE fault[e] = [pc |-> "panicked"]
  BY <1>3 DEF Idle
<1>4. CASE fault[e] \in Handled
  <2>1. fault[e].pc \in {"alloc", "copy", "map", "unmap"} /\ fault[e].va \in Vas
        /\ fault[e] = [pc |-> fault[e].pc, va |-> fault[e].va]
    BY <1>4 DEF Handled
  <2>2. fault[e] # Idle
    BY <2>1 DEF Idle
  <2> QED BY <2>1, <2>2
<1> QED BY <1>1, <1>2, <1>3, <1>4

(* Only mapped places share, and to share is an equivalence.                 *)
LEMMA SharingIsOfMapped ==
    ASSUME MemoryOK
    PROVE  /\ \A d, c, xa, ya : Same(pages, d, xa, c, ya) =>
                 /\ Same(pages, c, ya, d, xa) /\ d \in Envs /\ c \in Envs
                 /\ Mapped(d, xa) /\ Mapped(c, ya)
           /\ \A d, c, b, xa, ya, za : Same(pages, d, xa, c, ya) /\ Same(pages, c, ya, b, za) =>
                                           Same(pages, d, xa, b, za)
           /\ \A d \in Envs : \A xa : Mapped(d, xa) => /\ xa \in Places /\ Same(pages, d, xa, d, xa)
                                                       /\ perm[d][xa] \in Perms
<1>1. PagesOK(pages)
  BY DEF MemoryOK
<1>2. \A d \in Envs : \A xa : Mapped(d, xa) => xa \in Places /\ perm[d][xa] \in Perms
  BY DEF MemoryOK, Mapped
<1>3. \A d \in Envs, xa \in Places : Mapped(d, xa) <=> Holds(pages, d, xa)
  BY DEF MemoryOK
<1> QED BY <1>1, <1>2, <1>3, SharingIs

(* The loop of fork() moves on.                                              *)
LEMMA Moves ==
    ASSUME PcOK, NEW e \in Envs, NEW pc, NEW i, NEW pte, Loop(e, pc, i, pte)
    PROVE  /\ fork'[e] = [pc |-> pc, child |-> Child(e), i |-> i, pte |-> pte]
           /\ \A d \in Envs \ {e} : fork'[d] = fork[d]
           /\ Child(e)' = Child(e) /\ Va(e)' = VaSeq[i]
           /\ \A d \in Envs \ {e} : Forking(d)' = Forking(d)
           /\ fork' = [fork EXCEPT ![e] = [pc |-> pc, child |-> Child(e), i |-> i, pte |-> pte]]
<1>1. DOMAIN fork = Envs
  BY DEF PcOK
<1> QED BY <1>1 DEF Loop, Child, Va, Forking

-----------------------------------------------------------------------------
(* The parts of the invariant.                                               *)

(* Nothing happens to d. *)
Untouched(d) ==
    /\ state'[d] = state[d] /\ perm'[d] = perm[d] /\ upcall'[d] = upcall[d]
    /\ unlucky'[d] = unlucky[d] /\ fork'[d] = fork[d] /\ fault'[d] = fault[d]

(* The invariant, part by part.                                              *)
LEMMA Parts ==
    ASSUME CowInv
    PROVE  /\ MemoryOK /\ FlagsOK /\ PcOK /\ LifeOK /\ TempOK /\ Exclusive
           /\ \A e \in Envs : Reads(e) /\ Stacks(e) /\ Mends(e) /\ Gives(e) /\ Faults(e)
BY DEF CowInv, LocalOK

(* What is about d stays true if nothing of d or of its child changes.       *)
LEMMA Frame ==
    ASSUME NEW d \in Envs, LocalOK(d), Untouched(d), eager' = eager, \A c \in Forking(d) : Untouched(c)
    PROVE  LocalOK(d)'
<1>1. Reads(d) /\ Stacks(d) /\ Mends(d) /\ Gives(d) /\ Faults(d)
  BY DEF LocalOK
<1>2. Forking(d)' = Forking(d) /\ Va(d)' = Va(d) /\ (\A a : Mapped(d, a)' <=> Mapped(d, a))
      /\ \A c \in Forking(d) : \A a : Mapped(c, a)' <=> Mapped(c, a)
  BY DEF Untouched, Forking, Va, Mapped
<1>3. Reads(d)'
  BY <1>1, <1>2 DEF Untouched, Reads
<1>4. Stacks(d)'
  BY <1>1, <1>2 DEF Untouched, Stacks
<1>5. Mends(d)'
  BY <1>1, <1>2 DEF Untouched, Mends
<1>6. Gives(d)'
  BY <1>1, <1>2 DEF Untouched, Gives, Given
<1>7. Faults(d)'
  BY <1>1, <1>2 DEF Untouched, Faults
<1> QED BY <1>3, <1>4, <1>5, <1>6, <1>7 DEF LocalOK

(* A parent lives, its child does not yet.                                   *)
LEMMA ForkingIs ==
    ASSUME CowInv, NEW d \in Envs, NEW c \in Forking(d)
    PROVE  /\ c \in Envs /\ c = Child(d) /\ state[c] = "embryo" /\ state[d] = "alive"
           /\ fork[d].pc \notin {"out", "exofork"}
<1>1. fork[d].pc \notin {"out", "exofork"} /\ c = Child(d)
  BY DEF Forking, Child
<1>2. c \in Envs /\ fork[d] # Idle
  BY <1>1, Parts, ForkIs DEF Child
<1> QED BY <1>1, <1>2, Parts DEF LifeOK

(* A step of e disturbs nobody but e and perhaps its child. *)
LEMMA OnlyItself ==
    ASSUME CowInv, NEW e \in Envs, state[e] = "alive", eager' = eager,
           \A d \in Envs : d # e => Untouched(d)
    PROVE  \A d \in Envs : d # e => LocalOK(d)'
<1> SUFFICES ASSUME NEW d \in Envs, d # e PROVE LocalOK(d)'
  OBVIOUS
<1>1. \A c \in Forking(d) : c \in Envs /\ c # e
  BY ForkingIs
<1>2. \A c \in Forking(d) : Untouched(c)
  BY <1>1
<1> QED BY <1>2, Frame DEF CowInv

(* A step of e and of its child leaves all others as they were.              *)
LEMMA OthersLocal ==
    ASSUME CowInv, NEW e \in Envs, state[e] = "alive", eager' = eager,
           \A d \in Envs : d # e /\ d \notin Forking(e) => Untouched(d)
    PROVE  \A d \in Envs : d # e /\ d \notin Forking(e) => LocalOK(d)'
<1> SUFFICES ASSUME NEW d \in Envs, d # e, d \notin Forking(e) PROVE LocalOK(d)'
  OBVIOUS
<1>1. LocalOK(d) /\ LifeOK
  BY DEF CowInv
<1>2. ASSUME NEW c \in Forking(d) PROVE Untouched(c)
  <2>1. c \in Envs
    BY <1>2, ForkingIs
  <2>2. c # e /\ c \notin Forking(e)
    BY <1>1, <1>2, <2>1 DEF LifeOK
  <2> QED BY <2>1, <2>2
<1> QED BY <1>1, <1>2, Frame

(* What is enough for an environment that does not run yet.                  *)
LEMMA ChildLocal ==
    ASSUME NEW c \in Envs, fork'[c] = Idle, fault'[c] = Idle, Stacks(c)', state'[c] # "alive",
           upcall'[c] => Mapped(c, UXSTACK)', ~Mapped(c, TEMP)'
    PROVE  LocalOK(c)'
<1>1. fork'[c].pc = "out" /\ fault'[c].pc = "out" /\ Forking(c)' = {}
  BY DEF Idle, Forking
<1> QED BY <1>1 DEF LocalOK, Reads, Mends, Gives, Faults, Mapping, Late

(* Nobody is created, started or destroyed.                                  *)
LEMMA LifeGoesOn ==
    ASSUME CowInv, state' = state, \A d \in Envs : Forking(d)' = Forking(d),
           \A d \in Envs : state[d] # "alive" => fork'[d] = fork[d] /\ fault'[d] = fault[d],
           \A d \in Envs : state[d] = "free" => perm'[d] = perm[d]
    PROVE  LifeOK'
BY DEF CowInv, LifeOK

(* What is known of the child of e. *)
LEMMA ChildIs ==
    ASSUME CowInv, NEW e \in Envs, fork[e].pc \notin {"out", "exofork"}
    PROVE  /\ Child(e) \in Envs /\ Child(e) # e /\ Forking(e) = {Child(e)}
           /\ state[Child(e)] = "embryo" /\ fork[Child(e)] = Idle /\ fault[Child(e)] = Idle
           /\ ~Mapped(Child(e), TEMP) /\ state[e] = "alive"
<1>1. Child(e) \in Envs /\ Forking(e) = {Child(e)} /\ fork[e] # Idle
  BY Parts, ForkIs DEF Child, Forking
<1>2. state[Child(e)] = "embryo" /\ state[e] = "alive"
  BY <1>1, Parts DEF LifeOK
<1>3. fork[Child(e)] = Idle /\ fault[Child(e)] = Idle
  BY <1>1, <1>2, Parts DEF LifeOK
<1>4. ~Mapped(Child(e), TEMP)
  BY <1>1, <1>3, Parts DEF Faults, Idle
<1> QED BY <1>1, <1>2, <1>3, <1>4

(* Nobody else writes to what one that is alive can see. *)
LEMMA AliveShares ==
    ASSUME CowInv, NEW e \in Envs, state[e] = "alive", NEW va \in Shown
    PROVE  /\ \A d \in Envs, xa \in Shown : Same(pages, d, xa, e, va) /\ perm[d][xa] = "W" =>
                 d = e /\ xa = va
           /\ \A d \in Envs : Same(pages, d, TEMP, e, va) => d = e /\ fault[e].pc = "unmap" /\ va = fault[e].va
<1>1. \A d \in Envs : fork[d].pc \notin {"out", "exofork"} => Child(d) # e
  BY ChildIs
<1>2. va \in Places /\ va # TEMP
  BY Addresses
<1> QED BY <1>1, <1>2, Parts DEF TempOK, Exclusive

(* The page that the loop of fork() is at. *)
LEMMA ScannedIs ==
    ASSUME CowInv, NEW e \in Envs, fork[e].pc \in Mapping
    PROVE  /\ fork[e].i \in 1..Len(VaSeq) /\ fork[e].pte \in Perms
           /\ Va(e) \in Shown /\ Va(e) \in Vas /\ Va(e) \in Places
           /\ Va(e) # TEMP /\ Va(e) # UXSTACK /\ Mapped(e, Va(e))
<1>1. fork[e].i \in 1..(Len(VaSeq) + 1) /\ fork[e].pte \in Perms
  BY Parts, ForkIs DEF Mapping
<1>2. fork[e].i <= Len(VaSeq) /\ Va(e) # UXSTACK /\ Mapped(e, Va(e))
  BY Parts DEF Reads
<1>3. fork[e].i \in 1..Len(VaSeq)
  BY <1>1, <1>2, Addresses
<1>4. Va(e) \in Vas
  BY <1>3, Addresses DEF Va
<1> QED BY <1>1, <1>2, <1>3, <1>4, Addresses DEF Shown

-----------------------------------------------------------------------------
(* The steps, one lemma for each: its parts are the parts of the invariant.  *)

(* DuppageChild preserves the invariant: if the page can be written by the   *)
(* parent it is the next entry to change, which is Exclusive's exception.    *)
LEMMA DuppageChildInv ==
    ASSUME CowInv, NEW e \in Envs, DuppageChild(e) PROVE CowInv'
<1> PICK c, va : c = Child(e) /\ va = Va(e)
  OBVIOUS
<1> DEFINE copies == Private(fork[e].pte) /\ ~eager
           p == IF copies THEN "COW" ELSE "RO"
           q == IF copies THEN "map_parent" ELSE "scan"
           i == IF copies THEN fork[e].i ELSE fork[e].i + 1
           t == IF copies THEN fork[e].pte ELSE "RO"
<1>1. /\ state[e] = "alive" /\ fault[e] = Idle /\ fork[e].pc = "map_child"
      /\ UNCHANGED <<state, upcall, unlucky, eager, fault>>
      /\ Map(e, va, c, va, p) /\ Loop(e, q, i, t)
  BY DEF DuppageChild, ForkAt, Executes, Quiet, GoTo, NextPage
<1>2. /\ c \in Envs /\ c # e /\ Forking(e) = {c} /\ state[c] = "embryo"
      /\ fork[c] = Idle /\ fault[c] = Idle /\ ~Mapped(c, TEMP)
  BY <1>1, ChildIs
<1>3. /\ fork[e].i \in 1..Len(VaSeq) /\ va \in Shown /\ Mapped(e, va) /\ fork[e].pte \in Perms
      /\ va \in Places /\ va # TEMP /\ va # UXSTACK
  <2>1. fork[e].i \in 1..Len(VaSeq) /\ va # UXSTACK /\ Mapped(e, va) /\ fork[e].pte \in Perms
    <3>1. fork[e].i \in 1..(Len(VaSeq) + 1) /\ fork[e].pte \in Perms
      BY <1>1, Parts, ForkIs
    <3>2. fork[e].i <= Len(VaSeq) /\ va # UXSTACK /\ Mapped(e, va)
      BY <1>1, Parts DEF Reads, Mapping
    <3> QED BY <3>1, <3>2, Addresses
  <2>2. va \in Vas
    BY <2>1, Addresses DEF Va
  <2> QED BY <2>1, <2>2, Addresses DEF Shown
<1>4. /\ MemoryOK' /\ Binds(c, va, p)
      /\ \A d, b, xa, ya : Same(pages', d, xa, b, ya) <=>
            IF d = c /\ xa = va THEN Same(pages, e, va, b, ya) \/ (b = c /\ ya = va)
            ELSE IF b = c /\ ya = va THEN Same(pages, e, va, d, xa)
            ELSE Same(pages, d, xa, b, ya)
      /\ \A d, xa, v : Content(pages', d, xa, v) <=>
            IF d = c /\ xa = va THEN Content(pages, e, va, v) ELSE Content(pages, d, xa, v)
  BY <1>1, <1>2, <1>3, Parts, MapEffect DEF Perms
<1>5. /\ fork'[e] = [pc |-> q, child |-> c, i |-> i, pte |-> t]
      /\ \A d \in Envs \ {e} : fork'[d] = fork[d] /\ Forking(d)' = Forking(d)
      /\ Child(e)' = c /\ Va(e)' = VaSeq[i] /\ Forking(e)' = {c}
      /\ fork' = [fork EXCEPT ![e] = [pc |-> q, child |-> c, i |-> i, pte |-> t]]
  BY <1>1, Parts, Moves DEF Forking
<1>6. /\ eager => ~copies
      /\ ~copies => perm[e][va] # "W"
      /\ va = Stack /\ ~eager => copies
      /\ p \in Perms /\ p # "W" /\ i \in 1..(Len(VaSeq) + 1) /\ t \in Perms
      /\ q = "map_parent" <=> copies
      /\ p = "COW" <=> copies
      /\ q \in {"map_parent", "scan"}
  BY <1>1, <1>3, Parts, Addresses DEF Reads, Private, Perms
<1>7. \A d \in Envs : \A xa : Mapped(d, xa)' <=> Mapped(d, xa) \/ (d = c /\ xa = va)
  BY <1>2, <1>4 DEF Binds, Mapped
<1>8. perm'[e] = perm[e] /\ fork'[c] = Idle /\ fault'[c] = Idle
  BY <1>1, <1>2, <1>4, <1>5 DEF Binds
<1> HIDE DEF p, q, i, t
<1>9. FlagsOK' /\ PcOK'
  <2>1. [pc |-> q, child |-> c, i |-> i, pte |-> t] \in Making
    BY <1>2, <1>6 DEF Making, Mapping
  <2> QED BY <1>1, <1>5, <2>1, Parts DEF FlagsOK, PcOK
<1>10. LifeOK'
  BY <1>1, <1>2, <1>4, <1>5, LifeGoesOn DEF Binds
<1>11. LocalOK(c)'
  <2>1. Stacks(c)'
    BY <1>1, <1>2, <1>3, <1>4, <1>6, <1>7, Parts DEF Stacks, Binds, Mapped, p
  <2>2. upcall'[c] => Mapped(c, UXSTACK)'
    BY <1>1, <1>2, <1>7, Parts DEF Mends
  <2> QED BY <1>1, <1>2, <1>3, <1>7, <1>8, <2>1, <2>2, ChildLocal
<1>12. LocalOK(e)'
  <2>1. Reads(e)'
    BY <1>1, <1>3, <1>5, <1>6, <1>7, Parts DEF Reads, Mapping, Late, i, Va
  <2>2. Stacks(e)'
    BY <1>1, <1>2, <1>7, <1>8, Parts DEF Stacks
  <2>3. Mends(e)'
    BY <1>1, <1>2, <1>3, <1>5, <1>6, <1>7, <1>8, Parts DEF Mends
  <2>4. Gives(e)'
    <3>1. \A a \in Shown : Given(e, a)' <=> Given(e, a) \/ a = va
      BY <1>1, <1>3, <1>5, <1>6, Addresses, SMTT(30) DEF Given, Va, i, q
    <3> QED BY <1>2, <1>3, <1>5, <1>6, <1>7, <3>1, Parts, SMTT(30) DEF Gives
  <2>5. Faults(e)'
    BY <1>1, <1>2, <1>5, <1>6, <1>7, <1>8, Parts DEF Faults, Idle
  <2> QED BY <2>1, <2>2, <2>3, <2>4, <2>5 DEF LocalOK
<1>13. \A d \in Envs : d # e /\ d # c => Untouched(d) /\ LocalOK(d)'
  <2>1. \A d \in Envs : d # e /\ d # c => Untouched(d)
    BY <1>1, <1>4, <1>5 DEF Binds, Untouched
  <2> QED BY <1>1, <1>2, <2>1, OthersLocal
<1>14. \A d \in Envs, xa \in Shown : Same(pages, d, xa, e, va) /\ perm[d][xa] = "W" => d = e /\ xa = va
  BY <1>1, <1>3, AliveShares
<1>15. \A d \in Envs : ~Same(pages, d, TEMP, e, va) /\ ~Same(pages, e, va, d, TEMP)
  BY <1>1, <1>3, AliveShares, Parts, SharingIsOfMapped DEF Idle
<1>16. TempOK'
  <2>1. \A d \in Envs : fork'[d].pc \in {"v0_copy", "v0_unmap"} =>
                           d # e /\ fork[d] = fork'[d]
    BY <1>5, <1>6
  <2>2. \A d \in Envs : fork[d].pc \in {"v0_copy", "v0_unmap"} => d # e /\ fork'[d] = fork[d]
    BY <1>1, <1>5
  <2>3. \A d, b \in Envs : \A ya \in Places : Same(pages', d, TEMP, b, ya) => Same(pages, d, TEMP, b, ya)
    BY <1>3, <1>4, <1>15
  <2>4. \A d \in Envs : fault[d].pc = "map" => d # c /\ d # e
    BY <1>1, <1>2 DEF Idle
  <2>5. \A d, b \in Envs : \A wa \in Places : Same(pages', d, TEMP, b, wa) =>
             \/ b = d /\ wa = TEMP
             \/ fault'[d].pc = "unmap" /\ b = d /\ wa = fault'[d].va
             \/ fork'[d].pc \in {"v0_copy", "v0_unmap"} /\ b = Child(d)' /\ wa = Va(d)'
    BY <1>1, <2>2, <2>3, Parts DEF TempOK, Child, Va
  <2>6. \A d \in Envs : fork'[d].pc = "v0_copy" => Same(pages', d, TEMP, Child(d)', Va(d)')
    <3> SUFFICES ASSUME NEW d \in Envs, fork'[d].pc = "v0_copy" PROVE Same(pages', d, TEMP, Child(d)', Va(d)')
      OBVIOUS
    <3>1. d # e /\ fork[d].pc = "v0_copy" /\ Child(d)' = Child(d) /\ Va(d)' = Va(d)
      BY <2>1 DEF Child, Va
    <3>2. Child(d) # c
      BY <1>2, <3>1, ChildIs, Parts DEF LifeOK
    <3>3. Same(pages, d, TEMP, Child(d), Va(d))
      BY <3>1, Parts DEF TempOK
    <3> QED BY <1>3, <1>4, <3>1, <3>2, <3>3
  <2>7. \A d \in Envs : fault'[d].pc = "map" =>
          \A v \in Values : Content(pages', d, TEMP, v) <=> Content(pages', d, fault'[d].va, v)
    BY <1>1, <1>4, <2>4, Parts DEF TempOK
  <2> QED BY <2>5, <2>6, <2>7 DEF TempOK
<1>17. Exclusive'
  <2> SUFFICES ASSUME NEW d \in Envs, NEW b \in Envs, NEW xa \in Shown, NEW ya \in Shown,
                      Same(pages', d, xa, b, ya), perm'[d][xa] = "W"
               PROVE  \/ d = b /\ xa = ya
                      \/ fork'[d].pc = "map_parent" /\ b = Child(d)' /\ xa = Va(d)' /\ ya = xa
    BY DEF Exclusive
  <2>1. ~(d = c /\ xa = va)
    BY <1>4, <1>6 DEF Binds
  <2>2. perm[d][xa] = "W"
    BY <1>4, <1>7, <2>1, SharingIsOfMapped, Parts DEF Binds, Mapped
  <2>3. CASE b = c /\ ya = va
    <3>1. Same(pages, d, xa, e, va)
      BY <1>4, <2>1, <2>3, SharingIsOfMapped, Parts
    <3>2. d = e /\ xa = va
      BY <1>14, <2>2, <3>1
    <3>3. copies
      BY <1>6, <2>2, <3>2
    <3> QED BY <1>5, <2>3, <3>2, <3>3, <1>6 DEF i, Va
  <2>4. CASE ~(b = c /\ ya = va)
    <3>1. Same(pages, d, xa, b, ya)
      BY <1>4, <2>1, <2>4
    <3>2. \/ d = b /\ xa = ya
          \/ fork[d].pc = "map_parent" /\ b = Child(d) /\ xa = Va(d) /\ ya = xa
      BY <2>2, <3>1, Parts DEF Exclusive
    <3>3. fork[d].pc = "map_parent" => Child(d)' = Child(d) /\ Va(d)' = Va(d) /\ fork'[d].pc = "map_parent"
      BY <1>1, <1>5 DEF Child, Va
    <3> QED BY <3>2, <3>3
  <2> QED BY <2>3, <2>4
<1>18. \A d \in Envs : LocalOK(d)'
  BY <1>11, <1>12, <1>13
<1> QED BY <1>4, <1>9, <1>10, <1>16, <1>17, <1>18 DEF CowInv

(* The handler moves on.                                                     *)
LEMMA FaultMoves ==
    ASSUME PcOK, NEW e \in Envs, fault[e].pc \notin {"out", "panicked"}, NEW pc, FaultAt(e, pc)
    PROVE  /\ fault'[e] = [pc |-> pc, va |-> fault[e].va]
           /\ \A d \in Envs \ {e} : fault'[d] = fault[d]
           /\ fault' = [fault EXCEPT ![e] = [pc |-> pc, va |-> fault[e].va]]
<1>1. DOMAIN fault = Envs
  BY DEF PcOK
<1>2. fault[e] = [pc |-> fault[e].pc, va |-> fault[e].va]
  BY FaultIs
<1>3. [fault[e] EXCEPT !.pc = pc] = [pc |-> pc, va |-> fault[e].va]
  BY <1>2
<1> QED BY <1>1, <1>3 DEF FaultAt

(* Steps that leave memory alone. *)
LEMMA MemoryStays == MemoryOK /\ pages' = pages /\ perm' = perm => MemoryOK'
BY DEF MemoryOK, Mapped

(* Steps that leave the memory alone.                                        *)
LEMMA SharingStays ==
    ASSUME CowInv, pages' = pages, perm' = perm,
           \A d \in Envs : fault[d].pc = "unmap" \/ fault'[d].pc = "map" => fault'[d] = fault[d],
           \A d \in Envs : fork[d].pc \in {"v0_copy", "v0_unmap", "map_parent"} \/ fork'[d].pc = "v0_copy"
                              => fork'[d] = fork[d]
    PROVE  TempOK' /\ Exclusive' /\ MemoryOK'
<1>1. TempOK /\ Exclusive
  BY DEF CowInv
<1>2. \A d, b \in Envs : \A wa \in Places :
          Same(pages', d, TEMP, b, wa) =>
             \/ b = d /\ wa = TEMP
             \/ fault'[d].pc = "unmap" /\ b = d /\ wa = fault'[d].va
             \/ fork'[d].pc \in {"v0_copy", "v0_unmap"} /\ b = Child(d)' /\ wa = Va(d)'
  BY <1>1 DEF TempOK, Child, Va
<1>3. \A d \in Envs : fork'[d].pc = "v0_copy" => Same(pages', d, TEMP, Child(d)', Va(d)')
  BY <1>1 DEF TempOK, Child, Va
<1>4. \A d \in Envs : fault'[d].pc = "map" =>
          \A v \in Values : Content(pages', d, TEMP, v) <=> Content(pages', d, fault'[d].va, v)
  BY <1>1 DEF TempOK
<1>5. TempOK'
  BY <1>2, <1>3, <1>4 DEF TempOK
<1>6. Exclusive'
  BY <1>1 DEF Exclusive, Child, Va
<1> QED BY <1>5, <1>6, MemoryStays, Parts

(* A program that panics keeps what it has.                                  *)
LEMMA PanicInv ==
    ASSUME CowInv, NEW e \in Envs, state[e] = "alive", fault[e].pc \in {"out", "alloc"}, Panic(e)
    PROVE  CowInv'
<1>1. /\ fault'[e].pc = "panicked" /\ \A d \in Envs \ {e} : fault'[d] = fault[d]
      /\ fault' \in [Envs -> {Idle, [pc |-> "panicked"]} \union Handled]
      /\ UNCHANGED <<state, perm, pages, upcall, unlucky, eager, fork>>
  BY Parts DEF Panic, PcOK
<1>2. MemoryOK' /\ TempOK' /\ Exclusive'
  BY <1>1, SharingStays
<1>3. FlagsOK' /\ PcOK'
  BY <1>1, Parts DEF FlagsOK, PcOK
<1>4. LifeOK'
  BY <1>1, LifeGoesOn DEF Forking
<1>5. LocalOK(e)'
  <2>1. Reads(e)' /\ Stacks(e)' /\ Gives(e)'
    BY <1>1, Parts DEF Reads, Stacks, Gives, Given, Forking, Va, Mapped
  <2>2. Mends(e)' /\ Faults(e)'
    BY <1>1, Parts DEF Mends, Faults, Forking, Mapped
  <2> QED BY <2>1, <2>2 DEF LocalOK
<1>6. \A d \in Envs : d # e => LocalOK(d)'
  BY <1>1, OnlyItself DEF Untouched
<1> QED BY <1>2, <1>3, <1>4, <1>5, <1>6 DEF CowInv

(* Exit and the fault without remedy: the child, if there was one, stays an  *)
(* embryo for ever.                                                          *)
LEMMA DestroyInv ==
    ASSUME CowInv, NEW e \in Envs, state[e] = "alive", Destroy(e)
    PROVE  CowInv'
<1>1. /\ MemoryOK'
      /\ DOMAIN perm'[e] = {} /\ \A d \in Envs \ {e} : perm'[d] = perm[d]
      /\ \A d, c, xa, ya : Same(pages', d, xa, c, ya) <=>
            Same(pages, d, xa, c, ya) /\ d # e /\ c # e
      /\ \A d, xa, v : Content(pages', d, xa, v) <=> Content(pages, d, xa, v) /\ d # e
  BY Parts, DestroyEffect
<1>2. /\ state' = [state EXCEPT ![e] = "free"] /\ upcall' = [upcall EXCEPT ![e] = FALSE]
      /\ fork' = [fork EXCEPT ![e] = Idle] /\ fault' = [fault EXCEPT ![e] = Idle]
      /\ unlucky' = [unlucky EXCEPT ![e] = FALSE] /\ eager' = eager
  BY DEF Destroy
<1>3. FlagsOK' /\ PcOK'
  BY <1>2, Parts DEF FlagsOK, PcOK
<1>4. /\ state'[e] = "free" /\ ~upcall'[e] /\ fork'[e] = Idle /\ fault'[e] = Idle
      /\ \A a : ~Mapped(e, a)'
      /\ \A d \in Envs \ {e} : Untouched(d)
  BY <1>1, <1>2, Parts DEF FlagsOK, PcOK, Untouched, Mapped
<1>5. Forking(e)' = {} /\ \A d \in Envs \ {e} : Forking(d)' = Forking(d) /\ Child(d)' = Child(d) /\ Va(d)' = Va(d)
  <2>1. Forking(e)' = {}
    BY <1>4 DEF Forking, Idle
  <2> QED BY <1>4, <2>1 DEF Forking, Untouched, Child, Va
<1>6. LifeOK'
  <2>1. \A d \in Envs \ {e} : \A c \in Forking(d) : c # e
    BY Parts DEF LifeOK
  <2>2. \A d \in Envs \ {e} : state'[d] = state[d] /\ perm'[d] = perm[d] /\ fork'[d] = fork[d] /\ fault'[d] = fault[d]
    BY <1>4 DEF Untouched
  <2>3. \A d \in Envs : \A c \in Forking(d)' : state'[c] = "embryo"
    <3> SUFFICES ASSUME NEW d \in Envs, NEW c \in Forking(d)' PROVE state'[c] = "embryo"
      OBVIOUS
    <3>1. d # e /\ c \in Forking(d)
      BY <1>5
    <3>2. c \in Envs /\ c # e /\ state[c] = "embryo"
      BY <2>1, <3>1, ForkingIs
    <3> QED BY <2>2, <3>2
  <2>4. \A d, b, c \in Envs : c \in Forking(d)' /\ c \in Forking(b)' => d = b
    BY <1>5, Parts DEF LifeOK
  <2>5. \A d \in Envs : state'[d] # "alive" => fork'[d] = Idle /\ fault'[d] = Idle
    BY <1>4, <2>2, Parts DEF LifeOK
  <2>6. \A d \in Envs : state'[d] = "free" => DOMAIN perm'[d] = {}
    BY <1>1, <2>2, Parts DEF LifeOK
  <2> QED BY <2>3, <2>4, <2>5, <2>6 DEF LifeOK
<1>7. LocalOK(e)'
  BY <1>1, <1>4, <1>5 DEF LocalOK, Reads, Stacks, Mends, Gives, Faults, Idle, Mapping, Late
<1>8. \A d \in Envs \ {e} : LocalOK(d)'
  BY <1>2, <1>4, OnlyItself
<1>9. TempOK'
  <2>1. \A d \in Envs \ {e} : fork'[d] = fork[d] /\ fault'[d] = fault[d]
    BY <1>4 DEF Untouched
  <2>2. \A d, b \in Envs : \A wa \in Places : Same(pages', d, TEMP, b, wa) =>
             \/ b = d /\ wa = TEMP
             \/ fault'[d].pc = "unmap" /\ b = d /\ wa = fault'[d].va
             \/ fork'[d].pc \in {"v0_copy", "v0_unmap"} /\ b = Child(d)' /\ wa = Va(d)'
    BY <1>1, <1>5, <2>1, Parts DEF TempOK
  <2>3. \A d \in Envs : fork'[d].pc = "v0_copy" => Same(pages', d, TEMP, Child(d)', Va(d)')
    <3> SUFFICES ASSUME NEW d \in Envs, fork'[d].pc = "v0_copy"
                 PROVE  Same(pages', d, TEMP, Child(d)', Va(d)')
      OBVIOUS
    <3>1. d # e /\ fork[d].pc = "v0_copy"
      BY <1>4, <2>1 DEF Idle
    <3>2. Child(d) # e /\ Same(pages, d, TEMP, Child(d), Va(d))
      BY <3>1, ChildIs, Parts DEF TempOK
    <3> QED BY <1>1, <1>5, <3>1, <3>2
  <2>4. \A d \in Envs : fault'[d].pc = "map" =>
          \A v \in Values : Content(pages', d, TEMP, v) <=> Content(pages', d, fault'[d].va, v)
    BY <1>1, <1>4, <2>1, Parts DEF TempOK, Idle
  <2> QED BY <2>2, <2>3, <2>4 DEF TempOK
<1>10. Exclusive'
  <2> SUFFICES ASSUME NEW d \in Envs, NEW b \in Envs, NEW xa \in Shown, NEW ya \in Shown,
                      Same(pages', d, xa, b, ya), perm'[d][xa] = "W"
               PROVE  \/ d = b /\ xa = ya
                      \/ fork'[d].pc = "map_parent" /\ b = Child(d)' /\ xa = Va(d)' /\ ya = xa
    BY DEF Exclusive
  <2>1. d # e /\ Same(pages, d, xa, b, ya) /\ perm[d][xa] = "W" /\ fork'[d] = fork[d]
    BY <1>1, <1>4 DEF Untouched
  <2> QED BY <1>5, <2>1, Parts DEF Exclusive
<1>11. \A d \in Envs : LocalOK(d)'
  BY <1>7, <1>8
<1> QED BY <1>1, <1>3, <1>6, <1>9, <1>10, <1>11 DEF CowInv

(* A write reaches nobody who would notice.                                  *)
LEMMA WriteInv ==
    ASSUME CowInv, NEW e \in Envs, NEW va \in Vas, NEW v \in Values, Write(e, va, v)
    PROVE  CowInv'
<1>1. /\ state[e] = "alive" /\ fault[e] = Idle /\ perm[e][va] = "W" /\ va \in Shown /\ va \in Places
      /\ Store(e, va, v) /\ UNCHANGED <<state, upcall, unlucky, eager, fork, fault>>
  BY Addresses DEF Write, MayWrite, Executes, Shown
<1>2. /\ MemoryOK' /\ perm' = perm
      /\ \A d, c, xa, ya : Same(pages', d, xa, c, ya) <=> Same(pages, d, xa, c, ya)
      /\ \A d, xa, u : Content(pages', d, xa, u) <=>
            IF Same(pages, e, va, d, xa) THEN u = v ELSE Content(pages, d, xa, u)
  BY <1>1, Parts, StoreEffect
<1>3. FlagsOK' /\ PcOK'
  BY <1>1, Parts DEF FlagsOK, PcOK
<1>4. LifeOK'
  BY <1>1, <1>2, LifeGoesOn DEF Forking
<1>5. \A d \in Envs : LocalOK(d)'
  BY <1>1, <1>2, Frame DEF Untouched, CowInv
<1>6. Exclusive'
  BY <1>1, <1>2, Parts DEF Exclusive, Child, Va
<1>7. \A d \in Envs : fault[d].pc = "map" =>
         ~Same(pages, e, va, d, TEMP) /\ ~Same(pages, e, va, d, fault[d].va)
  <2> SUFFICES ASSUME NEW d \in Envs, fault[d].pc = "map"
               PROVE  ~Same(pages, e, va, d, TEMP) /\ ~Same(pages, e, va, d, fault[d].va)
    OBVIOUS
  <2>1. state[d] = "alive" /\ d # e /\ fault[d].va \in Shown
    BY <1>1, Parts, FaultIs DEF LifeOK, Faults, Shown, Idle
  <2> QED BY <1>1, <2>1, AliveShares, SharingIsOfMapped, Parts
<1>8. TempOK'
  <2>1. \A d, b \in Envs : \A wa \in Places : Same(pages', d, TEMP, b, wa) =>
             \/ b = d /\ wa = TEMP
             \/ fault'[d].pc = "unmap" /\ b = d /\ wa = fault'[d].va
             \/ fork'[d].pc \in {"v0_copy", "v0_unmap"} /\ b = Child(d)' /\ wa = Va(d)'
    BY <1>1, <1>2, Parts DEF TempOK, Child, Va
  <2>2. \A d \in Envs : fork'[d].pc = "v0_copy" => Same(pages', d, TEMP, Child(d)', Va(d)')
    BY <1>1, <1>2, Parts DEF TempOK, Child, Va
  <2>3. \A d \in Envs : fault'[d].pc = "map" =>
          \A u \in Values : Content(pages', d, TEMP, u) <=> Content(pages', d, fault'[d].va, u)
    BY <1>1, <1>2, <1>7, Parts DEF TempOK
  <2> QED BY <2>1, <2>2, <2>3 DEF TempOK
<1> QED BY <1>2, <1>3, <1>4, <1>5, <1>6, <1>8 DEF CowInv

(* A page fault goes to the handler or ends the program.                     *)
LEMMA PageFaultInv ==
    ASSUME CowInv, NEW e \in Envs, NEW va \in Vas, PageFault(e, va)
    PROVE  CowInv'
<1>1. /\ state[e] = "alive" /\ fault[e] = Idle /\ Mapped(e, va) /\ (fork[e] = Idle \/ va = Stack)
      /\ perm[e][va] # "W"
  BY DEF PageFault, MayWrite, Executes
<1>2. CASE ~(upcall[e] /\ Mapped(e, UXSTACK) /\ perm[e][UXSTACK] = "W")
  BY <1>1, <1>2, DestroyInv DEF PageFault
<1>3. CASE upcall[e] /\ Mapped(e, UXSTACK) /\ perm[e][UXSTACK] = "W"
  <2>1. /\ fault' = [fault EXCEPT ![e] = [pc |-> "alloc", va |-> va]]
        /\ UNCHANGED <<state, perm, pages, upcall, unlucky, eager, fork>>
    BY <1>3 DEF PageFault
  <2>2. /\ fault'[e] = [pc |-> "alloc", va |-> va] /\ \A d \in Envs \ {e} : fault'[d] = fault[d]
        /\ fault' \in [Envs -> {Idle, [pc |-> "panicked"]} \union Handled]
    BY <2>1, Parts DEF PcOK, Handled
  <2>3. MemoryOK' /\ TempOK' /\ Exclusive'
    BY <1>1, <2>1, <2>2, SharingStays DEF Idle
  <2>4. FlagsOK' /\ PcOK'
    BY <2>1, <2>2, Parts DEF FlagsOK, PcOK
  <2>5. LifeOK'
    BY <1>1, <2>1, <2>2, LifeGoesOn DEF Forking
  <2>6. LocalOK(e)'
    <3>1. Reads(e)' /\ Gives(e)' /\ Mends(e)'
      BY <2>1, Parts DEF Reads, Gives, Given, Mends, Forking, Va, Mapped
    <3>2. Stacks(e)'
      BY <1>3, <2>1, Parts DEF Stacks, Mapped
    <3>3. Faults(e)'
      BY <1>1, <1>3, <2>1, <2>2, Parts DEF Faults, Mapped, Idle
    <3> QED BY <3>1, <3>2, <3>3 DEF LocalOK
  <2>7. \A d \in Envs : d # e => LocalOK(d)'
    BY <1>1, <2>1, <2>2, OnlyItself DEF Untouched
  <2> QED BY <2>3, <2>4, <2>5, <2>6, <2>7 DEF CowInv
<1> QED BY <1>2, <1>3

(* Who handles a page fault did not call fork_v0().                          *)
LEMMA NotEager ==
    ASSUME CowInv, NEW e \in Envs, fault[e].pc \notin {"out", "panicked"}
    PROVE  /\ ~eager /\ \A d \in Envs : fork[d].pc \notin {"v0_alloc", "v0_map", "v0_copy", "v0_unmap"}
           /\ state[e] = "alive"
BY Parts, FaultIs DEF Stacks, Reads, LifeOK

(* The page that is faulted on, and the steps of its handler. *)
LEMMA FaultedIs ==
    ASSUME CowInv, NEW e \in Envs, fault[e].pc \notin {"out", "panicked"}
    PROVE  fault[e].va \in Shown /\ fault[e].va \in Places /\ fault[e].va # TEMP /\ Mapped(e, fault[e].va)
BY Parts, FaultIs, Addresses DEF Faults, Shown

(* The handler moves on, and nothing else but the memory.                    *)
LEMMA FaultPcOK ==
    ASSUME CowInv, NEW e \in Envs, fault[e].pc \notin {"out", "panicked"},
           NEW pc \in {"alloc", "copy", "map", "unmap"}, FaultAt(e, pc), HandlerRest
    PROVE  FlagsOK' /\ PcOK'
<1>1. fault' = [fault EXCEPT ![e] = [pc |-> pc, va |-> fault[e].va]]
  BY Parts, FaultMoves
<1>2. [pc |-> pc, va |-> fault[e].va] \in Handled
  BY Parts, FaultIs DEF Handled
<1> QED BY <1>1, <1>2, Parts DEF HandlerRest, FlagsOK, PcOK

(* The handler gets its page.                                                *)
LEMMA PgfaultAllocInv ==
    ASSUME CowInv, NEW e \in Envs, PgfaultAlloc(e) PROVE CowInv'
<1>1. state[e] = "alive" /\ fault[e].pc = "alloc"
  BY DEF PgfaultAlloc, Handling
<1>2. CASE NoMemory
  BY <1>1, <1>2, PanicInv DEF PgfaultAlloc
<1>3. CASE ~NoMemory
  <2>1. /\ Alloc(e, TEMP, "W") /\ FaultAt(e, "copy") /\ HandlerRest
        /\ UNCHANGED <<state, upcall, unlucky, eager, fork>>
    BY <1>3 DEF PgfaultAlloc, HandlerRest
  <2>2. /\ MemoryOK' /\ Binds(e, TEMP, "W")
        /\ \A d, c, xa, ya : Same(pages', d, xa, c, ya) <=>
              \/ Same(pages, d, xa, c, ya) /\ ~(d = e /\ xa = TEMP) /\ ~(c = e /\ ya = TEMP)
              \/ d = e /\ xa = TEMP /\ c = e /\ ya = TEMP
        /\ \A d, xa, v : Content(pages', d, xa, v) <=>
              IF d = e /\ xa = TEMP THEN v = 0 ELSE Content(pages, d, xa, v)
    BY <1>3, <2>1, Parts, AllocEffect, Addresses DEF Perms
  <2>3. fault'[e] = [pc |-> "copy", va |-> fault[e].va] /\ \A d \in Envs \ {e} : fault'[d] = fault[d]
    BY <1>1, <2>1, Parts, FaultMoves
  <2>4. \A d \in Envs : \A xa : Mapped(d, xa)' <=> Mapped(d, xa) \/ (d = e /\ xa = TEMP)
    BY <2>2 DEF Binds, Mapped
  <2>5. FlagsOK' /\ PcOK'
    BY <1>1, <2>1, FaultPcOK
  <2>6. LifeOK'
    BY <1>1, <2>1, <2>2, <2>3, LifeGoesOn DEF Forking, Binds
  <2>7. ~eager /\ \A d \in Envs : fork[d].pc \notin {"v0_alloc", "v0_map", "v0_copy", "v0_unmap"}
    BY <1>1, NotEager
  <2>8. LocalOK(e)'
    <3>1. \A a \in Vas : (Mapped(e, a)' <=> Mapped(e, a)) /\ (Mapped(e, a) => perm'[e][a] = perm[e][a])
      BY <2>2, <2>4, Addresses DEF Binds, Mapped
    <3>2. Reads(e)'
      <4>1. fork[e].pc \in Mapping => Va(e) \in Vas
        BY ScannedIs
      <4>2. Va(e)' = Va(e)
        BY <2>1 DEF Va
      <4> QED BY <2>1, <3>1, <4>1, <4>2, Parts DEF Reads, Mapping
    <3>3. Stacks(e)'
      BY <2>1, <2>7, <3>1, Parts, Addresses DEF Stacks
    <3>4. Mends(e)'
      <4>1. \A a \in DOMAIN perm'[e] : perm'[e][a] = "COW" => a \in DOMAIN perm[e] /\ perm[e][a] = "COW"
        BY <2>2 DEF Binds
      <4> QED BY <2>1, <2>4, <4>1, Parts, ForkingIs, Addresses DEF Mends, Forking
    <3>5. Gives(e)'
      BY <2>1, <2>4, <2>7, <3>1, Parts, ForkingIs, Addresses DEF Gives, Given, Forking, Va
    <3>6. Faults(e)'
      <4>1. fault[e].va \in Vas /\ Mapped(e, fault[e].va) /\ fault[e].va # UXSTACK
            /\ perm[e][fault[e].va] # "W" /\ (fork[e] # Idle => fault[e].va = Stack)
        BY <1>1, Parts, FaultIs DEF Faults
      <4>2. Mapped(e, TEMP)'
        BY <2>4
      <4> QED BY <2>1, <2>3, <3>1, <4>1, <4>2 DEF Faults
    <3> QED BY <3>2, <3>3, <3>4, <3>5, <3>6 DEF LocalOK
  <2>9. \A d \in Envs : d # e => LocalOK(d)'
    BY <1>1, <2>1, <2>2, <2>3, OnlyItself DEF Untouched, Binds
  <2>10. TempOK'
    <3>1. \A d, b \in Envs : \A wa \in Places : Same(pages', d, TEMP, b, wa) =>
             \/ b = d /\ wa = TEMP
             \/ fault'[d].pc = "unmap" /\ b = d /\ wa = fault'[d].va
             \/ fork'[d].pc \in {"v0_copy", "v0_unmap"} /\ b = Child(d)' /\ wa = Va(d)'
      BY <1>1, <2>1, <2>2, <2>3, Parts DEF TempOK, Child, Va
    <3>2. \A d \in Envs : fork'[d].pc # "v0_copy"
      BY <2>1, <2>7
    <3>3. \A d \in Envs : fault'[d].pc = "map" =>
          \A v \in Values : Content(pages', d, TEMP, v) <=> Content(pages', d, fault'[d].va, v)
      BY <2>2, <2>3, Parts DEF TempOK
    <3> QED BY <3>1, <3>2, <3>3 DEF TempOK
  <2>11. Exclusive'
    <3>1. \A d \in Envs, xa \in Shown : \A c, ya : Same(pages', d, xa, c, ya) =>
             Same(pages, d, xa, c, ya) /\ (perm'[d][xa] = perm[d][xa])
      BY <2>2, Parts, SharingIsOfMapped, Addresses DEF Binds, Mapped
    <3> QED BY <2>1, <3>1, Parts DEF Exclusive, Child, Va
  <2> QED BY <2>2, <2>5, <2>6, <2>8, <2>9, <2>10, <2>11 DEF CowInv
<1> QED BY <1>2, <1>3

(* It copies the page that faulted: TEMP is nobody else's.                   *)
LEMMA PgfaultCopyInv ==
    ASSUME CowInv, NEW e \in Envs, PgfaultCopy(e) PROVE CowInv'
<1> PICK va, w : va = fault[e].va /\ w = Data(e, va)
  OBVIOUS
<1>1. /\ state[e] = "alive" /\ fault[e].pc = "copy" /\ Store(e, TEMP, w) /\ FaultAt(e, "map")
      /\ HandlerRest /\ UNCHANGED <<state, upcall, unlucky, eager, fork>>
  BY DEF PgfaultCopy, Handling, HandlerRest, CopyPage
<1>2. va \in Shown /\ va # TEMP /\ Mapped(e, va)
  BY <1>1, FaultedIs
<1>3. w \in Values /\ \A v : Content(pages, e, va, v) <=> v = w
  BY <1>2, Parts, PageIsUnique
<1>4. /\ MemoryOK' /\ perm' = perm
      /\ \A d, c, xa, ya : Same(pages', d, xa, c, ya) <=> Same(pages, d, xa, c, ya)
      /\ \A d, xa, u : Content(pages', d, xa, u) <=>
            IF Same(pages, e, TEMP, d, xa) THEN u = w ELSE Content(pages, d, xa, u)
  BY <1>1, <1>3, Parts, StoreEffect, Addresses
<1>5. fault'[e] = [pc |-> "map", va |-> va] /\ \A d \in Envs \ {e} : fault'[d] = fault[d]
  BY <1>1, Parts, FaultMoves
<1>6. FlagsOK' /\ PcOK'
  BY <1>1, FaultPcOK
<1>7. LifeOK'
  BY <1>1, <1>4, <1>5, LifeGoesOn DEF Forking
<1>8. ~eager /\ \A d \in Envs : fork[d].pc \notin {"v0_alloc", "v0_map", "v0_copy", "v0_unmap"}
  BY <1>1, NotEager
<1>9. LocalOK(e)'
  <2>1. Reads(e)' /\ Stacks(e)' /\ Gives(e)'
    BY <1>1, <1>4, <1>8, Parts DEF Reads, Stacks, Gives, Given, Forking, Va, Mapped
  <2>2. Mends(e)' /\ Faults(e)'
    BY <1>1, <1>4, <1>5, Parts DEF Mends, Faults, Forking, Mapped
  <2> QED BY <2>1, <2>2 DEF LocalOK
<1>10. \A d \in Envs : d # e => LocalOK(d)'
  BY <1>1, <1>4, <1>5, OnlyItself DEF Untouched
<1>11. \A d \in Envs, xa \in Places : Same(pages, e, TEMP, d, xa) <=> d = e /\ xa = TEMP
  <2>1. Mapped(e, TEMP)
    BY <1>1, Parts DEF Faults
  <2> QED BY <1>1, <1>8, <2>1, Parts, SharingIsOfMapped DEF TempOK
<1>12. TempOK'
  <2>1. \A d, b \in Envs : \A wa \in Places : Same(pages', d, TEMP, b, wa) =>
             \/ b = d /\ wa = TEMP
             \/ fault'[d].pc = "unmap" /\ b = d /\ wa = fault'[d].va
             \/ fork'[d].pc \in {"v0_copy", "v0_unmap"} /\ b = Child(d)' /\ wa = Va(d)'
    BY <1>1, <1>4, <1>5, Parts DEF TempOK, Child, Va
  <2>2. \A d \in Envs : fork'[d].pc # "v0_copy"
    BY <1>1, <1>8
  <2>3. \A d \in Envs : fault'[d].pc = "map" =>
          \A v \in Values : Content(pages', d, TEMP, v) <=> Content(pages', d, fault'[d].va, v)
    <3> SUFFICES ASSUME NEW d \in Envs, fault'[d].pc = "map", NEW v \in Values
                 PROVE  Content(pages', d, TEMP, v) <=> Content(pages', d, fault'[d].va, v)
      OBVIOUS
    <3>1. CASE d = e
      BY <1>2, <1>3, <1>4, <1>5, <1>11, <3>1, Addresses
    <3>2. CASE d # e
      <4>1. fault[d].pc = "map" /\ fault'[d] = fault[d] /\ fault[d].va \in Places
        BY <1>5, <3>2, FaultedIs
      <4>2. ~Same(pages, e, TEMP, d, TEMP) /\ ~Same(pages, e, TEMP, d, fault[d].va)
        BY <1>11, <3>2, <4>1, Addresses
      <4> QED BY <1>4, <4>1, <4>2, Parts DEF TempOK
    <3> QED BY <3>1, <3>2
  <2> QED BY <2>1, <2>2, <2>3 DEF TempOK
<1>13. Exclusive'
  BY <1>1, <1>4, Parts DEF Exclusive, Child, Va
<1> QED BY <1>4, <1>6, <1>7, <1>9, <1>10, <1>12, <1>13 DEF CowInv

(* The copy takes the place of the page, and is seen by nobody else.         *)
LEMMA PgfaultMapInv ==
    ASSUME CowInv, NEW e \in Envs, PgfaultMap(e) PROVE CowInv'
<1> PICK va : va = fault[e].va
  OBVIOUS
<1>1. /\ state[e] = "alive" /\ fault[e].pc = "map" /\ Map(e, TEMP, e, va, "W") /\ FaultAt(e, "unmap")
      /\ HandlerRest /\ UNCHANGED <<state, upcall, unlucky, eager, fork>>
  BY DEF PgfaultMap, Handling, HandlerRest
<1>2. va \in Shown /\ va \in Places /\ va # TEMP /\ Mapped(e, va) /\ Mapped(e, TEMP) /\ va # UXSTACK
  BY <1>1, FaultedIs, Parts, Addresses DEF Faults, Shown
<1>3. /\ MemoryOK' /\ Binds(e, va, "W")
      /\ \A d, b, xa, ya : Same(pages', d, xa, b, ya) <=>
            IF d = e /\ xa = va THEN Same(pages, e, TEMP, b, ya) \/ (b = e /\ ya = va)
            ELSE IF b = e /\ ya = va THEN Same(pages, e, TEMP, d, xa)
            ELSE Same(pages, d, xa, b, ya)
      /\ \A d, xa, v : Content(pages', d, xa, v) <=>
            IF d = e /\ xa = va THEN Content(pages, e, TEMP, v) ELSE Content(pages, d, xa, v)
  BY <1>1, <1>2, Parts, MapEffect, Addresses DEF Perms
<1>4. fault'[e] = [pc |-> "unmap", va |-> va] /\ \A d \in Envs \ {e} : fault'[d] = fault[d]
  BY <1>1, Parts, FaultMoves
<1>5. FlagsOK' /\ PcOK'
  BY <1>1, FaultPcOK
<1>6. LifeOK'
  BY <1>1, <1>3, <1>4, LifeGoesOn DEF Forking, Binds
<1>7. ~eager /\ \A d \in Envs : fork[d].pc \notin {"v0_alloc", "v0_map", "v0_copy", "v0_unmap"}
  BY <1>1, NotEager
<1>8. \A d \in Envs : \A a : Mapped(d, a)' <=> Mapped(d, a)
  BY <1>2, <1>3 DEF Binds, Mapped
<1>9. perm'[e][va] = "W" /\ \A a : Mapped(e, a) /\ a # va => perm'[e][a] = perm[e][a]
  BY <1>3 DEF Binds, Mapped
<1>10. LocalOK(e)'
  <2>1. Reads(e)'
    <3>1. fork[e].pc = "map_child" /\ Va(e) = va => fork[e].pte # "RO"
      BY <1>1, <1>7, Parts DEF Reads, Faults, Idle
    <3> QED BY <1>1, <1>7, <1>8, <1>9, <3>1, Parts DEF Reads, Va, Mapping
  <2>2. Stacks(e)'
    BY <1>1, <1>2, <1>7, <1>8, <1>9, Parts DEF Stacks
  <2>3. Mends(e)'
    <3>1. \A a \in DOMAIN perm'[e] : perm'[e][a] = "COW" => a \in DOMAIN perm[e] /\ perm[e][a] = "COW"
      BY <1>3 DEF Binds
    <3> QED BY <1>1, <1>8, <3>1, Parts, ForkingIs DEF Mends, Forking
  <2>4. Gives(e)'
    BY <1>1, <1>7, <1>8, Parts, ForkingIs DEF Gives, Given, Forking, Va
  <2>5. Faults(e)'
    BY <1>1, <1>4, <1>8, Parts DEF Faults
  <2> QED BY <2>1, <2>2, <2>3, <2>4, <2>5 DEF LocalOK
<1>11. \A d \in Envs : d # e => LocalOK(d)'
  BY <1>1, <1>3, <1>4, OnlyItself DEF Untouched, Binds
<1>12. \A d \in Envs, xa \in Places : Same(pages, e, TEMP, d, xa) \/ Same(pages, d, xa, e, TEMP) => d = e /\ xa = TEMP
  BY <1>1, <1>7, Parts, SharingIsOfMapped DEF TempOK
<1>13. TempOK'
  <2>1. \A d, b \in Envs : \A wa \in Places : Same(pages', d, TEMP, b, wa) =>
             \/ b = d /\ wa = TEMP
             \/ fault'[d].pc = "unmap" /\ b = d /\ wa = fault'[d].va
    <3> SUFFICES ASSUME NEW d \in Envs, NEW b \in Envs, NEW wa \in Places, Same(pages', d, TEMP, b, wa)
                 PROVE  \/ b = d /\ wa = TEMP
                        \/ fault'[d].pc = "unmap" /\ b = d /\ wa = fault'[d].va
      OBVIOUS
    <3>1. CASE b = e /\ wa = va
      BY <1>2, <1>3, <1>4, <1>12, <3>1, Addresses
    <3>2. CASE ~(b = e /\ wa = va)
      <4>1. Same(pages, d, TEMP, b, wa)
        BY <1>2, <1>3, <3>2
      <4>2. \/ b = d /\ wa = TEMP
            \/ fault[d].pc = "unmap" /\ b = d /\ wa = fault[d].va
        BY <1>7, <4>1, Parts DEF TempOK
      <4> QED BY <1>1, <1>4, <4>2
    <3> QED BY <3>1, <3>2
  <2>2. \A d \in Envs : fork'[d].pc # "v0_copy"
    BY <1>1, <1>7
  <2>3. \A d \in Envs : fault'[d].pc = "map" =>
          \A v \in Values : Content(pages', d, TEMP, v) <=> Content(pages', d, fault'[d].va, v)
    BY <1>2, <1>3, <1>4, Parts DEF TempOK
  <2> QED BY <2>1, <2>2, <2>3 DEF TempOK
<1>14. Exclusive'
  <2> SUFFICES ASSUME NEW d \in Envs, NEW b \in Envs, NEW xa \in Shown, NEW ya \in Shown,
                      Same(pages', d, xa, b, ya), perm'[d][xa] = "W"
               PROVE  \/ d = b /\ xa = ya
                      \/ fork'[d].pc = "map_parent" /\ b = Child(d)' /\ xa = Va(d)' /\ ya = xa
    BY DEF Exclusive
  <2>1. xa \in Places /\ ya \in Places /\ xa # TEMP /\ ya # TEMP
    BY Addresses
  <2>2. CASE (d = e /\ xa = va) \/ (b = e /\ ya = va)
    BY <1>3, <1>12, <2>1, <2>2
  <2>3. CASE ~(d = e /\ xa = va) /\ ~(b = e /\ ya = va)
    <3>1. Same(pages, d, xa, b, ya) /\ perm[d][xa] = "W"
      BY <1>3, <2>3, Parts, SharingIsOfMapped DEF Binds, Mapped
    <3> QED BY <1>1, <3>1, Parts DEF Exclusive, Child, Va
  <2> QED BY <2>2, <2>3
<1> QED BY <1>3, <1>5, <1>6, <1>10, <1>11, <1>13, <1>14 DEF CowInv

(* PFTEMP is free again.                                                     *)
LEMMA PgfaultUnmapInv ==
    ASSUME CowInv, NEW e \in Envs, PgfaultUnmap(e) PROVE CowInv'
<1>1. /\ state[e] = "alive" /\ fault[e].pc = "unmap" /\ Unmap(e, TEMP)
      /\ fault' = [fault EXCEPT ![e] = Idle] /\ UNCHANGED <<state, upcall, unlucky, eager, fork>>
  BY DEF PgfaultUnmap, Handling, HandlerRest
<1>2. /\ MemoryOK'
      /\ DOMAIN perm'[e] = (DOMAIN perm[e]) \ {TEMP}
      /\ \A a \in (DOMAIN perm[e]) \ {TEMP} : perm'[e][a] = perm[e][a]
      /\ \A d \in Envs \ {e} : perm'[d] = perm[d]
      /\ \A d, c, xa, ya : Same(pages', d, xa, c, ya) <=>
            Same(pages, d, xa, c, ya) /\ ~(d = e /\ xa = TEMP) /\ ~(c = e /\ ya = TEMP)
      /\ \A d, xa, v : Content(pages', d, xa, v) <=>
            Content(pages, d, xa, v) /\ ~(d = e /\ xa = TEMP)
  BY <1>1, Parts, UnmapEffect, Addresses
<1>3. fault'[e] = Idle /\ (\A d \in Envs \ {e} : fault'[d] = fault[d]) /\ FlagsOK' /\ PcOK'
  BY <1>1, Parts DEF PcOK, FlagsOK
<1>4. \A d \in Envs : \A xa : Mapped(d, xa)' <=> Mapped(d, xa) /\ ~(d = e /\ xa = TEMP)
  BY <1>2 DEF Mapped
<1>5. LifeOK'
  BY <1>1, <1>2, <1>3, LifeGoesOn DEF Forking
<1>6. ~eager /\ \A d \in Envs : fork[d].pc \notin {"v0_alloc", "v0_map", "v0_copy", "v0_unmap"}
  BY <1>1, NotEager
<1>7. LocalOK(e)'
  <2>1. \A a \in Vas : (Mapped(e, a)' <=> Mapped(e, a)) /\ (Mapped(e, a) => perm'[e][a] = perm[e][a])
    BY <1>2, <1>4, Addresses DEF Mapped
  <2>2. Reads(e)'
    <3>1. fork[e].pc \in Mapping => Va(e) \in Vas
      BY ScannedIs
    <3>2. Va(e)' = Va(e)
      BY <1>1 DEF Va
    <3> QED BY <1>1, <2>1, <3>1, <3>2, Parts DEF Reads, Mapping
  <2>3. Stacks(e)'
    BY <1>1, <1>6, <2>1, Parts, Addresses DEF Stacks
  <2>4. Mends(e)'
    <3>1. \A a \in DOMAIN perm'[e] : perm'[e][a] = "COW" => a \in DOMAIN perm[e] /\ perm[e][a] = "COW"
      BY <1>2
    <3> QED BY <1>1, <1>4, <3>1, Parts, ForkingIs, Addresses DEF Mends, Forking
  <2>5. Gives(e)'
    BY <1>1, <1>4, <1>6, <2>1, Parts, ForkingIs, Addresses DEF Gives, Given, Forking, Va
  <2>6. Faults(e)'
    BY <1>1, <1>3, <1>4, <1>6 DEF Faults, Idle
  <2> QED BY <2>2, <2>3, <2>4, <2>5, <2>6 DEF LocalOK
<1>8. \A d \in Envs : d # e => LocalOK(d)'
  BY <1>1, <1>2, <1>3, OnlyItself DEF Untouched
<1>9. TempOK'
  <2>1. \A d, b \in Envs : \A wa \in Places : Same(pages', d, TEMP, b, wa) =>
             \/ b = d /\ wa = TEMP
             \/ fault'[d].pc = "unmap" /\ b = d /\ wa = fault'[d].va
             \/ fork'[d].pc \in {"v0_copy", "v0_unmap"} /\ b = Child(d)' /\ wa = Va(d)'
    BY <1>1, <1>2, <1>3, Parts DEF TempOK, Child, Va
  <2>2. \A d \in Envs : fork'[d].pc # "v0_copy"
    BY <1>1, <1>6
  <2>3. \A d \in Envs : fault'[d].pc = "map" =>
          \A v \in Values : Content(pages', d, TEMP, v) <=> Content(pages', d, fault'[d].va, v)
    BY <1>2, <1>3, Parts DEF TempOK, Idle
  <2> QED BY <2>1, <2>2, <2>3 DEF TempOK
<1>10. Exclusive'
  <2>1. \A d \in Envs, xa \in Shown : \A c, ya : Same(pages', d, xa, c, ya) =>
             Same(pages, d, xa, c, ya) /\ (perm'[d][xa] = perm[d][xa])
    BY <1>2, Parts, SharingIsOfMapped, Addresses DEF Mapped
  <2> QED BY <1>1, <2>1, Parts DEF Exclusive, Child, Va
<1> QED BY <1>2, <1>3, <1>5, <1>7, <1>8, <1>9, <1>10 DEF CowInv

(* A new exception stack.                                                    *)
LEMMA UxstackEffect ==
    ASSUME CowInv, NEW c \in Envs, ~NoMemory, Alloc(c, UXSTACK, "W"),
           \A d \in Envs : fault[d].pc = "unmap" \/ fault'[d].pc = "map" => fault'[d] = fault[d],
           \A d \in Envs : fork[d].pc \in {"v0_copy", "v0_unmap", "map_parent"} \/ fork'[d].pc = "v0_copy"
                              => fork'[d] = fork[d]
    PROVE  /\ TempOK' /\ Exclusive' /\ MemoryOK'
           /\ \A d \in Envs : \A a : Mapped(d, a)' <=> Mapped(d, a) \/ (d = c /\ a = UXSTACK)
           /\ perm'[c][UXSTACK] = "W"
           /\ \A d \in Envs : \A a : Mapped(d, a) /\ a # UXSTACK => perm'[d][a] = perm[d][a]
           /\ \A d \in Envs : d # c => perm'[d] = perm[d]
<1>1. /\ MemoryOK' /\ Binds(c, UXSTACK, "W")
      /\ \A d, b, xa, ya : Same(pages', d, xa, b, ya) <=>
            \/ Same(pages, d, xa, b, ya) /\ ~(d = c /\ xa = UXSTACK) /\ ~(b = c /\ ya = UXSTACK)
            \/ d = c /\ xa = UXSTACK /\ b = c /\ ya = UXSTACK
      /\ \A d, xa, v : Content(pages', d, xa, v) <=>
            IF d = c /\ xa = UXSTACK THEN v = 0 ELSE Content(pages, d, xa, v)
  BY Parts, AllocEffect, Addresses DEF Perms
<1>2. UXSTACK # TEMP /\ \A a \in Shown : a # UXSTACK
  BY Addresses
<1>3. \A d, b \in Envs : \A wa \in Places :
          Same(pages', d, TEMP, b, wa) =>
             \/ b = d /\ wa = TEMP
             \/ fault'[d].pc = "unmap" /\ b = d /\ wa = fault'[d].va
             \/ fork'[d].pc \in {"v0_copy", "v0_unmap"} /\ b = Child(d)' /\ wa = Va(d)'
  BY <1>1, <1>2, Parts DEF TempOK, Child, Va
<1>4. \A d \in Envs : fork'[d].pc = "v0_copy" => Same(pages', d, TEMP, Child(d)', Va(d)')
  <2> SUFFICES ASSUME NEW d \in Envs, fork'[d].pc = "v0_copy" PROVE Same(pages', d, TEMP, Child(d)', Va(d)')
    OBVIOUS
  <2>1. fork[d].pc = "v0_copy" /\ Child(d)' = Child(d) /\ Va(d)' = Va(d)
    BY DEF Child, Va
  <2>2. Va(d) # UXSTACK /\ Same(pages, d, TEMP, Child(d), Va(d))
    BY <2>1, ScannedIs, Parts DEF TempOK, Mapping
  <2> QED BY <1>1, <1>2, <2>1, <2>2
<1>5. \A d \in Envs : fault'[d].pc = "map" =>
          \A v \in Values : Content(pages', d, TEMP, v) <=> Content(pages', d, fault'[d].va, v)
  <2> SUFFICES ASSUME NEW d \in Envs, fault'[d].pc = "map", NEW v \in Values
               PROVE  Content(pages', d, TEMP, v) <=> Content(pages', d, fault'[d].va, v)
    OBVIOUS
  <2>1. fault'[d] = fault[d] /\ fault[d].pc = "map"
    OBVIOUS
  <2>2. fault[d].va # UXSTACK
    BY <2>1, Parts DEF Faults
  <2> QED BY <1>1, <1>2, <2>1, <2>2, Parts DEF TempOK
<1>6. TempOK'
  BY <1>3, <1>4, <1>5 DEF TempOK
<1>7. Exclusive'
  <2>1. \A d \in Envs, xa \in Shown : \A b : \A ya \in Shown : Same(pages', d, xa, b, ya) =>
           Same(pages, d, xa, b, ya) /\ perm'[d][xa] = perm[d][xa]
    BY <1>1, <1>2, Parts, SharingIsOfMapped DEF Binds, Mapped
  <2> QED BY <2>1, Parts DEF Exclusive, Child, Va
<1> QED BY <1>1, <1>6, <1>7 DEF Binds, Mapped

(* set_pgfault_handler(): without memory whoever forks is unlucky from now   *)
(* on.                                                                       *)
LEMMA SetPgfaultHandlerInv ==
    ASSUME CowInv, NEW e \in Envs, SetPgfaultHandler(e) PROVE CowInv'
<1>1. /\ state[e] = "alive" /\ fault[e] = Idle /\ fork[e] = Idle /\ ~eager
      /\ unlucky' = [unlucky EXCEPT ![e] = ~upcall[e] /\ NoMemory]
      /\ fork' = [fork EXCEPT ![e] = [pc |-> "exofork"]]
      /\ UNCHANGED <<state, eager, fault>>
  BY DEF SetPgfaultHandler, Executes
<1>2. /\ fork'[e] = [pc |-> "exofork"] /\ \A d \in Envs \ {e} : fork'[d] = fork[d] /\ unlucky'[d] = unlucky[d]
      /\ unlucky'[e] <=> ~upcall[e] /\ NoMemory
      /\ fork' \in [Envs -> {Idle, [pc |-> "exofork"]} \union Making] /\ unlucky' \in [Envs -> BOOLEAN]
  <2>1. (~upcall[e] /\ NoMemory) \in BOOLEAN
    OBVIOUS
  <2>2. unlucky' \in [Envs -> BOOLEAN] /\ unlucky'[e] = (~upcall[e] /\ NoMemory)
        /\ \A d \in Envs \ {e} : unlucky'[d] = unlucky[d]
    <3> DEFINE u == ~upcall[e] /\ NoMemory
    <3>1. unlucky' = [unlucky EXCEPT ![e] = u] /\ u \in BOOLEAN /\ unlucky \in [Envs -> BOOLEAN]
      BY <1>1, <2>1, Parts DEF FlagsOK
    <3> HIDE DEF u
    <3>2. unlucky' \in [Envs -> BOOLEAN] /\ unlucky'[e] = u /\ \A d \in Envs \ {e} : unlucky'[d] = unlucky[d]
      BY <3>1
    <3> QED BY <3>2 DEF u
  <2>3. /\ fork'[e] = [pc |-> "exofork"] /\ \A d \in Envs \ {e} : fork'[d] = fork[d]
        /\ fork' \in [Envs -> {Idle, [pc |-> "exofork"]} \union Making]
    BY <1>1, Parts DEF PcOK
  <2> QED BY <2>2, <2>3
<1>3. Forking(e) = {} /\ Forking(e)' = {} /\ \A d \in Envs \ {e} : Forking(d)' = Forking(d)
  BY <1>1, <1>2 DEF Forking, Idle
<1>4. /\ \A d \in Envs : fault[d].pc = "unmap" \/ fault'[d].pc = "map" => fault'[d] = fault[d]
      /\ \A d \in Envs : fork[d].pc \in {"v0_copy", "v0_unmap", "map_parent"} \/ fork'[d].pc = "v0_copy"
                              => fork'[d] = fork[d]
  BY <1>1, <1>2 DEF Idle
<1>5. /\ TempOK' /\ Exclusive' /\ MemoryOK' /\ upcall' \in [Envs -> BOOLEAN]
      /\ \A a : Mapped(e, a)' <=> Mapped(e, a) \/ (a = UXSTACK /\ upcall'[e] /\ ~upcall[e])
      /\ \A a : Mapped(e, a) /\ a # UXSTACK => perm'[e][a] = perm[e][a]
      /\ Mapped(e, UXSTACK)' => perm'[e][UXSTACK] = "W"
      /\ \A d \in Envs \ {e} : perm'[d] = perm[d] /\ upcall'[d] = upcall[d]
      /\ upcall[e] => upcall'[e]
      /\ ~NoMemory => upcall'[e]
      /\ upcall'[e] => Mapped(e, UXSTACK)'
  <2>1. CASE upcall[e] \/ NoMemory
    <3>1. UNCHANGED <<pages, perm, upcall>>
      BY <2>1 DEF SetPgfaultHandler
    <3>2. \A a : Mapped(e, a)' <=> Mapped(e, a)
      BY <3>1 DEF Mapped
    <3> QED BY <1>4, <2>1, <3>1, <3>2, SharingStays, Parts DEF FlagsOK, Stacks, Mends
  <2>2. CASE ~upcall[e] /\ ~NoMemory
    <3>1. Alloc(e, UXSTACK, "W") /\ upcall' = [upcall EXCEPT ![e] = TRUE]
      BY <2>2 DEF SetPgfaultHandler
    <3>2. upcall' \in [Envs -> BOOLEAN] /\ upcall'[e] /\ \A d \in Envs \ {e} : upcall'[d] = upcall[d]
      BY <3>1, Parts DEF FlagsOK
    <3>3. /\ TempOK' /\ Exclusive' /\ MemoryOK'
          /\ \A d \in Envs : \A a : Mapped(d, a)' <=> Mapped(d, a) \/ (d = e /\ a = UXSTACK)
          /\ perm'[e][UXSTACK] = "W"
          /\ \A d \in Envs : \A a : Mapped(d, a) /\ a # UXSTACK => perm'[d][a] = perm[d][a]
          /\ \A d \in Envs : d # e => perm'[d] = perm[d]
      BY <1>4, <2>2, <3>1, UxstackEffect
    <3> QED BY <2>2, <3>2, <3>3
  <2> QED BY <2>1, <2>2
<1>6. FlagsOK' /\ PcOK'
  BY <1>1, <1>2, <1>5, Parts DEF FlagsOK, PcOK
<1>7. LifeOK'
  <2>1. \A d \in Envs : state[d] # "alive" => d # e
    BY <1>1
  <2> QED BY <1>1, <1>2, <1>3, <1>5, <2>1, LifeGoesOn
<1>8. LocalOK(e)'
  <2>1. Reads(e)'
    BY <1>1, <1>2 DEF Reads, Mapping, Late
  <2>2. Stacks(e)'
    BY <1>1, <1>5, Parts, Addresses DEF Stacks, Shown
  <2>3. Mends(e)'
    <3>1. \A a \in DOMAIN perm'[e] : perm'[e][a] = "COW" => a \in DOMAIN perm[e] /\ perm[e][a] = "COW"
      <4>1. \A a \in DOMAIN perm'[e] : perm'[e][a] = "COW" => a # UXSTACK
        BY <1>5 DEF Mapped
      <4> QED BY <1>5, <4>1 DEF Mapped
    <3>2. (\E a \in DOMAIN perm'[e] : perm'[e][a] = "COW") => unlucky[e] \/ upcall[e]
      BY <1>1, <3>1, Parts DEF Mends
    <3> QED BY <1>2, <1>3, <1>5, <3>2 DEF Mends
  <2>4. Gives(e)'
    BY <1>3 DEF Gives
  <2>5. Faults(e)'
    BY <1>1, <1>2, <1>5, Parts, Addresses DEF Faults, Idle
  <2> QED BY <2>1, <2>2, <2>3, <2>4, <2>5 DEF LocalOK
<1>9. \A d \in Envs : d # e => LocalOK(d)'
  BY <1>1, <1>2, <1>5, OnlyItself DEF Untouched
<1> QED BY <1>5, <1>6, <1>7, <1>8, <1>9 DEF CowInv

(* sys_exofork(): the child has nothing, and the luck of its parent.         *)
LEMMA SysExoforkInv ==
    ASSUME CowInv, NEW e \in Envs, SysExofork(e) PROVE CowInv'
<1>1. state[e] = "alive" /\ fault[e] = Idle /\ fork[e].pc \in {"out", "exofork"}
      /\ (eager <=> fork[e].pc = "out") /\ Forking(e) = {}
  <2>1. CASE eager
    <3>1. state[e] = "alive" /\ fault[e] = Idle /\ fork[e] = Idle
      BY <2>1 DEF SysExofork, Executes
    <3> QED BY <2>1, <3>1 DEF Idle, Forking
  <2>2. CASE ~eager
    <3>1. state[e] = "alive" /\ fault[e] = Idle /\ fork[e].pc = "exofork"
      BY <2>2 DEF SysExofork, ForkAt, Executes
    <3> QED BY <2>2, <3>1 DEF Forking
  <2> QED BY <2>1, <2>2
<1>2. CASE \A c \in Envs : state[c] # "free"
  BY <1>1, <1>2, PanicInv DEF SysExofork, Idle
<1>3. CASE ~ \A c \in Envs : state[c] # "free"
  <2> PICK c \in Envs : /\ state[c] = "free"
                        /\ state' = [state EXCEPT ![c] = "embryo"]
                        /\ fork' = [fork EXCEPT ![e] = [pc |-> "scan", child |-> c, i |-> 1, pte |-> "RO"]]
                        /\ unlucky' = [unlucky EXCEPT ![c] = unlucky[e]]
                        /\ UNCHANGED <<perm, pages, upcall, eager, fault>>
    BY <1>3 DEF SysExofork
  <2>1. c # e /\ fork[c] = Idle /\ fault[c] = Idle /\ DOMAIN perm[c] = {}
    BY <1>1, Parts DEF LifeOK
  <2>2. FlagsOK'
    BY Parts DEF FlagsOK
  <2>3. PcOK'
    <3>1. [pc |-> "scan", child |-> c, i |-> 1, pte |-> "RO"] \in Making
      BY Addresses DEF Making, Perms
    <3> QED BY <3>1, Parts DEF PcOK
  <2>4. /\ fork'[e] = [pc |-> "scan", child |-> c, i |-> 1, pte |-> "RO"]
        /\ \A d \in Envs \ {e} : fork'[d] = fork[d]
        /\ state'[c] = "embryo" /\ \A d \in Envs \ {c} : state'[d] = state[d] /\ unlucky'[d] = unlucky[d]
        /\ unlucky'[c] = unlucky[e]
    BY Parts DEF PcOK, FlagsOK
  <2>5. Forking(e)' = {c} /\ \A d \in Envs \ {e} : Forking(d)' = Forking(d)
    BY <2>4 DEF Forking
  <2>6. \A d \in Envs : \A b \in Forking(d) : b \in Envs /\ b # c /\ b # e
    BY <1>1, ForkingIs
  <2>7. \A d \in Envs : d # e /\ d # c => Untouched(d)
    BY <2>4 DEF Untouched
  <2>8. LifeOK'
    <3>1. \A d \in Envs : state'[d] # "alive" => fork'[d] = Idle /\ fault'[d] = Idle
      BY <1>1, <2>1, <2>4, Parts DEF LifeOK
    <3>2. \A d \in Envs : state'[d] = "free" => DOMAIN perm'[d] = {}
      BY <2>4, Parts DEF LifeOK
    <3>3. \A d, b, x \in Envs : x \in Forking(d)' /\ x \in Forking(b)' => d = b
      BY <2>5, <2>6, Parts DEF LifeOK
    <3>4. \A d \in Envs : \A b \in Forking(d)' : state'[b] = "embryo"
      BY <2>4, <2>5, <2>6, Parts DEF LifeOK
    <3> QED BY <3>1, <3>2, <3>3, <3>4 DEF LifeOK
  <2>9. TempOK' /\ Exclusive' /\ MemoryOK'
    <3>1. \A d \in Envs : fork[d].pc \in {"v0_copy", "v0_unmap", "map_parent"} \/ fork'[d].pc = "v0_copy"
                              => fork'[d] = fork[d]
      BY <1>1, <2>4
    <3> QED BY <3>1, SharingStays
  <2>10. LocalOK(c)'
    <3>1. Stacks(c)'
      BY Parts DEF Stacks, Mapped
    <3>2. upcall'[c] => Mapped(c, UXSTACK)'
      BY Parts DEF Mends, Mapped
    <3>3. fork'[c] = Idle /\ fault'[c] = Idle /\ ~Mapped(c, TEMP)' /\ state'[c] # "alive"
      BY <2>1, <2>4 DEF Mapped
    <3> QED BY <3>1, <3>2, <3>3, ChildLocal
  <2>11. LocalOK(e)'
    <3>1. Reads(e)'
      BY <2>4 DEF Reads, Mapping, Late
    <3>2. Stacks(e)'
      BY Parts DEF Stacks, Mapped
    <3>3. Mends(e)'
      BY <1>1, <2>1, <2>4, <2>5, Parts DEF Mends, Mapped
    <3>4. Gives(e)'
      <4>1. \A a : ~Mapped(c, a)'
        BY <2>1 DEF Mapped
      <4>2. \A a : ~Given(e, a)'
        BY <2>4 DEF Given
      <4> QED BY <2>4, <2>5, <4>1, <4>2 DEF Gives
    <3>5. Faults(e)'
      BY <1>1, <2>4, Parts DEF Faults, Mapped, Idle
    <3> QED BY <3>1, <3>2, <3>3, <3>4, <3>5 DEF LocalOK
  <2>12. \A d \in Envs : d # e /\ d # c => LocalOK(d)'
    <3> SUFFICES ASSUME NEW d \in Envs, d # e, d # c PROVE LocalOK(d)'
      OBVIOUS
    <3>1. LocalOK(d) /\ Untouched(d) /\ \A b \in Forking(d) : Untouched(b)
      BY <2>6, <2>7 DEF CowInv
    <3> QED BY <3>1, Frame
  <2> QED BY <2>2, <2>3, <2>8, <2>9, <2>10, <2>11, <2>12 DEF CowInv
<1> QED BY <1>2, <1>3

(* The loop of fork() moves on, with the same child.                         *)
LEMMA LoopMoves ==
    ASSUME PcOK, NEW e \in Envs, fork[e].pc \notin {"out", "exofork"},
           NEW q, q \notin {"out", "exofork"}, NEW i, NEW t, Loop(e, q, i, t)
    PROVE  /\ fork'[e].pc = q /\ fork'[e].i = i /\ fork'[e].pte = t
           /\ Child(e)' = Child(e) /\ Va(e)' = VaSeq[i] /\ Forking(e)' = Forking(e)
           /\ \A d \in Envs \ {e} : fork'[d] = fork[d] /\ Forking(d)' = Forking(d)
<1>1. fork'[e] = [pc |-> q, child |-> Child(e), i |-> i, pte |-> t] /\ Child(e)' = Child(e) /\ Va(e)' = VaSeq[i]
  BY Moves
<1>2. Forking(e)' = {Child(e)} /\ Forking(e) = {Child(e)}
  BY <1>1 DEF Forking, Child
<1> QED BY <1>1, <1>2, Moves

(* Steps of the loop that only read. *)
LEMMA LoopInv ==
    ASSUME CowInv, NEW e \in Envs, fork[e].pc = "scan", fault[e] = Idle,
           NEW q, NEW i, NEW t, Loop(e, q, i, t), q \in {"scan", "uxstack", "start", "v0_alloc", "map_child"},
           i \in 1..(Len(VaSeq) + 1), t \in Perms, q = "start" => eager,
           UNCHANGED <<state, upcall, unlucky, eager, fault, pages, perm>>,
           Reads(e)', Gives(e)'
    PROVE  CowInv'
<1>1. state[e] = "alive" /\ Child(e) \in Envs /\ Forking(e) = {Child(e)}
  BY ChildIs
<1>2. /\ fork'[e] = [pc |-> q, child |-> Child(e), i |-> i, pte |-> t]
      /\ \A d \in Envs \ {e} : fork'[d] = fork[d] /\ Forking(d)' = Forking(d)
      /\ Forking(e)' = Forking(e)
      /\ fork' = [fork EXCEPT ![e] = [pc |-> q, child |-> Child(e), i |-> i, pte |-> t]]
  <2>1. q \notin {"out", "exofork"} /\ fork[e].pc \notin {"out", "exofork"}
    OBVIOUS
  <2>2. Forking(e)' = Forking(e)
    BY <2>1, Parts, LoopMoves
  <2> QED BY <2>2, Parts, Moves
<1>3. FlagsOK' /\ PcOK'
  <2>1. [pc |-> q, child |-> Child(e), i |-> i, pte |-> t] \in Making
    BY <1>1 DEF Making, Mapping, Late
  <2> QED BY <1>2, <2>1, Parts DEF FlagsOK, PcOK
<1>4. LifeOK'
  BY <1>1, <1>2, LifeGoesOn
<1>5. MemoryOK' /\ TempOK' /\ Exclusive'
  <2>1. \A d \in Envs : fork[d].pc \in {"v0_copy", "v0_unmap", "map_parent"} \/ fork'[d].pc = "v0_copy"
                              => fork'[d] = fork[d]
    BY <1>2
  <2> QED BY <2>1, SharingStays
<1>6. LocalOK(e)'
  <2>1. Stacks(e)'
    BY Parts DEF Stacks, Mapped
  <2>2. Mends(e)'
    BY <1>2, Parts DEF Mends, Mapped
  <2>3. Faults(e)'
    BY <1>2, Parts DEF Faults, Mapped, Idle
  <2> QED BY <2>1, <2>2, <2>3 DEF LocalOK
<1>7. \A d \in Envs : d # e => LocalOK(d)'
  BY <1>1, <1>2, OnlyItself DEF Untouched
<1> QED BY <1>3, <1>4, <1>5, <1>6, <1>7 DEF CowInv

(* The loop reads the entry of its next page.                                *)
LEMMA ScanInv ==
    ASSUME CowInv, NEW e \in Envs, Scan(e) PROVE CowInv'
<1>1. /\ fork[e].pc = "scan" /\ state[e] = "alive" /\ fault[e] = Idle
      /\ UNCHANGED <<state, upcall, unlucky, eager, fault, pages, perm>>
  BY DEF Scan, ForkAt, Executes, Quiet
<1>2. fork[e].i \in 1..(Len(VaSeq) + 1) /\ fork[e].pte \in Perms /\ Len(VaSeq) \in Nat
  BY <1>1, Parts, ForkIs, Addresses
<1>3. \A q \in {"start", "uxstack", "scan", "v0_alloc", "map_child"} : \A i, t : Loop(e, q, i, t) =>
          /\ fork'[e].pc = q /\ fork'[e].i = i /\ fork'[e].pte = t
          /\ Va(e)' = VaSeq[i] /\ Forking(e)' = Forking(e)
  <2>1. PcOK /\ fork[e].pc \notin {"out", "exofork"}
    BY <1>1, Parts
  <2> SUFFICES ASSUME NEW q \in {"start", "uxstack", "scan", "v0_alloc", "map_child"}, NEW i, NEW t,
                      Loop(e, q, i, t)
               PROVE  /\ fork'[e].pc = q /\ fork'[e].i = i /\ fork'[e].pte = t
                      /\ Va(e)' = VaSeq[i] /\ Forking(e)' = Forking(e)
    OBVIOUS
  <2>2. q \notin {"out", "exofork"}
    OBVIOUS
  <2> QED BY <2>1, <2>2, LoopMoves
<1>4. \A a \in Shown : Given(e, a) <=> \E j \in 1..(fork[e].i - 1) : VaSeq[j] = a
  BY <1>1 DEF Given
<1>5. CASE fork[e].i > Len(VaSeq)
  <2> PICK q : q = IF eager THEN "start" ELSE "uxstack"
    OBVIOUS
  <2>1. Loop(e, q, fork[e].i, fork[e].pte)
    BY <1>5 DEF Scan, GoTo
  <2>2. fork'[e].pc = q /\ fork'[e].i = fork[e].i /\ Forking(e)' = Forking(e)
    BY <1>3, <2>1
  <2>3. Reads(e)'
    BY <1>1, <1>2, <1>5, <2>2 DEF Reads, Mapping, Late
  <2>4. Gives(e)'
    <3>1. \A a \in Shown : Given(e, a)' <=> Given(e, a)
      BY <1>4, <2>2 DEF Given
    <3> QED BY <1>1, <2>2, <3>1, Parts DEF Gives, Mapped
  <2> QED BY <1>1, <1>2, <2>1, <2>3, <2>4, LoopInv
<1>6. CASE ~(fork[e].i > Len(VaSeq)) /\ Skips(e)
  <2>1. Loop(e, "scan", fork[e].i + 1, "RO")
    BY <1>6 DEF Scan, NextPage
  <2>2. fork'[e].pc = "scan" /\ fork'[e].i = fork[e].i + 1 /\ Forking(e)' = Forking(e)
    BY <1>3, <2>1
  <2>3. Reads(e)'
    BY <1>1, <2>2 DEF Reads, Mapping, Late
  <2>4. Gives(e)'
    <3>1. \A a \in Shown : Given(e, a)' <=> Given(e, a) \/ a = Va(e)
      BY <1>2, <1>4, <1>6, <2>2 DEF Given, Va
    <3>2. \A a \in Shown : a = Va(e) => ~Mapped(e, a)
      BY <1>6, Addresses DEF Skips
    <3> QED BY <1>1, <2>2, <3>1, <3>2, Parts DEF Gives, Mapped
  <2>5. fork[e].i + 1 \in 1..(Len(VaSeq) + 1)
    BY <1>2, <1>6
  <2> QED BY <1>1, <2>1, <2>3, <2>4, <2>5, LoopInv DEF Perms
<1>7. CASE ~(fork[e].i > Len(VaSeq)) /\ ~Skips(e)
  <2> PICK q, t : t = perm[e][Va(e)] /\ q = IF eager /\ t = "W" THEN "v0_alloc" ELSE "map_child"
    OBVIOUS
  <2>1. Loop(e, q, fork[e].i, t)
    BY <1>7 DEF Scan
  <2>2. Mapped(e, Va(e)) /\ Va(e) # UXSTACK
    BY <1>7, Parts DEF Skips, Stacks
  <2>3. fork'[e].pc = q /\ fork'[e].i = fork[e].i /\ fork'[e].pte = t /\ Va(e)' = Va(e)
        /\ Forking(e)' = Forking(e)
    BY <1>3, <2>1 DEF Va
  <2>4. Reads(e)'
    BY <1>1, <1>2, <1>7, <2>2, <2>3, Parts DEF Reads, Stacks, Mapping, Late, Mapped
  <2>5. Gives(e)'
    <3>1. \A a \in Shown : Given(e, a)' <=> Given(e, a)
      BY <1>4, <2>3 DEF Given
    <3> QED BY <1>1, <2>3, <3>1, Parts DEF Gives, Mapped
  <2>6. t \in Perms
    BY <2>2, Parts, SharingIsOfMapped
  <2> QED BY <1>1, <1>2, <2>1, <2>4, <2>5, <2>6, LoopInv
<1> QED BY <1>5, <1>6, <1>7

(* The exception stack of the child.                                         *)
LEMMA ChildUxstackInv ==
    ASSUME CowInv, NEW e \in Envs, ChildUxstack(e) PROVE CowInv'
<1> PICK c : c = Child(e)
  OBVIOUS
<1>1. fork[e].pc = "uxstack" /\ fault[e] = Idle /\ state[e] = "alive" /\ ~eager
  BY Parts DEF ChildUxstack, ForkAt, Executes, Reads
<1>2. CASE NoMemory
  BY <1>1, <1>2, PanicInv DEF ChildUxstack, Idle
<1>3. CASE ~NoMemory
  <2>1. /\ Alloc(c, UXSTACK, "W") /\ Loop(e, "upcall", fork[e].i, fork[e].pte)
        /\ UNCHANGED <<state, upcall, unlucky, eager, fault>>
    BY <1>3 DEF ChildUxstack, GoTo, Quiet
  <2>2. /\ c \in Envs /\ c # e /\ Forking(e) = {c} /\ state[c] = "embryo"
        /\ fork[c] = Idle /\ fault[c] = Idle /\ ~Mapped(c, TEMP)
        /\ fork[e].i \in 1..(Len(VaSeq) + 1) /\ fork[e].pte \in Perms
    BY <1>1, ChildIs, ForkIs, Parts
  <2>3. /\ fork'[e].pc = "upcall" /\ fork'[e].i = fork[e].i /\ Forking(e)' = {c}
        /\ \A d \in Envs \ {e} : fork'[d] = fork[d] /\ Forking(d)' = Forking(d)
        /\ fork' = [fork EXCEPT ![e] = [pc |-> "upcall", child |-> c, i |-> fork[e].i, pte |-> fork[e].pte]]
    <3>1. fork[e].pc \notin {"out", "exofork"} /\ PcOK
      BY <1>1, Parts
    <3>2. /\ fork'[e].pc = "upcall" /\ fork'[e].i = fork[e].i /\ Forking(e)' = {c}
          /\ \A d \in Envs \ {e} : fork'[d] = fork[d] /\ Forking(d)' = Forking(d)
      BY <2>1, <2>2, <3>1, LoopMoves
    <3> QED BY <2>1, <3>2 DEF Loop
  <2>4. /\ TempOK' /\ Exclusive' /\ MemoryOK'
        /\ \A d \in Envs : \A a : Mapped(d, a)' <=> Mapped(d, a) \/ (d = c /\ a = UXSTACK)
        /\ perm'[c][UXSTACK] = "W"
        /\ \A d \in Envs : \A a : Mapped(d, a) /\ a # UXSTACK => perm'[d][a] = perm[d][a]
        /\ \A d \in Envs : d # c => perm'[d] = perm[d]
    <3>1. \A d \in Envs : fork[d].pc \in {"v0_copy", "v0_unmap", "map_parent"} \/ fork'[d].pc = "v0_copy"
                              => fork'[d] = fork[d]
      BY <1>1, <2>3
    <3> QED BY <1>3, <2>1, <2>2, <3>1, UxstackEffect
  <2>5. FlagsOK' /\ PcOK'
    <3>1. [pc |-> "upcall", child |-> c, i |-> fork[e].i, pte |-> fork[e].pte] \in Making
      BY <2>2 DEF Making, Late
    <3> QED BY <2>1, <2>3, <3>1, Parts DEF FlagsOK, PcOK
  <2>6. LifeOK'
    BY <1>1, <2>1, <2>2, <2>3, <2>4, LifeGoesOn
  <2>7. LocalOK(c)'
    <3>1. Stacks(c)'
      BY <1>1, <2>1, <2>2, <2>4, Parts, Addresses DEF Stacks, Shown
    <3> QED BY <1>1, <2>1, <2>2, <2>3, <2>4, <3>1, ChildLocal, Addresses
  <2>8. LocalOK(e)'
    <3>1. perm'[e] = perm[e] /\ \A a : Mapped(e, a)' <=> Mapped(e, a)
      BY <2>2, <2>4
    <3>2. Reads(e)'
      BY <1>1, <2>1, <2>3, Parts DEF Reads, Mapping, Late
    <3>3. Stacks(e)'
      BY <2>1, <3>1, Parts DEF Stacks
    <3>4. Mends(e)'
      BY <1>1, <2>1, <2>2, <2>3, <2>4, <3>1, Parts DEF Mends
    <3>5. Gives(e)'
      <4>1. \A a \in Shown : Given(e, a)' <=> Given(e, a)
        BY <1>1, <2>3 DEF Given
      <4> QED BY <2>2, <2>3, <2>4, <3>1, <4>1, Parts, Addresses, SMTT(30) DEF Gives
    <3>6. Faults(e)'
      BY <1>1, <2>1, <2>3, <3>1, Parts DEF Faults, Idle
    <3> QED BY <3>2, <3>3, <3>4, <3>5, <3>6 DEF LocalOK
  <2>9. \A d \in Envs : d # e /\ d # c => LocalOK(d)'
    <3>1. \A d \in Envs : d # e /\ d # c => Untouched(d)
      BY <2>1, <2>3, <2>4 DEF Untouched
    <3> QED BY <1>1, <2>1, <2>2, <3>1, OthersLocal
  <2> QED BY <2>4, <2>5, <2>6, <2>7, <2>8, <2>9 DEF CowInv
<1> QED BY <1>2, <1>3

(* The upcall of the child.                                                  *)
LEMMA ChildUpcallInv ==
    ASSUME CowInv, NEW e \in Envs, ChildUpcall(e) PROVE CowInv'
<1> PICK c : c = Child(e)
  OBVIOUS
<1>1. /\ fork[e].pc = "upcall" /\ fault[e] = Idle /\ state[e] = "alive" /\ ~eager
      /\ upcall' = [upcall EXCEPT ![c] = upcall[e]] /\ Loop(e, "start", fork[e].i, fork[e].pte)
      /\ UNCHANGED <<state, perm, pages, unlucky, eager, fault>>
  BY Parts DEF ChildUpcall, ForkAt, Executes, Reads, GoTo
<1>2. /\ c \in Envs /\ c # e /\ Forking(e) = {c} /\ state[c] = "embryo"
      /\ fork[c] = Idle /\ fault[c] = Idle /\ ~Mapped(c, TEMP)
      /\ fork[e].i \in 1..(Len(VaSeq) + 1) /\ fork[e].pte \in Perms
  BY <1>1, ChildIs, ForkIs, Parts
<1>3. /\ fork'[e].pc = "start" /\ fork'[e].i = fork[e].i /\ Forking(e)' = {c}
      /\ \A d \in Envs \ {e} : fork'[d] = fork[d] /\ Forking(d)' = Forking(d)
      /\ fork' = [fork EXCEPT ![e] = [pc |-> "start", child |-> c, i |-> fork[e].i, pte |-> fork[e].pte]]
  <2>1. fork[e].pc \notin {"out", "exofork"} /\ PcOK
    BY <1>1, Parts
  <2>2. /\ fork'[e].pc = "start" /\ fork'[e].i = fork[e].i /\ Forking(e)' = {c}
        /\ \A d \in Envs \ {e} : fork'[d] = fork[d] /\ Forking(d)' = Forking(d)
    <3>1. Loop(e, "start", fork[e].i, fork[e].pte)
      BY <1>1
    <3> QED BY <1>2, <2>1, <3>1, LoopMoves
  <2> QED BY <1>1, <2>2 DEF Loop
<1>4. upcall'[c] = upcall[e] /\ (\A d \in Envs \ {c} : upcall'[d] = upcall[d]) /\ FlagsOK'
  BY <1>1, <1>2, Parts DEF FlagsOK
<1>5. TempOK' /\ Exclusive' /\ MemoryOK'
  <2>1. \A d \in Envs : fork[d].pc \in {"v0_copy", "v0_unmap", "map_parent"} \/ fork'[d].pc = "v0_copy"
                              => fork'[d] = fork[d]
    BY <1>1, <1>3
  <2> QED BY <1>1, <2>1, SharingStays
<1>6. PcOK'
  <2>1. [pc |-> "start", child |-> c, i |-> fork[e].i, pte |-> fork[e].pte] \in Making
    BY <1>2 DEF Making, Late
  <2> QED BY <1>1, <1>3, <2>1, Parts DEF PcOK
<1>7. LifeOK'
  BY <1>1, <1>2, <1>3, LifeGoesOn
<1>8. \A d \in Envs : \A a : Mapped(d, a)' <=> Mapped(d, a)
  BY <1>1 DEF Mapped
<1>9. LocalOK(c)'
  <2>1. Stacks(c)'
    BY <1>1, <1>2, <1>8, Parts DEF Stacks
  <2>2. Mapped(c, UXSTACK)
    BY <1>1, <1>2, Parts DEF Mends
  <2> QED BY <1>1, <1>2, <1>3, <1>8, <2>1, <2>2, ChildLocal
<1>10. LocalOK(e)'
  <2>1. Reads(e)'
    BY <1>1, <1>3, Parts DEF Reads, Mapping, Late
  <2>2. Stacks(e)'
    BY <1>1, <1>2, <1>4, <1>8, Parts DEF Stacks
  <2>3. Mends(e)'
    BY <1>1, <1>2, <1>3, <1>4, <1>8, Parts DEF Mends
  <2>4. Gives(e)'
    <3>1. \A a \in Shown : Given(e, a)' <=> Given(e, a)
      BY <1>1, <1>3 DEF Given
    <3> QED BY <1>2, <1>3, <1>8, <3>1, Parts DEF Gives
  <2>5. Faults(e)'
    BY <1>1, <1>3, <1>8, Parts DEF Faults, Idle
  <2> QED BY <2>1, <2>2, <2>3, <2>4, <2>5 DEF LocalOK
<1>11. \A d \in Envs : d # e /\ d # c => LocalOK(d)'
  <2>1. \A d \in Envs : d # e /\ d # c => Untouched(d)
    BY <1>1, <1>3, <1>4 DEF Untouched
  <2> QED BY <1>1, <1>2, <2>1, OthersLocal
<1> QED BY <1>4, <1>5, <1>6, <1>7, <1>9, <1>10, <1>11 DEF CowInv

(* The child runs: whatever was copy-on-write in it can be mended.           *)
LEMMA StartChildInv ==
    ASSUME CowInv, NEW e \in Envs, StartChild(e) PROVE CowInv'
<1> PICK c : c = Child(e)
  OBVIOUS
<1>1. /\ fork[e].pc = "start" /\ fault[e] = Idle /\ state[e] = "alive"
      /\ state' = [state EXCEPT ![c] = "alive"] /\ fork' = [fork EXCEPT ![e] = Idle]
      /\ UNCHANGED <<perm, pages, upcall, unlucky, eager, fault>>
  BY DEF StartChild, ForkAt, Executes
<1>2. /\ c \in Envs /\ c # e /\ Forking(e) = {c} /\ state[c] = "embryo"
      /\ fork[c] = Idle /\ fault[c] = Idle /\ ~Mapped(c, TEMP)
  BY <1>1, ChildIs
<1>3. /\ fork'[e] = Idle /\ \A d \in Envs \ {e} : fork'[d] = fork[d]
      /\ state'[c] = "alive" /\ \A d \in Envs \ {c} : state'[d] = state[d]
  <2>1. DOMAIN fork = Envs /\ DOMAIN state = Envs
    BY Parts DEF FlagsOK, PcOK
  <2> QED BY <1>1, <1>2, <2>1
<1>4. Forking(e)' = {} /\ \A d \in Envs \ {e} : Forking(d)' = Forking(d)
  <2>1. Forking(e)' = {}
    BY <1>3 DEF Forking, Idle
  <2> QED BY <1>3, <2>1 DEF Forking
<1>5. FlagsOK' /\ PcOK'
  <2>1. fork' \in [Envs -> {Idle, [pc |-> "exofork"]} \union Making] /\ PcOK
    BY <1>1, Parts DEF PcOK
  <2>2. state' \in [Envs -> {"free", "embryo", "alive"}]
    BY <1>1, Parts DEF FlagsOK
  <2> QED BY <1>1, <2>1, <2>2, Parts DEF FlagsOK, PcOK
<1>6. TempOK' /\ Exclusive' /\ MemoryOK'
  <2>1. \A d \in Envs : fork[d].pc \in {"v0_copy", "v0_unmap", "map_parent"} \/ fork'[d].pc = "v0_copy"
                              => fork'[d] = fork[d]
    BY <1>1, <1>3 DEF Idle
  <2> QED BY <1>1, <2>1, SharingStays
<1>7. \A d \in Envs \ {e} : \A b \in Forking(d) : b \in Envs /\ b # c /\ b # e
  <2> SUFFICES ASSUME NEW d \in Envs \ {e}, NEW b \in Forking(d) PROVE b \in Envs /\ b # c /\ b # e
    OBVIOUS
  <2>1. b \in Envs /\ b # e
    BY <1>1, ForkingIs
  <2>2. b # c
    BY <1>2, <2>1, Parts DEF LifeOK
  <2> QED BY <2>1, <2>2
<1>8. LifeOK'
  <2>1. \A d \in Envs : state'[d] # "alive" => fork'[d] = Idle /\ fault'[d] = Idle
    BY <1>1, <1>3, Parts DEF LifeOK
  <2>2. \A d \in Envs : state'[d] = "free" => DOMAIN perm'[d] = {}
    BY <1>1, <1>3, Parts DEF LifeOK
  <2>3. \A d, b, x \in Envs : x \in Forking(d)' /\ x \in Forking(b)' => d = b
    BY <1>4, Parts DEF LifeOK
  <2>4. \A d \in Envs : \A b \in Forking(d)' : state'[b] = "embryo"
    BY <1>3, <1>4, <1>7, Parts DEF LifeOK
  <2> QED BY <2>1, <2>2, <2>3, <2>4 DEF LifeOK
<1>9. \A d \in Envs : \A a : Mapped(d, a)' <=> Mapped(d, a)
  BY <1>1 DEF Mapped
<1>10. LocalOK(c)'
  <2>1. fork'[c].pc = "out" /\ fault'[c].pc = "out" /\ Forking(c)' = {}
    BY <1>1, <1>2, <1>3, <1>4 DEF Idle, Forking
  <2>2. Stacks(c)'
    BY <1>1, <1>2, <1>9, Parts DEF Stacks
  <2>3. Mends(c)'
    <3>1. upcall[c] => Mapped(c, UXSTACK)
      BY <1>2, Parts DEF Mends
    <3>2. (\E a \in DOMAIN perm[c] : perm[c][a] = "COW") => ~eager
      BY <1>2, Parts DEF Stacks
    <3>3. ~eager => unlucky[c] \/ upcall[c]
      BY <1>1, <1>2, Parts DEF Mends
    <3> QED BY <1>1, <1>2, <1>9, <2>1, <3>1, <3>2, <3>3 DEF Mends
  <2>4. Reads(c)' /\ Gives(c)' /\ Faults(c)'
    BY <1>2, <1>9, <2>1 DEF Reads, Gives, Faults, Mapping, Late
  <2> QED BY <2>2, <2>3, <2>4 DEF LocalOK
<1>11. LocalOK(e)'
  <2>1. fork'[e].pc = "out"
    BY <1>3 DEF Idle
  <2>2. Stacks(e)' /\ Reads(e)' /\ Gives(e)'
    BY <1>1, <1>4, <1>9, <2>1, Parts DEF Stacks, Reads, Gives, Mapping, Late
  <2>3. Mends(e)'
    BY <1>1, <1>2, <1>3, <1>4, <1>9, <2>1, Parts DEF Mends
  <2>4. Faults(e)'
    BY <1>1, <1>9, <2>1, Parts DEF Faults, Idle
  <2> QED BY <2>2, <2>3, <2>4 DEF LocalOK
<1>12. \A d \in Envs : d # e /\ d # c => LocalOK(d)'
  <2>1. \A d \in Envs : d # e /\ d # c => Untouched(d)
    BY <1>1, <1>3 DEF Untouched
  <2> QED BY <1>1, <1>2, <2>1, OthersLocal
<1> QED BY <1>5, <1>6, <1>8, <1>10, <1>11, <1>12 DEF CowInv

(* Our own entry becomes copy-on-write, which ends Exclusive's exception.    *)
LEMMA DuppageParentInv ==
    ASSUME CowInv, NEW e \in Envs, DuppageParent(e) PROVE CowInv'
<1> PICK va, i : va = Va(e) /\ i = fork[e].i + 1
  OBVIOUS
<1>1. /\ fork[e].pc = "map_parent" /\ fault[e] = Idle /\ state[e] = "alive" /\ ~eager
      /\ Map(e, va, e, va, "COW") /\ Loop(e, "scan", i, "RO")
      /\ UNCHANGED <<state, upcall, unlucky, eager, fault>>
  BY Parts DEF DuppageParent, ForkAt, Executes, Reads, NextPage, Quiet
<1>2. /\ Child(e) \in Envs /\ Forking(e) = {Child(e)} /\ Child(e) # e
      /\ fork[e].i \in 1..Len(VaSeq) /\ i \in 1..(Len(VaSeq) + 1) /\ Len(VaSeq) \in Nat
      /\ va \in Shown /\ va \in Places /\ va # TEMP /\ va # UXSTACK /\ Mapped(e, va)
  <2>1. /\ Child(e) \in Envs /\ Forking(e) = {Child(e)} /\ Child(e) # e
    BY <1>1, ChildIs
  <2>2. /\ fork[e].i \in 1..Len(VaSeq)
        /\ va \in Shown /\ va \in Places /\ va # TEMP /\ va # UXSTACK /\ Mapped(e, va)
    BY <1>1, ScannedIs DEF Mapping
  <2> QED BY <2>1, <2>2, Addresses
<1>3. /\ MemoryOK' /\ Binds(e, va, "COW")
      /\ \A d, b, xa, ya : Same(pages', d, xa, b, ya) <=> Same(pages, d, xa, b, ya)
      /\ \A d, xa, v : Content(pages', d, xa, v) <=> Content(pages, d, xa, v)
  <2>1. /\ MemoryOK' /\ Binds(e, va, "COW")
        /\ \A d, b, xa, ya : Same(pages', d, xa, b, ya) <=>
              IF d = e /\ xa = va THEN Same(pages, e, va, b, ya) \/ (b = e /\ ya = va)
              ELSE IF b = e /\ ya = va THEN Same(pages, e, va, d, xa)
              ELSE Same(pages, d, xa, b, ya)
        /\ \A d, xa, v : Content(pages', d, xa, v) <=>
              IF d = e /\ xa = va THEN Content(pages, e, va, v) ELSE Content(pages, d, xa, v)
    BY <1>1, <1>2, Parts, MapEffect DEF Perms
  <2>2. Same(pages, e, va, e, va) /\ \A d, xa : Same(pages, e, va, d, xa) <=> Same(pages, d, xa, e, va)
    BY <1>2, Parts, SharingIsOfMapped
  <2> QED BY <2>1, <2>2
<1>4. /\ fork'[e].pc = "scan" /\ fork'[e].i = i /\ Forking(e)' = Forking(e)
      /\ \A d \in Envs \ {e} : fork'[d] = fork[d] /\ Forking(d)' = Forking(d)
      /\ fork' = [fork EXCEPT ![e] = [pc |-> "scan", child |-> Child(e), i |-> i, pte |-> "RO"]]
  <2>1. fork[e].pc \notin {"out", "exofork"} /\ PcOK /\ Loop(e, "scan", i, "RO")
    BY <1>1, Parts
  <2>2. /\ fork'[e].pc = "scan" /\ fork'[e].i = i /\ Forking(e)' = Forking(e)
        /\ \A d \in Envs \ {e} : fork'[d] = fork[d] /\ Forking(d)' = Forking(d)
    BY <2>1, LoopMoves
  <2> QED BY <2>1, <2>2 DEF Loop
<1>5. /\ \A d \in Envs : \A a : Mapped(d, a)' <=> Mapped(d, a)
      /\ perm'[e][va] = "COW" /\ \A a : Mapped(e, a) /\ a # va => perm'[e][a] = perm[e][a]
      /\ \A d \in Envs \ {e} : perm'[d] = perm[d]
  BY <1>2, <1>3 DEF Binds, Mapped
<1>6. FlagsOK' /\ PcOK'
  <2>1. [pc |-> "scan", child |-> Child(e), i |-> i, pte |-> "RO"] \in Making
    BY <1>2 DEF Making, Perms
  <2> QED BY <1>1, <1>4, <2>1, Parts DEF FlagsOK, PcOK
<1>7. LifeOK'
  BY <1>1, <1>4, <1>5, LifeGoesOn
<1>8. LocalOK(e)'
  <2>1. Reads(e)'
    BY <1>1, <1>4 DEF Reads, Mapping, Late
  <2>2. Stacks(e)'
    BY <1>1, <1>2, <1>5, Parts DEF Stacks
  <2>3. Mends(e)'
    BY <1>1, <1>2, <1>4, <1>5, Parts DEF Mends
  <2>4. Gives(e)'
    <3>1. \A a \in Shown : Given(e, a)' <=> Given(e, a)
      BY <1>1, <1>2, <1>4 DEF Given, Va
    <3> QED BY <1>2, <1>4, <1>5, <3>1, Parts DEF Gives
  <2>5. Faults(e)'
    BY <1>1, <1>4, <1>5, Parts DEF Faults, Idle
  <2> QED BY <2>1, <2>2, <2>3, <2>4, <2>5 DEF LocalOK
<1>9. \A d \in Envs : d # e => LocalOK(d)'
  BY <1>1, <1>4, <1>5, OnlyItself DEF Untouched
<1>10. TempOK'
  <2>1. \A d, b \in Envs : \A wa \in Places : Same(pages', d, TEMP, b, wa) =>
             \/ b = d /\ wa = TEMP
             \/ fault'[d].pc = "unmap" /\ b = d /\ wa = fault'[d].va
             \/ fork'[d].pc \in {"v0_copy", "v0_unmap"} /\ b = Child(d)' /\ wa = Va(d)'
    BY <1>1, <1>3, <1>4, Parts DEF TempOK, Child, Va
  <2>2. \A d \in Envs : fork'[d].pc = "v0_copy" => Same(pages', d, TEMP, Child(d)', Va(d)')
    BY <1>1, <1>3, <1>4, Parts DEF TempOK, Child, Va
  <2>3. \A d \in Envs : fault'[d].pc = "map" =>
          \A v \in Values : Content(pages', d, TEMP, v) <=> Content(pages', d, fault'[d].va, v)
    BY <1>1, <1>3, Parts DEF TempOK
  <2> QED BY <2>1, <2>2, <2>3 DEF TempOK
<1>11. Exclusive'
  <2> SUFFICES ASSUME NEW d \in Envs, NEW b \in Envs, NEW xa \in Shown, NEW ya \in Shown,
                      Same(pages', d, xa, b, ya), perm'[d][xa] = "W"
               PROVE  \/ d = b /\ xa = ya
                      \/ fork'[d].pc = "map_parent" /\ b = Child(d)' /\ xa = Va(d)' /\ ya = xa
    BY DEF Exclusive
  <2>1. ~(d = e /\ xa = va) /\ Same(pages, d, xa, b, ya)
    BY <1>3, <1>5
  <2>2. perm[d][xa] = "W"
    BY <1>5, <2>1, Parts, SharingIsOfMapped
  <2>3. \/ d = b /\ xa = ya
        \/ fork[d].pc = "map_parent" /\ b = Child(d) /\ xa = Va(d) /\ ya = xa
    BY <2>1, <2>2, Parts DEF Exclusive
  <2>4. d # e => fork'[d].pc = fork[d].pc /\ Child(d)' = Child(d) /\ Va(d)' = Va(d)
    BY <1>4 DEF Child, Va
  <2> QED BY <2>1, <2>3, <2>4
<1> QED BY <1>3, <1>6, <1>7, <1>8, <1>9, <1>10, <1>11 DEF CowInv

(* With fork_v0() there is no page fault, and nothing that they need. *)
LEMMA EagerIs ==
    ASSUME CowInv, eager
    PROVE  \A d \in Envs : /\ fault[d].pc \in {"out", "panicked"} /\ ~Mapped(d, UXSTACK) /\ ~upcall[d]
                           /\ \A a \in DOMAIN perm[d] : perm[d][a] # "COW"
BY Parts DEF Stacks

(* The common part of the four steps of fork_v0()'s dup_or_share(). *)
LEMMA V0Is ==
    ASSUME CowInv, NEW e \in Envs, fork[e].pc \in {"v0_alloc", "v0_map", "v0_copy", "v0_unmap"}
    PROVE  /\ eager /\ Child(e) \in Envs /\ Child(e) # e /\ Forking(e) = {Child(e)}
           /\ state[e] = "alive" /\ state[Child(e)] = "embryo" /\ fork[Child(e)] = Idle
           /\ fault[Child(e)] = Idle /\ ~Mapped(Child(e), TEMP)
           /\ fork[e].i \in 1..Len(VaSeq) /\ fork[e].i + 1 \in 1..(Len(VaSeq) + 1)
           /\ fork[e].i \in 1..(Len(VaSeq) + 1) /\ fork[e].pte \in Perms
           /\ Va(e) \in Shown /\ Va(e) \in Places /\ Va(e) # TEMP /\ Va(e) # UXSTACK /\ Mapped(e, Va(e))
           /\ fork[e].pc # "v0_alloc" => Mapped(Child(e), Va(e))
<1>1. eager
  BY Parts DEF Reads
<1>2. /\ Child(e) \in Envs /\ Child(e) # e /\ Forking(e) = {Child(e)} /\ state[e] = "alive"
      /\ state[Child(e)] = "embryo" /\ fork[Child(e)] = Idle /\ fault[Child(e)] = Idle /\ ~Mapped(Child(e), TEMP)
  BY ChildIs
<1>3. /\ fork[e].i \in 1..Len(VaSeq) /\ fork[e].pte \in Perms /\ Va(e) \in Shown /\ Va(e) \in Places
      /\ Va(e) # TEMP /\ Va(e) # UXSTACK /\ Mapped(e, Va(e))
  BY ScannedIs DEF Mapping
<1>4. fork[e].pc # "v0_alloc" => Mapped(Child(e), Va(e))
  BY <1>2, <1>3, Parts DEF Gives, Given
<1>5. Len(VaSeq) \in Nat
  BY Addresses
<1>6. fork[e].i + 1 \in 1..(Len(VaSeq) + 1) /\ fork[e].i \in 1..(Len(VaSeq) + 1)
  BY <1>3, <1>5
<1> QED BY <1>1, <1>2, <1>3, <1>4, <1>6

(* What remains as it was when e moves on in fork_v0(). *)
LEMMA V0Moves ==
    ASSUME CowInv, NEW e \in Envs, fork[e].pc \in {"v0_alloc", "v0_map", "v0_copy", "v0_unmap"},
           NEW q \in {"v0_map", "v0_copy", "v0_unmap", "scan"}, NEW i \in 1..(Len(VaSeq) + 1), NEW t \in Perms,
           Loop(e, q, i, t), Quiet,
           \A d \in Envs : d # e /\ d # Child(e) => perm'[d] = perm[d]
    PROVE  /\ fork'[e].pc = q /\ fork'[e].i = i /\ Child(e)' = Child(e) /\ Va(e)' = VaSeq[i]
           /\ Forking(e)' = {Child(e)}
           /\ \A d \in Envs \ {e} : fork'[d] = fork[d] /\ Child(d)' = Child(d) /\ Va(d)' = Va(d)
           /\ FlagsOK' /\ PcOK' /\ LifeOK'
           /\ \A d \in Envs : d # e /\ d # Child(e) => LocalOK(d)'
<1>1. /\ eager /\ Child(e) \in Envs /\ Forking(e) = {Child(e)} /\ state[e] = "alive" /\ state[Child(e)] = "embryo"
  BY V0Is
<1>2. UNCHANGED <<state, upcall, unlucky, eager, fault>>
  BY DEF Quiet
<1>3. /\ fork'[e].pc = q /\ fork'[e].i = i /\ Child(e)' = Child(e) /\ Va(e)' = VaSeq[i]
      /\ Forking(e)' = Forking(e)
      /\ \A d \in Envs \ {e} : fork'[d] = fork[d] /\ Forking(d)' = Forking(d)
  <2>1. PcOK /\ fork[e].pc \notin {"out", "exofork"} /\ q \notin {"out", "exofork"}
    BY Parts
  <2>2. Loop(e, q, i, t) /\ e \in Envs
    OBVIOUS
  <2> QED BY ONLY <2>1, <2>2, LoopMoves
<1>4. FlagsOK' /\ PcOK'
  <2>1. [pc |-> q, child |-> Child(e), i |-> i, pte |-> t] \in Making
    BY <1>1 DEF Making, Mapping
  <2> QED BY <1>2, <2>1, Parts DEF FlagsOK, PcOK, Loop
<1>5. LifeOK'
  <2>1. \A d \in Envs : state[d] # "alive" => d # e
    BY <1>1
  <2>2. \A d \in Envs : state[d] = "free" => d # e /\ d # Child(e)
    BY <1>1
  <2> QED BY <1>2, <1>3, <2>1, <2>2, LifeGoesOn
<1>6. \A d \in Envs : d # e /\ d \notin Forking(e) => Untouched(d)
  BY <1>1, <1>2, <1>3 DEF Untouched
<1>7. \A d \in Envs : d # e /\ d \notin Forking(e) => LocalOK(d)'
  BY <1>1, <1>2, <1>6, OthersLocal
<1>8. \A d \in Envs \ {e} : Child(d)' = Child(d) /\ Va(d)' = Va(d)
  BY <1>3 DEF Child, Va
<1> QED BY <1>1, <1>3, <1>4, <1>5, <1>7, <1>8

(* The environment that runs fork_v0() after one of these steps. *)
LEMMA V0Local ==
    ASSUME CowInv, NEW e \in Envs, fork[e].pc \in {"v0_alloc", "v0_map", "v0_copy", "v0_unmap"}, fault[e] = Idle,
           NEW c, c = Child(e), Quiet,
           Forking(e)' = {c}, fork'[e].pc \in {"v0_map", "v0_copy", "v0_unmap", "scan"},
           fork'[e].pc # "scan" => fork'[e].i = fork[e].i,
           fork'[e].pc = "scan" => fork[e].pc = "v0_unmap" /\ fork'[e].i = fork[e].i + 1,
           fork'[e].pc = "v0_map" => perm'[c][Va(e)] = "W",
           Mapped(e, TEMP)' <=> fork'[e].pc \in {"v0_copy", "v0_unmap"},
           \A a : a # TEMP => (Mapped(e, a)' <=> Mapped(e, a)) /\ (Mapped(e, a) => perm'[e][a] = perm[e][a]),
           Mapped(e, TEMP)' => perm'[e][TEMP] # "COW",
           \A a \in Shown : Mapped(c, a)' <=> Mapped(c, a) \/ a = Va(e)
    PROVE  LocalOK(e)'
<1>1. /\ eager /\ Forking(e) = {c} /\ Va(e) \in Shown /\ Va(e) # TEMP /\ Mapped(e, Va(e)) /\ Va(e) # UXSTACK
      /\ fork[e].i \in 1..Len(VaSeq) /\ c \in Envs /\ c # e
      /\ fork[e].pc # "v0_alloc" => Mapped(c, Va(e))
  BY V0Is
<1>2. /\ UNCHANGED <<state, upcall, unlucky, eager, fault>>
      /\ UXSTACK # TEMP /\ Stack # TEMP /\ \A a \in Shown : a # TEMP
  BY Addresses DEF Quiet
<1>3. Va(e)' = IF fork'[e].pc = "scan" THEN Va(e)' ELSE Va(e)
  BY DEF Va
<1>4. Reads(e)'
  BY <1>1, <1>2, <1>3, Parts DEF Reads, Mapping, Late
<1>5. Stacks(e)'
  BY <1>1, <1>2, Parts DEF Stacks, Mapped
<1>6. Mends(e)'
  <2>1. \A a \in DOMAIN perm'[e] : perm'[e][a] # "COW"
    BY <1>1, <1>2, Parts DEF Stacks, Mapped
  <2> QED BY <1>1, <1>2, <2>1, Parts DEF Mends, Stacks
<1>7. Gives(e)'
  <2>1. \A a \in Shown : Given(e, a)' <=> Given(e, a) \/ a = Va(e)
    <3>1. CASE fork'[e].pc = "scan"
      BY <1>1, <3>1, Addresses, SMTT(30) DEF Given, Va
    <3>2. CASE fork'[e].pc # "scan"
      BY <1>1, <1>3, <3>2 DEF Given
    <3> QED BY <3>1, <3>2
  <2>2. \A a \in Shown : Mapped(c, a) <=> Mapped(e, a) /\ Given(e, a)
    BY <1>1, Parts DEF Gives
  <2> QED BY <1>1, <1>2, <1>3, <2>1, <2>2 DEF Gives
<1>8. Faults(e)'
  BY <1>2 DEF Faults, Idle
<1> QED BY <1>4, <1>5, <1>6, <1>7, <1>8 DEF LocalOK

(* fork_v0() gives the child a page.                                         *)
LEMMA V0AllocInv ==
    ASSUME CowInv, NEW e \in Envs, V0Alloc(e) PROVE CowInv'
<1> PICK c, va, i, t : c = Child(e) /\ va = Va(e) /\ i = fork[e].i /\ t = fork[e].pte
  OBVIOUS
<1>1. fork[e].pc = "v0_alloc" /\ fault[e] = Idle /\ state[e] = "alive"
  BY DEF V0Alloc, ForkAt, Executes
<1>2. CASE NoMemory
  BY <1>1, <1>2, PanicInv DEF V0Alloc, Idle
<1>3. CASE ~NoMemory
  <2>1. Alloc(c, va, "W") /\ Loop(e, "v0_map", i, t) /\ Quiet
    BY <1>3 DEF V0Alloc, GoTo
  <2>2. /\ eager /\ c \in Envs /\ c # e /\ Forking(e) = {c} /\ state[c] = "embryo"
        /\ fork[c] = Idle /\ fault[c] = Idle /\ ~Mapped(c, TEMP)
        /\ i \in 1..(Len(VaSeq) + 1) /\ t \in Perms
        /\ va \in Shown /\ va \in Places /\ va # TEMP /\ va # UXSTACK
    BY <1>1, V0Is
  <2>3. /\ MemoryOK' /\ Binds(c, va, "W")
        /\ \A d, b, xa, ya : Same(pages', d, xa, b, ya) <=>
              \/ Same(pages, d, xa, b, ya) /\ ~(d = c /\ xa = va) /\ ~(b = c /\ ya = va)
              \/ d = c /\ xa = va /\ b = c /\ ya = va
    BY <1>3, <2>1, <2>2, Parts, AllocEffect DEF Perms
  <2>4. /\ \A d \in Envs \ {c} : perm'[d] = perm[d]
        /\ \A d \in Envs : \A a : Mapped(d, a)' <=> Mapped(d, a) \/ (d = c /\ a = va)
        /\ perm'[c][va] = "W" /\ \A a : Mapped(c, a) /\ a # va => perm'[c][a] = perm[c][a]
    BY <2>3 DEF Binds, Mapped
  <2>5. /\ fork'[e].pc = "v0_map" /\ fork'[e].i = i /\ Forking(e)' = {c}
        /\ \A d \in Envs \ {e} : fork'[d] = fork[d] /\ Child(d)' = Child(d) /\ Va(d)' = Va(d)
        /\ FlagsOK' /\ PcOK' /\ LifeOK'
        /\ \A d \in Envs : d # e /\ d # c => LocalOK(d)'
    BY <1>1, <2>1, <2>2, <2>4, V0Moves
  <2>6. UNCHANGED <<state, upcall, unlucky, eager, fault>>
    BY <2>1 DEF Quiet
  <2>7. LocalOK(c)'
    <3>1. Stacks(c)'
      BY <2>2, <2>4, <2>6, Parts DEF Stacks, Mapped
    <3>2. ~upcall'[c]
      BY <2>2, <2>6, EagerIs
    <3> QED BY <2>2, <2>4, <2>5, <2>6, <3>1, <3>2, ChildLocal
  <2>8. LocalOK(e)'
    <3>1. ~Mapped(e, TEMP)
      BY <1>1, Parts DEF Faults, Idle
    <3>2. perm'[e] = perm[e] /\ (\A a : Mapped(e, a)' <=> Mapped(e, a))
          /\ \A a \in Shown : Mapped(c, a)' <=> Mapped(c, a) \/ a = Va(e)
      BY <2>2, <2>4
    <3> QED BY <1>1, <2>1, <2>4, <2>5, <3>1, <3>2, V0Local
  <2>9. TempOK'
    <3>1. \A d, b \in Envs : \A wa \in Places : Same(pages', d, TEMP, b, wa) =>
             \/ b = d /\ wa = TEMP
             \/ fork'[d].pc \in {"v0_copy", "v0_unmap"} /\ b = Child(d)' /\ wa = Va(d)'
      <4> SUFFICES ASSUME NEW d \in Envs, NEW b \in Envs, NEW wa \in Places, Same(pages', d, TEMP, b, wa)
                   PROVE  \/ b = d /\ wa = TEMP
                          \/ fork'[d].pc \in {"v0_copy", "v0_unmap"} /\ b = Child(d)' /\ wa = Va(d)'
        OBVIOUS
      <4>1. Same(pages, d, TEMP, b, wa)
        BY <2>2, <2>3
      <4>2. \/ b = d /\ wa = TEMP
            \/ fork[d].pc \in {"v0_copy", "v0_unmap"} /\ b = Child(d) /\ wa = Va(d)
        BY <2>2, <4>1, Parts, EagerIs DEF TempOK
      <4> QED BY <1>1, <2>5, <4>2
    <3>2. \A d \in Envs : fork'[d].pc = "v0_copy" => Same(pages', d, TEMP, Child(d)', Va(d)')
      <4> SUFFICES ASSUME NEW d \in Envs, fork'[d].pc = "v0_copy"
                   PROVE  Same(pages', d, TEMP, Child(d)', Va(d)')
        OBVIOUS
      <4>1. d # e /\ fork[d].pc = "v0_copy" /\ Child(d)' = Child(d) /\ Va(d)' = Va(d)
        BY <2>5
      <4>2. Child(d) # c
        BY <2>2, <4>1, ChildIs, Parts DEF LifeOK
      <4>3. Same(pages, d, TEMP, Child(d), Va(d))
        BY <4>1, Parts DEF TempOK
      <4> QED BY <2>2, <2>3, <4>1, <4>2, <4>3
    <3>3. \A d \in Envs : fault'[d].pc # "map"
      BY <2>2, <2>6, EagerIs
    <3> QED BY <3>1, <3>2, <3>3 DEF TempOK
  <2>10. Exclusive'
    <3> SUFFICES ASSUME NEW d \in Envs, NEW b \in Envs, NEW xa \in Shown, NEW ya \in Shown,
                        Same(pages', d, xa, b, ya), perm'[d][xa] = "W"
                 PROVE  \/ d = b /\ xa = ya
                        \/ fork'[d].pc = "map_parent" /\ b = Child(d)' /\ xa = Va(d)' /\ ya = xa
      BY DEF Exclusive
    <3>1. CASE d = c /\ xa = va
      BY <2>3, <3>1
    <3>2. CASE ~(d = c /\ xa = va)
      <4>1. Same(pages, d, xa, b, ya) /\ perm[d][xa] = "W"
        BY <2>3, <2>4, <3>2, Parts, SharingIsOfMapped
      <4>2. \/ d = b /\ xa = ya
            \/ fork[d].pc = "map_parent" /\ b = Child(d) /\ xa = Va(d) /\ ya = xa
        BY <4>1, Parts DEF Exclusive
      <4> QED BY <1>1, <2>5, <4>2
    <3> QED BY <3>1, <3>2
  <2> QED BY <2>3, <2>5, <2>7, <2>8, <2>9, <2>10 DEF CowInv
<1> QED BY <1>2, <1>3

(* It maps it in UTEMP: nobody else can see it.                              *)
LEMMA V0MapInv ==
    ASSUME CowInv, NEW e \in Envs, V0Map(e) PROVE CowInv'
<1> PICK c, va, i, t : c = Child(e) /\ va = Va(e) /\ i = fork[e].i /\ t = fork[e].pte
  OBVIOUS
<1>1. /\ fork[e].pc = "v0_map" /\ fault[e] = Idle /\ state[e] = "alive"
      /\ Map(c, va, e, TEMP, "W") /\ Loop(e, "v0_copy", i, t) /\ Quiet
  BY DEF V0Map, ForkAt, Executes, GoTo
<1>2. /\ eager /\ c \in Envs /\ c # e /\ Forking(e) = {c} /\ state[c] = "embryo"
      /\ fork[c] = Idle /\ fault[c] = Idle /\ ~Mapped(c, TEMP) /\ Mapped(c, va)
      /\ i \in 1..(Len(VaSeq) + 1) /\ t \in Perms
      /\ va \in Shown /\ va \in Places /\ va # TEMP /\ va # UXSTACK /\ TEMP \in Places
  BY <1>1, V0Is, Addresses
<1>3. /\ MemoryOK' /\ Binds(e, TEMP, "W")
      /\ \A d, b, xa, ya : Same(pages', d, xa, b, ya) <=>
            IF d = e /\ xa = TEMP THEN Same(pages, c, va, b, ya) \/ (b = e /\ ya = TEMP)
            ELSE IF b = e /\ ya = TEMP THEN Same(pages, c, va, d, xa)
            ELSE Same(pages, d, xa, b, ya)
  BY <1>1, <1>2, Parts, MapEffect DEF Perms
<1>4. /\ \A d \in Envs \ {e} : perm'[d] = perm[d]
      /\ \A d \in Envs : \A a : Mapped(d, a)' <=> Mapped(d, a) \/ (d = e /\ a = TEMP)
      /\ perm'[e][TEMP] = "W" /\ \A a : Mapped(e, a) /\ a # TEMP => perm'[e][a] = perm[e][a]
  BY <1>3 DEF Binds, Mapped
<1>5. /\ fork'[e].pc = "v0_copy" /\ fork'[e].i = i /\ Forking(e)' = {c} /\ Child(e)' = c /\ Va(e)' = va
      /\ \A d \in Envs \ {e} : fork'[d] = fork[d] /\ Child(d)' = Child(d) /\ Va(d)' = Va(d)
      /\ FlagsOK' /\ PcOK' /\ LifeOK'
      /\ \A d \in Envs : d # e /\ d # c => LocalOK(d)'
  BY <1>1, <1>2, <1>4, V0Moves DEF Va
<1>6. UNCHANGED <<state, upcall, unlucky, eager, fault>>
  BY <1>1 DEF Quiet
<1>7. LocalOK(c)'
  <2>1. Stacks(c)'
    BY <1>2, <1>4, <1>6, Parts DEF Stacks, Mapped
  <2>2. ~upcall'[c]
    BY <1>2, <1>6, EagerIs
  <2> QED BY <1>2, <1>4, <1>5, <1>6, <2>1, <2>2, ChildLocal
<1>8. LocalOK(e)'
  <2>1. \A a \in Shown : Mapped(c, a)' <=> Mapped(c, a) \/ a = Va(e)
    BY <1>2, <1>4
  <2> QED BY <1>1, <1>2, <1>4, <1>5, <2>1, V0Local
<1>9. \A b \in Envs : \A ya \in Places : Same(pages, c, va, b, ya) => b = c /\ ya = va
  <2> SUFFICES ASSUME NEW b \in Envs, NEW ya \in Places, Same(pages, c, va, b, ya) PROVE b = c /\ ya = va
    OBVIOUS
  <2>1. Mapped(b, ya) /\ Same(pages, b, ya, c, va)
    BY Parts, SharingIsOfMapped
  <2>2. ya # UXSTACK
    BY <1>2, <2>1, EagerIs
  <2>3. ya # TEMP
    <3> SUFFICES ASSUME ya = TEMP PROVE FALSE
      OBVIOUS
    <3>1. fork[b].pc \in {"v0_copy", "v0_unmap"} /\ c = Child(b)
      BY <1>2, <2>1, EagerIs, Parts DEF TempOK
    <3>2. c \in Forking(b)
      BY <3>1, ChildIs
    <3> QED BY <1>1, <1>2, <3>1, <3>2, Parts DEF LifeOK
  <2>4. ya \in Shown
    BY <2>2, <2>3 DEF Shown, Places
  <2>5. perm[c][va] = "W" /\ fork[c].pc # "map_parent"
    BY <1>1, <1>2, Parts DEF Gives, Idle
  <2> QED BY <1>2, <2>4, <2>5, Parts DEF Exclusive
<1>10. TempOK'
  <2>1. \A d, b \in Envs : \A wa \in Places : Same(pages', d, TEMP, b, wa) =>
           \/ b = d /\ wa = TEMP
           \/ fork'[d].pc \in {"v0_copy", "v0_unmap"} /\ b = Child(d)' /\ wa = Va(d)'
    <3> SUFFICES ASSUME NEW d \in Envs, NEW b \in Envs, NEW wa \in Places, Same(pages', d, TEMP, b, wa)
                 PROVE  \/ b = d /\ wa = TEMP
                        \/ fork'[d].pc \in {"v0_copy", "v0_unmap"} /\ b = Child(d)' /\ wa = Va(d)'
      OBVIOUS
    <3>1. CASE d = e
      BY <1>3, <1>5, <1>9, <3>1
    <3>2. CASE d # e
      <4>1. Same(pages, d, TEMP, b, wa)
        BY <1>2, <1>3, <1>9, <3>2
      <4>2. \/ b = d /\ wa = TEMP
            \/ fork[d].pc \in {"v0_copy", "v0_unmap"} /\ b = Child(d) /\ wa = Va(d)
        BY <1>2, <4>1, Parts, EagerIs DEF TempOK
      <4> QED BY <1>5, <3>2, <4>2
    <3> QED BY <3>1, <3>2
  <2>2. \A d \in Envs : fork'[d].pc = "v0_copy" => Same(pages', d, TEMP, Child(d)', Va(d)')
    <3> SUFFICES ASSUME NEW d \in Envs, fork'[d].pc = "v0_copy"
                 PROVE  Same(pages', d, TEMP, Child(d)', Va(d)')
      OBVIOUS
    <3>1. CASE d = e
      BY <1>2, <1>3, <1>5, <3>1, Parts, SharingIsOfMapped
    <3>2. CASE d # e
      <4>1. fork[d].pc = "v0_copy" /\ Child(d)' = Child(d) /\ Va(d)' = Va(d)
        BY <1>5, <3>2
      <4>2. Va(d) # TEMP /\ Same(pages, d, TEMP, Child(d), Va(d))
        BY <4>1, V0Is, Parts DEF TempOK
      <4> QED BY <1>3, <3>2, <4>1, <4>2
    <3> QED BY <3>1, <3>2
  <2>3. \A d \in Envs : fault'[d].pc # "map"
    BY <1>2, <1>6, EagerIs
  <2> QED BY <2>1, <2>2, <2>3 DEF TempOK
<1>11. Exclusive'
  <2> SUFFICES ASSUME NEW d \in Envs, NEW b \in Envs, NEW xa \in Shown, NEW ya \in Shown,
                      Same(pages', d, xa, b, ya), perm'[d][xa] = "W"
               PROVE  \/ d = b /\ xa = ya
                      \/ fork'[d].pc = "map_parent" /\ b = Child(d)' /\ xa = Va(d)' /\ ya = xa
    BY DEF Exclusive
  <2>1. xa # TEMP /\ ya # TEMP
    BY Addresses
  <2>2. Same(pages, d, xa, b, ya) /\ perm[d][xa] = "W"
    BY <1>3, <1>4, <2>1, Parts, SharingIsOfMapped
  <2>3. \/ d = b /\ xa = ya
        \/ fork[d].pc = "map_parent" /\ b = Child(d) /\ xa = Va(d) /\ ya = xa
    BY <2>2, Parts DEF Exclusive
  <2> QED BY <1>1, <1>5, <2>3
<1> QED BY <1>3, <1>5, <1>7, <1>8, <1>10, <1>11 DEF CowInv

(* It fills it.                                                              *)
LEMMA V0CopyInv ==
    ASSUME CowInv, NEW e \in Envs, V0Copy(e) PROVE CowInv'
<1> PICK c, va, i, t, w : /\ c = Child(e) /\ va = Va(e) /\ i = fork[e].i /\ t = fork[e].pte
                          /\ w = Data(e, va)
  OBVIOUS
<1>1. /\ fork[e].pc = "v0_copy" /\ fault[e] = Idle /\ state[e] = "alive"
      /\ Store(e, TEMP, w) /\ Loop(e, "v0_unmap", i, t) /\ Quiet
  BY DEF V0Copy, ForkAt, Executes, GoTo, CopyPage
<1>2. /\ eager /\ c \in Envs /\ c # e /\ Forking(e) = {c}
      /\ i \in 1..(Len(VaSeq) + 1) /\ t \in Perms /\ va \in Shown /\ TEMP \in Places
      /\ Mapped(c, va) /\ Mapped(e, va)
  BY <1>1, V0Is, Addresses
<1>3. w \in Values
  BY <1>2, Parts, PageIsUnique
<1>4. /\ MemoryOK' /\ perm' = perm
      /\ \A d, b, xa, ya : Same(pages', d, xa, b, ya) <=> Same(pages, d, xa, b, ya)
  BY <1>1, <1>2, <1>3, Parts, StoreEffect
<1>5. /\ fork'[e].pc = "v0_unmap" /\ fork'[e].i = i /\ Forking(e)' = {c} /\ Child(e)' = c /\ Va(e)' = va
      /\ \A d \in Envs \ {e} : fork'[d] = fork[d] /\ Child(d)' = Child(d) /\ Va(d)' = Va(d)
      /\ FlagsOK' /\ PcOK' /\ LifeOK'
      /\ \A d \in Envs : d # e /\ d # c => LocalOK(d)'
  BY <1>1, <1>2, <1>4, V0Moves DEF Va
<1>6. UNCHANGED <<state, upcall, unlucky, eager, fault>>
  BY <1>1 DEF Quiet
<1>7. LocalOK(c)'
  <2>1. LocalOK(c) /\ Untouched(c) /\ Forking(c) = {} /\ eager' = eager
    BY <1>1, <1>2, <1>4, <1>5, <1>6, V0Is DEF CowInv, Untouched, Forking, Idle
  <2> QED BY <1>2, <2>1, Frame
<1>8. LocalOK(e)'
  <2>1. Mapped(e, TEMP) /\ Mapped(e, TEMP)' /\ (\A a : Mapped(e, a)' <=> Mapped(e, a))
    BY <1>1, <1>4, Parts DEF Faults, Mapped
  <2>2. perm[e][TEMP] # "COW"
    BY <1>2, <2>1, EagerIs DEF Mapped
  <2>3. \A a \in Shown : Mapped(c, a)' <=> Mapped(c, a) \/ a = Va(e)
    BY <1>2, <1>4 DEF Mapped
  <2> QED BY <1>1, <1>2, <1>4, <1>5, <2>1, <2>2, <2>3, V0Local
<1>9. TempOK'
  <2>1. \A d, b \in Envs : \A wa \in Places : Same(pages', d, TEMP, b, wa) =>
           \/ b = d /\ wa = TEMP
           \/ fork'[d].pc \in {"v0_copy", "v0_unmap"} /\ b = Child(d)' /\ wa = Va(d)'
    <3> SUFFICES ASSUME NEW d \in Envs, NEW b \in Envs, NEW wa \in Places, Same(pages', d, TEMP, b, wa)
                 PROVE  \/ b = d /\ wa = TEMP
                        \/ fork'[d].pc \in {"v0_copy", "v0_unmap"} /\ b = Child(d)' /\ wa = Va(d)'
      OBVIOUS
    <3>1. \/ b = d /\ wa = TEMP
          \/ fork[d].pc \in {"v0_copy", "v0_unmap"} /\ b = Child(d) /\ wa = Va(d)
      BY <1>2, <1>4, Parts, EagerIs DEF TempOK
    <3> QED BY <1>5, <3>1
  <2>2. \A d \in Envs : fork'[d].pc = "v0_copy" => Same(pages', d, TEMP, Child(d)', Va(d)')
    BY <1>4, <1>5, Parts DEF TempOK
  <2>3. \A d \in Envs : fault'[d].pc # "map"
    BY <1>2, <1>6, EagerIs
  <2> QED BY <2>1, <2>2, <2>3 DEF TempOK
<1>10. Exclusive'
  <2> SUFFICES ASSUME NEW d \in Envs, NEW b \in Envs, NEW xa \in Shown, NEW ya \in Shown,
                      Same(pages', d, xa, b, ya), perm'[d][xa] = "W"
               PROVE  \/ d = b /\ xa = ya
                      \/ fork'[d].pc = "map_parent" /\ b = Child(d)' /\ xa = Va(d)' /\ ya = xa
    BY DEF Exclusive
  <2>1. \/ d = b /\ xa = ya
        \/ fork[d].pc = "map_parent" /\ b = Child(d) /\ xa = Va(d) /\ ya = xa
    BY <1>4, Parts DEF Exclusive
  <2> QED BY <1>1, <1>5, <2>1
<1> QED BY <1>4, <1>5, <1>7, <1>8, <1>9, <1>10 DEF CowInv

(* UTEMP is free again.                                                      *)
LEMMA V0UnmapInv ==
    ASSUME CowInv, NEW e \in Envs, V0Unmap(e) PROVE CowInv'
<1> PICK c, i : c = Child(e) /\ i = fork[e].i + 1
  OBVIOUS
<1>1. /\ fork[e].pc = "v0_unmap" /\ fault[e] = Idle /\ state[e] = "alive"
      /\ Unmap(e, TEMP) /\ Loop(e, "scan", i, "RO") /\ Quiet
  BY DEF V0Unmap, ForkAt, Executes, NextPage
<1>2. /\ eager /\ c \in Envs /\ c # e /\ Forking(e) = {c}
      /\ i \in 1..(Len(VaSeq) + 1) /\ Va(e) \in Shown /\ TEMP \in Places
      /\ Mapped(c, Va(e)) /\ "RO" \in Perms
  BY <1>1, V0Is, Addresses DEF Perms
<1>3. /\ MemoryOK'
      /\ DOMAIN perm'[e] = (DOMAIN perm[e]) \ {TEMP}
      /\ \A a \in (DOMAIN perm[e]) \ {TEMP} : perm'[e][a] = perm[e][a]
      /\ \A d \in Envs \ {e} : perm'[d] = perm[d]
      /\ \A d, b, xa, ya : Same(pages', d, xa, b, ya) <=>
            Same(pages, d, xa, b, ya) /\ ~(d = e /\ xa = TEMP) /\ ~(b = e /\ ya = TEMP)
  BY <1>1, <1>2, Parts, UnmapEffect
<1>4. \A d \in Envs : \A a : Mapped(d, a)' <=> Mapped(d, a) /\ ~(d = e /\ a = TEMP)
  BY <1>3 DEF Mapped
<1>5. /\ fork'[e].pc = "scan" /\ fork'[e].i = i /\ Forking(e)' = {c}
      /\ \A d \in Envs \ {e} : fork'[d] = fork[d] /\ Child(d)' = Child(d) /\ Va(d)' = Va(d)
      /\ FlagsOK' /\ PcOK' /\ LifeOK'
      /\ \A d \in Envs : d # e /\ d # c => LocalOK(d)'
  BY <1>1, <1>2, <1>3, V0Moves
<1>6. UNCHANGED <<state, upcall, unlucky, eager, fault>>
  BY <1>1 DEF Quiet
<1>7. LocalOK(c)'
  <2>1. LocalOK(c) /\ Untouched(c) /\ Forking(c) = {} /\ eager' = eager
    BY <1>1, <1>2, <1>3, <1>5, <1>6, V0Is DEF CowInv, Untouched, Forking, Idle
  <2> QED BY <1>2, <2>1, Frame
<1>8. LocalOK(e)'
  <2>1. \A a : a # TEMP => (Mapped(e, a)' <=> Mapped(e, a)) /\ (Mapped(e, a) => perm'[e][a] = perm[e][a])
    BY <1>3, <1>4 DEF Mapped
  <2>2. \A a \in Shown : Mapped(c, a)' <=> Mapped(c, a) \/ a = Va(e)
    BY <1>2, <1>4
  <2> QED BY <1>1, <1>2, <1>4, <1>5, <2>1, <2>2, V0Local
<1>9. TempOK'
  <2>1. \A d, b \in Envs : \A wa \in Places : Same(pages', d, TEMP, b, wa) =>
           \/ b = d /\ wa = TEMP
           \/ fork'[d].pc \in {"v0_copy", "v0_unmap"} /\ b = Child(d)' /\ wa = Va(d)'
    <3> SUFFICES ASSUME NEW d \in Envs, NEW b \in Envs, NEW wa \in Places, Same(pages', d, TEMP, b, wa)
                 PROVE  \/ b = d /\ wa = TEMP
                        \/ fork'[d].pc \in {"v0_copy", "v0_unmap"} /\ b = Child(d)' /\ wa = Va(d)'
      OBVIOUS
    <3>1. d # e /\ Same(pages, d, TEMP, b, wa)
      BY <1>3
    <3>2. \/ b = d /\ wa = TEMP
          \/ fork[d].pc \in {"v0_copy", "v0_unmap"} /\ b = Child(d) /\ wa = Va(d)
      BY <1>2, <3>1, Parts, EagerIs DEF TempOK
    <3> QED BY <1>5, <3>1, <3>2
  <2>2. \A d \in Envs : fork'[d].pc = "v0_copy" => Same(pages', d, TEMP, Child(d)', Va(d)')
    <3> SUFFICES ASSUME NEW d \in Envs, fork'[d].pc = "v0_copy"
                 PROVE  Same(pages', d, TEMP, Child(d)', Va(d)')
      OBVIOUS
    <3>1. d # e /\ fork[d].pc = "v0_copy" /\ Child(d)' = Child(d) /\ Va(d)' = Va(d)
      BY <1>5
    <3>2. Va(d) # TEMP /\ Same(pages, d, TEMP, Child(d), Va(d))
      BY <3>1, V0Is, Parts DEF TempOK
    <3> QED BY <1>3, <3>1, <3>2
  <2>3. \A d \in Envs : fault'[d].pc # "map"
    BY <1>2, <1>6, EagerIs
  <2> QED BY <2>1, <2>2, <2>3 DEF TempOK
<1>10. Exclusive'
  <2> SUFFICES ASSUME NEW d \in Envs, NEW b \in Envs, NEW xa \in Shown, NEW ya \in Shown,
                      Same(pages', d, xa, b, ya), perm'[d][xa] = "W"
               PROVE  \/ d = b /\ xa = ya
                      \/ fork'[d].pc = "map_parent" /\ b = Child(d)' /\ xa = Va(d)' /\ ya = xa
    BY DEF Exclusive
  <2>1. Same(pages, d, xa, b, ya) /\ perm[d][xa] = "W"
    BY <1>3, Parts, SharingIsOfMapped, Addresses DEF Mapped
  <2>2. \/ d = b /\ xa = ya
        \/ fork[d].pc = "map_parent" /\ b = Child(d) /\ xa = Va(d) /\ ya = xa
    BY <2>1, Parts DEF Exclusive
  <2> QED BY <1>1, <1>5, <2>2
<1> QED BY <1>3, <1>5, <1>7, <1>8, <1>9, <1>10 DEF CowInv

(* There are finitely many addresses.                                        *)
LEMMA AddressesAreFinite == IsFiniteSet(Vas)
<1>1. VaSeq \in Seq(Vas)
  BY CowForkAssumption DEF Vas
<1>2. VaSeq \in [1..Len(VaSeq) -> Vas] /\ Len(VaSeq) \in Nat /\ DOMAIN VaSeq = 1..Len(VaSeq)
  BY <1>1
<1>3. 1 \in Int /\ Len(VaSeq) \in Int
  BY <1>2
<1>4. IsFiniteSet(1..Len(VaSeq))
  BY ONLY <1>3, FS_Interval
<1>5. VaSeq \in Surjection(1..Len(VaSeq), Vas)
  BY <1>2 DEF Surjection, Vas, ToSet
<1> QED BY <1>4, <1>5, FS_Surjection

(* One page for each address of the first program.                           *)
LEMMA InitialPages ==
    ASSUME NEW m \in [Shown -> Values], NEW ps,
           ps = {[at |-> {<<First, va>>}, data |-> m[va]] : va \in Shown}
    PROVE  /\ PagesOK(ps)
           /\ \A e, va : Holds(ps, e, va) <=> e = First /\ va \in Shown
           /\ \A e, c, va, wa : Same(ps, e, va, c, wa) => c = e /\ va = wa
<1> DEFINE new(va) == [at |-> {<<First, va>>}, data |-> m[va]]
           f == [va \in Shown |-> new(va)]
<1>1. \A va \in Shown : new(va) \in Page /\ new(va).at # {}
  <2> SUFFICES ASSUME NEW va \in Shown PROVE new(va) \in Page /\ new(va).at # {}
    OBVIOUS
  <2>1. {<<First, va>>} \subseteq Envs \X Places /\ m[va] \in Values
    BY CowForkAssumption, Addresses
  <2> QED BY <2>1, PageIs
<1>2. IsFiniteSet(Shown) /\ Cardinality(Shown) <= MaxPages
  <2>1. IsFiniteSet(Shown)
    BY AddressesAreFinite, FS_Subset DEF Shown
  <2> QED BY <2>1, CowForkAssumption DEF Shown, Vas
<1>3. IsFiniteSet(ps) /\ Cardinality(ps) <= Cardinality(Shown)
  <2>1. f \in [Shown -> Page] /\ ps = {f[x] : x \in Shown}
    BY <1>1
  <2> HIDE DEF f
  <2>2. IsFiniteSet({f[x] : x \in Shown}) /\ Cardinality({f[x] : x \in Shown}) <= Cardinality(Shown)
    BY ONLY <1>2, <2>1, ImageOfPages, ZenonT(30)
  <2> QED BY ONLY <2>1, <2>2
<1>4. Cardinality(ps) <= MaxPages
  BY <1>2, <1>3, FS_CardinalityType, CowForkAssumption
<1>5. \A va \in Shown : \A e, xa : <<e, xa>> \in new(va).at <=> e = First /\ xa = va
  OBVIOUS
<1>6. \A va, wa \in Shown : \A x : x \in new(va).at /\ x \in new(wa).at => va = wa
  OBVIOUS
<1>7. (\A p \in ps : \E va \in Shown : p = new(va)) /\ \A va \in Shown : new(va) \in ps
  OBVIOUS
<1> HIDE DEF new
<1>8. Disjoint(ps)
  BY <1>6, <1>7 DEF Disjoint
<1>9. PagesOK(ps)
  BY <1>1, <1>3, <1>4, <1>7, <1>8 DEF PagesOK
<1>10. \A e, va : Holds(ps, e, va) <=> e = First /\ va \in Shown
  BY <1>5, <1>7 DEF Holds
<1>11. \A e, c, va, wa : Same(ps, e, va, c, wa) => c = e /\ va = wa
  BY <1>5, <1>7 DEF Same
<1> QED BY <1>9, <1>10, <1>11

(* The first program, as the kernel loads it.                                *)
LEMMA InitInv == Init => CowInv
<1> SUFFICES ASSUME Init PROVE CowInv
  OBVIOUS
<1>1. PICK m \in [Shown -> Values] : pages = {[at |-> {<<First, va>>}, data |-> m[va]] : va \in Shown}
  BY DEF Init, Shown
<1>2. /\ PagesOK(pages) /\ (\A e, va : Holds(pages, e, va) <=> e = First /\ va \in Shown)
      /\ \A e, c, va, wa : Same(pages, e, va, c, wa) => c = e /\ va = wa
  BY <1>1, InitialPages
<1>3. \A e \in Envs : DOMAIN perm[e] = IF e = First THEN Shown ELSE {}
  BY DEF Init, NoPages, Shown
<1>4. \A e \in Envs : \A va \in DOMAIN perm[e] : perm[e][va] = IF va \in ReadOnly THEN "RO" ELSE "W"
  BY DEF Init, NoPages
<1>5. perm \in [Envs -> UNION {[D -> Perms] : D \in SUBSET Places}]
  <2>1. [va \in Vas \ {UXSTACK} |-> IF va \in ReadOnly THEN "RO" ELSE "W"] \in [Shown -> Perms]
    BY DEF Shown, Perms
  <2>2. NoPages \in [{} -> Perms]
    BY DEF NoPages
  <2>3. Shown \in SUBSET Places /\ {} \in SUBSET Places
    BY Addresses
  <2>4. perm = [e \in Envs |-> IF e # First THEN NoPages
                               ELSE [va \in Vas \ {UXSTACK} |-> IF va \in ReadOnly THEN "RO" ELSE "W"]]
    BY DEF Init
  <2> QED BY <2>1, <2>2, <2>3, <2>4
<1>6. MemoryOK
  <2>1. \A e \in Envs, va \in Places : Mapped(e, va) <=> Holds(pages, e, va)
    BY <1>2, <1>3 DEF Mapped
  <2> QED BY <1>2, <1>5, <2>1 DEF MemoryOK
<1>7. FlagsOK /\ PcOK /\ \A e \in Envs : fork[e] = Idle /\ fault[e] = Idle /\ ~upcall[e]
  BY DEF Init, FlagsOK, PcOK
<1>8. \A e \in Envs : fork[e].pc = "out" /\ fault[e].pc = "out" /\ Forking(e) = {}
  BY <1>7 DEF Idle, Forking
<1>9. LifeOK
  <2>1. \A e \in Envs : state[e] = "free" => e # First
    BY DEF Init
  <2> QED BY <1>3, <1>7, <1>8, <2>1 DEF LifeOK
<1>10. \A e \in Envs : LocalOK(e)
  <2> SUFFICES ASSUME NEW e \in Envs PROVE LocalOK(e)
    OBVIOUS
  <2>1. Stacks(e)
    BY <1>3, <1>4, <1>7, <1>8, Addresses DEF Stacks, Mapped
  <2>2. Mends(e) /\ Gives(e) /\ Reads(e)
    BY <1>4, <1>7, <1>8 DEF Mends, Gives, Reads, Mapping, Late
  <2>3. Faults(e)
    BY <1>3, <1>8, Addresses DEF Faults, Mapped
  <2> QED BY <2>1, <2>2, <2>3 DEF LocalOK
<1>11. TempOK /\ Exclusive
  BY <1>2, <1>8 DEF TempOK, Exclusive
<1> QED BY <1>6, <1>7, <1>9, <1>10, <1>11 DEF CowInv

-----------------------------------------------------------------------------
(* The theorems.                                                             *)

(* Every step preserves the invariant.                                       *)
LEMMA StepInv == CowInv /\ [Next]_vars => CowInv'
<1> SUFFICES ASSUME CowInv, [Next]_vars PROVE CowInv'
  OBVIOUS
<1>1. CASE UNCHANGED vars
  <2>1. UNCHANGED <<state, perm, pages, upcall, unlucky, eager, fork, fault>>
    BY <1>1 DEF vars
  <2>2. MemoryOK' /\ TempOK' /\ Exclusive'
    BY <2>1, SharingStays
  <2>3. FlagsOK' /\ PcOK'
    BY <2>1, Parts DEF FlagsOK, PcOK
  <2>4. LifeOK'
    BY <2>1, LifeGoesOn DEF Forking
  <2>5. \A d \in Envs : LocalOK(d)'
    BY <2>1, Frame DEF Untouched, CowInv
  <2> QED BY <2>2, <2>3, <2>4, <2>5 DEF CowInv
<1>2. ASSUME NEW e \in Envs, Program(e) PROVE CowInv'
  <2>1. CASE Exit(e)
    BY <2>1, DestroyInv DEF Exit, Executes
  <2>2. ASSUME NEW va \in Vas, PageFault(e, va) PROVE CowInv'
    BY <2>2, PageFaultInv
  <2>3. ASSUME NEW va \in Vas, NEW v \in Values, Write(e, va, v) PROVE CowInv'
    BY <2>3, WriteInv
  <2> QED BY <1>2, <2>1, <2>2, <2>3 DEF Program
<1>3. ASSUME NEW e \in Envs, Pgfault(e) PROVE CowInv'
  BY <1>3, PgfaultAllocInv, PgfaultCopyInv, PgfaultMapInv, PgfaultUnmapInv DEF Pgfault
<1>4. ASSUME NEW e \in Envs, Fork(e) PROVE CowInv'
  BY <1>4, SetPgfaultHandlerInv, SysExoforkInv, ScanInv, DuppageChildInv, DuppageParentInv,
     ChildUxstackInv, ChildUpcallInv, StartChildInv DEF Fork
<1>5. ASSUME NEW e \in Envs, ForkV0(e) PROVE CowInv'
  BY <1>5, V0AllocInv, V0MapInv, V0CopyInv, V0UnmapInv DEF ForkV0
<1> QED BY <1>1, <1>2, <1>3, <1>4, <1>5 DEF Next

(* The inductive invariant of fork(): who maps what, who shares with whom    *)
(* and until when, whatever the interleaving of forks, faults, writes and    *)
(* exits.                                                                    *)
THEOREM CowInvariant == Spec => []CowInv
<1>1. Init => CowInv
  BY InitInv
<1>2. CowInv /\ [Next]_vars => CowInv'
  BY StepInv
<1> QED BY <1>1, <1>2, PTL DEF Spec

(* The types of the variables, and each mapped place is of exactly one page: *)
(* no page is freed while it is mapped (page_decref() of sys_page_map() and  *)
(* sys_page_unmap()).                                                        *)
THEOREM TypeCorrect == Spec => []TypeOK
<1>1. CowInv => TypeOK
  <2> SUFFICES ASSUME CowInv PROVE TypeOK
    OBVIOUS
  <2>1. \A e \in Envs : DOMAIN perm[e] \subseteq Vas \union {TEMP}
    BY Parts, SharingIsOfMapped DEF Places, Mapped
  <2>2. ASSUME NEW e \in Envs, NEW va \in DOMAIN perm[e]
        PROVE  perm[e][va] \in {"RO", "W", "COW"} /\ Cardinality({p \in pages : <<e, va>> \in p.at}) = 1
    <3> PICK one : one = {p \in pages : <<e, va>> \in p.at}
      OBVIOUS
    <3>1. Mapped(e, va) /\ MemoryOK
      BY <2>2, Parts DEF Mapped
    <3>2. one = {PageAt(e, va)} /\ perm[e][va] \in Perms
      BY <3>1, PageIsUnique
    <3>3. Cardinality(one) = 1
      BY <3>2, FS_Singleton
    <3> QED BY <3>2, <3>3 DEF Perms
  <2>3. \A p \in pages : p.data \in Values /\ p.at # {}
    BY Parts, PageParts DEF MemoryOK, PagesOK
  <2>4. Cardinality(pages) <= MaxPages
    BY Parts DEF MemoryOK, PagesOK
  <2> QED BY <2>1, <2>2, <2>3, <2>4, Parts DEF TypeOK, FlagsOK
<1> QED BY <1>1, CowInvariant, PTL

(* Whoever has copy-on-write pages can have its writes mended, unless        *)
(* set_pgfault_handler() found no memory: no program or child dies of a      *)
(* write to its own memory because of when fork() set its upcall.            *)
THEOREM Mended == Spec => []CowIsMended
<1>1. CowInv => CowIsMended
  BY Parts DEF CowIsMended, Mends, Stacks
<1> QED BY <1>1, CowInvariant, PTL

-----------------------------------------------------------------------------
(* fork() implements PrivateMemory: each step of CowFork maps to a step of   *)
(* PrivateMemory or to none. The memory of an environment is the pages that  *)
(* count, Done(); for a child those are the ones that the loop of its parent *)
(* has Passed().                                                             *)

(* What an environment has in its memory, as PrivateMemory sees it. *)
Sees(d, a, v) == a \in Shown /\ Mapped(d, a) /\ Done(d, a) /\ Content(pages, d, a, v)

(* The pages that e has given away: Done(), of the child of e. *)
Passed(e, a) ==
    \/ \E j \in 1..(fork[e].i - 1) : VaSeq[j] = a
    \/ fork[e].pc = "v0_unmap" /\ Va(e) = a
    \/ fork[e].pc = "map_parent" /\ Va(e) = a /\ ~(perm[e][a] = "W" /\ Same(pages, e, a, Child(e), a))

SeesMemory ==
    \A d \in Envs :
        /\ \A a, v : Sees(d, a, v) <=> a \in DOMAIN Memory[d] /\ Memory[d][a] = v
        /\ Memory[d] = [a \in DOMAIN Memory[d] |-> Memory[d][a]]
        /\ \A a \in DOMAIN Memory[d] : Memory[d][a] \in Values /\ a \in Shown

(* Sees() is the memory of the refinement mapping.                           *)
LEMMA MemoryIs == MemoryOK => SeesMemory
<1> SUFFICES ASSUME MemoryOK, NEW d \in Envs
             PROVE  /\ \A a, v : Sees(d, a, v) <=> a \in DOMAIN Memory[d] /\ Memory[d][a] = v
                    /\ Memory[d] = [a \in DOMAIN Memory[d] |-> Memory[d][a]]
                    /\ \A a \in DOMAIN Memory[d] : Memory[d][a] \in Values /\ a \in Shown
  BY DEF SeesMemory
<1>1. Memory[d] = [va \in {a \in Shown : Mapped(d, a) /\ Done(d, a)} |-> Data(d, va)]
  BY DEF Memory
<1>2. DOMAIN Memory[d] = {a \in Shown : Mapped(d, a) /\ Done(d, a)}
      /\ \A a \in DOMAIN Memory[d] : Memory[d][a] = Data(d, a)
  BY <1>1
<1>3. \A a : Mapped(d, a) => Data(d, a) \in Values /\ \A v : Content(pages, d, a, v) <=> v = Data(d, a)
  BY PageIsUnique
<1>4. Memory[d] = [a \in DOMAIN Memory[d] |-> Memory[d][a]]
  BY <1>1
<1> HIDE DEF Memory
<1> QED BY <1>2, <1>3, <1>4 DEF Sees

(* The same after a step.                                                    *)
LEMMA MemoryIsNext == MemoryOK' => SeesMemory'
BY MemoryIs, PTL

(* Who sees the same has the same memory.                                    *)
LEMMA MemoryKept ==
    ASSUME MemoryOK, MemoryOK', NEW d \in Envs, \A a, v : Sees(d, a, v)' <=> Sees(d, a, v)
    PROVE  Memory'[d] = Memory[d]
<1>1. /\ \A a, v : Sees(d, a, v) <=> a \in DOMAIN Memory[d] /\ Memory[d][a] = v
      /\ Memory[d] = [a \in DOMAIN Memory[d] |-> Memory[d][a]]
  BY MemoryIs DEF SeesMemory
<1>2. /\ \A a, v : Sees(d, a, v)' <=> a \in DOMAIN Memory'[d] /\ Memory'[d][a] = v
      /\ Memory'[d] = [a \in DOMAIN Memory'[d] |-> Memory'[d][a]]
  BY MemoryIsNext DEF SeesMemory
<1>3. DOMAIN Memory'[d] = DOMAIN Memory[d] /\ \A a \in DOMAIN Memory[d] : Memory'[d][a] = Memory[d][a]
  BY <1>1, <1>2
<1> QED BY <1>1, <1>2, <1>3

(* When the pages of an environment are its memory. *)
DoneMeans ==
    \A d \in Envs : \A a \in Shown : Mapped(d, a) =>
        /\ state[d] = "alive" => Done(d, a)
        /\ \A e \in Envs : d \in Forking(e) => (Done(d, a) <=> Passed(e, a))
        /\ state[d] # "alive" /\ (\A e \in Envs : d \notin Forking(e)) => ~Done(d, a)

(* Done() of a living environment, of a child, and of the child of nobody.   *)
LEMMA DoneIs == CowInv => DoneMeans
<1> SUFFICES ASSUME CowInv, NEW d \in Envs, NEW a \in Shown, Mapped(d, a)
             PROVE  /\ state[d] = "alive" => Done(d, a)
                    /\ \A e \in Envs : d \in Forking(e) => (Done(d, a) <=> Passed(e, a))
                    /\ state[d] # "alive" /\ (\A e \in Envs : d \notin Forking(e)) => ~Done(d, a)
  BY DEF DoneMeans
<1>1. ASSUME NEW e \in Envs, d \in Forking(e) PROVE Done(d, a) <=> Passed(e, a)
  <2>1. d = Child(e) /\ state[d] # "alive" /\ \A f \in Envs : d \in Forking(f) => f = e
    BY <1>1, ForkingIs, Parts DEF LifeOK
  <2>2. fork[e].pc = "map_parent" /\ Va(e) = a =>
           Mapped(e, a) /\ (PageAt(e, a) = PageAt(d, a) <=> Same(pages, e, a, d, a))
    <3> SUFFICES ASSUME fork[e].pc = "map_parent", Va(e) = a
                 PROVE  Mapped(e, a) /\ (PageAt(e, a) = PageAt(d, a) <=> Same(pages, e, a, d, a))
      OBVIOUS
    <3>1. Mapped(e, a)
      BY ScannedIs DEF Mapping
    <3>2. MemoryOK /\ Mapped(e, a) /\ e \in Envs /\ d \in Envs /\ Mapped(d, a)
      BY <3>1, Parts
    <3>3. PageAt(e, a) = PageAt(d, a) <=> Same(pages, e, a, d, a)
      BY ONLY <3>2, PageIsUnique
    <3> QED BY <3>1, <3>3
  <2>3. Done(d, a) <=> \/ \E j \in 1..(fork[e].i - 1) : VaSeq[j] = a
                       \/ /\ fork[e].pc \in {"v0_unmap", "map_parent"} /\ Va(e) = a
                          /\ ~(/\ fork[e].pc = "map_parent" /\ perm[e][a] = "W"
                                /\ PageAt(e, a) = PageAt(d, a))
    BY <1>1, <2>1 DEF Done
  <2> QED BY <2>1, <2>2, <2>3 DEF Passed
<1> QED BY <1>1 DEF Done

(* The same after a step.                                                    *)
LEMMA DoneIsNext == CowInv' => DoneMeans'
BY DoneIs, PTL

(* A step that leaves the loop of f where it was.                            *)
LEMMA PassedKept ==
    ASSUME CowInv, NEW f \in Envs, NEW b \in Forking(f), NEW a \in Shown, fork'[f] = fork[f],
           Mapped(f, a) => (perm'[f][a] = "W" <=> perm[f][a] = "W"),
           Same(pages', f, a, b, a) <=> Same(pages, f, a, b, a)
    PROVE  Passed(f, a)' <=> Passed(f, a)
<1>1. b = Child(f) /\ Child(f)' = Child(f) /\ Va(f)' = Va(f)
  BY ForkingIs DEF Child, Va
<1>2. Same(pages, f, a, b, a) => Mapped(f, a)
  BY Parts, SharingIsOfMapped
<1> QED BY <1>1, <1>2 DEF Passed
(* A step of e that leaves who lives and who forks whom, and all pages but   *)
(* the one of c at x.                                                        *)
AllBut(e, c, x) ==
    /\ state' = state
    /\ \A f \in Envs : Forking(f)' = Forking(f)
    /\ \A f \in Envs \ {e} : fork'[f] = fork[f]
    /\ \A d \in Envs, a \in Shown : ~(d = c /\ a = x) =>
           /\ Mapped(d, a)' <=> Mapped(d, a)
           /\ \A v : Content(pages', d, a, v) <=> Content(pages, d, a, v)
    /\ \A f \in Envs \ {e}, a \in Shown : Mapped(f, a) => (perm'[f][a] = "W" <=> perm[f][a] = "W")
    /\ \A f \in Envs \ {e}, a \in Shown : \A b \in Forking(f) :
           Same(pages', f, a, b, a) <=> Same(pages, f, a, b, a)
    /\ \A a \in Shown, d \in Forking(e) :
           Mapped(d, a) /\ ~(d = c /\ a = x) => (Passed(e, a)' <=> Passed(e, a))

(* Nobody sees a difference but c, at x.                                     *)
LEMMA OnlySeen ==
    ASSUME CowInv, CowInv', NEW e \in Envs, NEW c, NEW x, AllBut(e, c, x)
    PROVE  \A d \in Envs : /\ d # c => Memory'[d] = Memory[d]
                           /\ \A a, v : ~(d = c /\ a = x) => (Sees(d, a, v)' <=> Sees(d, a, v))
<1> USE DEF AllBut
<1>1. ASSUME NEW d \in Envs, NEW a \in Shown, ~(d = c /\ a = x), Mapped(d, a)
      PROVE  Done(d, a)' <=> Done(d, a)
  <2>1. CASE state[d] = "alive"
    BY <1>1, <2>1, DoneIs, DoneIsNext DEF DoneMeans
  <2>2. CASE state[d] # "alive" /\ \A f \in Envs : d \notin Forking(f)
    BY <1>1, <2>2, DoneIs, DoneIsNext DEF DoneMeans
  <2>3. ASSUME NEW f \in Envs, d \in Forking(f) PROVE Done(d, a)' <=> Done(d, a)
    <3>1. Passed(f, a)' <=> Passed(f, a)
      <4>1. CASE f = e
        BY <1>1, <2>3, <4>1
      <4>2. CASE f # e
        BY <2>3, <4>2, PassedKept
      <4> QED BY <4>1, <4>2
    <3>2. Mapped(d, a)' /\ d \in Forking(f)'
      BY <1>1, <2>3
    <3>3. Done(d, a) <=> Passed(f, a)
      BY <1>1, <2>3, DoneIs DEF DoneMeans
    <3>4. Done(d, a)' <=> Passed(f, a)'
      BY <3>2, DoneIsNext DEF DoneMeans
    <3> QED BY <3>1, <3>3, <3>4
  <2> QED BY <2>1, <2>2, <2>3
<1>2. \A d \in Envs : \A a, v : ~(d = c /\ a = x) => (Sees(d, a, v)' <=> Sees(d, a, v))
  BY <1>1 DEF Sees
<1>3. \A d \in Envs : d # c => Memory'[d] = Memory[d]
  BY <1>2, MemoryKept, Parts DEF CowInv
<1> QED BY <1>2, <1>3

(* A step after which the one page shows what it showed: PrivateMemory does  *)
(* not see it.                                                               *)
LEMMA AsSeen ==
    ASSUME CowInv, CowInv', NEW e \in Envs, NEW c, NEW x, AllBut(e, c, x),
           \A v : Sees(c, x, v)' <=> Sees(c, x, v)
    PROVE  UNCHANGED P!vars
<1>1. \A d \in Envs : \A a, v : Sees(d, a, v)' <=> Sees(d, a, v)
  BY OnlySeen
<1>2. \A d \in Envs : Memory'[d] = Memory[d]
  BY <1>1, MemoryKept, Parts DEF CowInv
<1>3. Memory' = Memory
  <2>1. Memory = [d \in Envs |-> Memory[d]] /\ Memory' = [d \in Envs |-> Memory'[d]]
    BY DEF Memory
  <2> QED BY <1>2, <2>1
<1> QED BY <1>3 DEF P!vars, AllBut

(* No page of anybody. *)
LEMMA Unseen ==
    ASSUME CowInv, CowInv', NEW e \in Envs, AllBut(e, e, TEMP)
    PROVE  UNCHANGED P!vars
<1>1. \A v : ~Sees(e, TEMP, v)' /\ ~Sees(e, TEMP, v)
  BY Addresses DEF Sees
<1> QED BY <1>1, AsSeen

(* The page of the child counts from now on: PrivateMemory's Copy(). *)
LEMMA CopySeen ==
    ASSUME CowInv, CowInv', NEW e \in Envs, NEW c \in Forking(e), NEW x \in Shown, NEW w,
           AllBut(e, c, x), Sees(e, x, w), \A v : ~Sees(c, x, v), Sees(c, x, w)'
    PROVE  P!Copy(e, c, x)
<1>1. c \in Envs /\ c # e /\ state[e] = "alive" /\ MemoryOK /\ MemoryOK'
  BY ForkingIs, Parts DEF CowInv
<1>2. \A d \in Envs : /\ d # c => Memory'[d] = Memory[d]
                      /\ \A a, v : ~(d = c /\ a = x) => (Sees(d, a, v)' <=> Sees(d, a, v))
  BY OnlySeen
<1>3. /\ \A a, v : Sees(c, a, v) <=> a \in DOMAIN Memory[c] /\ Memory[c][a] = v
      /\ Memory[e][x] = w /\ x \in DOMAIN Memory[e]
  BY <1>1, MemoryIs DEF SeesMemory
<1>4. /\ \A a, v : Sees(c, a, v)' <=> a \in DOMAIN Memory'[c] /\ Memory'[c][a] = v
      /\ Memory'[c] = [a \in DOMAIN Memory'[c] |-> Memory'[c][a]]
  BY <1>1, MemoryIsNext DEF SeesMemory
<1>5. x \notin DOMAIN Memory[c] /\ Memory'[c][x] = w
  BY <1>3, <1>4
<1>6. DOMAIN Memory'[c] = (DOMAIN Memory[c]) \union {x}
      /\ \A a \in DOMAIN Memory[c] : Memory'[c][a] = Memory[c][a]
  <2>1. \A a : a # x => \A v : Sees(c, a, v)' <=> Sees(c, a, v)
    BY <1>1, <1>2
  <2>2. \A a : a # x => /\ (a \in DOMAIN Memory'[c] <=> a \in DOMAIN Memory[c])
                       /\ (a \in DOMAIN Memory[c] => Memory'[c][a] = Memory[c][a])
    BY <1>3, <1>4, <2>1
  <2>3. x \in DOMAIN Memory'[c]
    BY <1>4
  <2> QED BY <1>5, <2>2, <2>3
<1>7. Memory'[c] = [a \in (DOMAIN Memory[c]) \union {x} |-> IF a = x THEN Memory[e][x] ELSE Memory[c][a]]
  BY <1>3, <1>4, <1>5, <1>6
<1>8. Memory' = [Memory EXCEPT ![c] = [a \in (DOMAIN @) \union {x} |-> IF a = x THEN Memory[e][x] ELSE @[a]]]
  <2>1. DOMAIN Memory = Envs /\ Memory' = [d \in Envs |-> Memory'[d]]
    BY DEF Memory
  <2> QED BY <1>1, <1>7, <1>2, <2>1
<1>9. [d \in Envs |-> Forking(d)]' = [d \in Envs |-> Forking(d)] /\ state' = state
  BY DEF AllBut
<1> QED BY <1>1, <1>3, <1>5, <1>8, <1>9 DEF P!Copy

-----------------------------------------------------------------------------
(* The steps of pgfault(): nobody sees them.                                 *)

(* The position of pgfault() is not in PrivateMemory.                        *)
LEMMA FaultOnly ==
    UNCHANGED <<state, perm, pages, fork>> => UNCHANGED P!vars
<1> SUFFICES ASSUME UNCHANGED <<state, perm, pages, fork>> PROVE UNCHANGED P!vars
  OBVIOUS
<1>1. /\ \A d : Forking(d)' = Forking(d)
      /\ \A d, a : (Mapped(d, a)' <=> Mapped(d, a)) /\ (Done(d, a)' <=> Done(d, a)) /\ Data(d, a)' = Data(d, a)
  BY DEF Forking, Mapped, Done, Data, PageAt, Va
<1>2. Memory' = Memory
  BY <1>1 DEF Memory
<1> QED BY <1>1, <1>2 DEF P!vars

(* The pages that programs see are as they were. *)
ShownKept ==
    /\ \A d \in Envs, a \in Shown : /\ Mapped(d, a)' <=> Mapped(d, a)
                                    /\ Mapped(d, a) => perm'[d][a] = perm[d][a]
                                    /\ \A v : Content(pages', d, a, v) <=> Content(pages, d, a, v)
    /\ \A d, b \in Envs, a \in Shown : Same(pages', d, a, b, a) <=> Same(pages, d, a, b, a)

(* Steps of the loop that leave the pages alone.                             *)
LEMMA ShownUnseen ==
    ASSUME CowInv, CowInv', NEW e \in Envs, state' = state, ShownKept,
           \A f \in Envs : Forking(f)' = Forking(f), \A f \in Envs \ {e} : fork'[f] = fork[f],
           \A a \in Shown, d \in Forking(e) : Mapped(d, a) => (Passed(e, a)' <=> Passed(e, a))
    PROVE  UNCHANGED P!vars
<1>1. \A f \in Envs : \A b \in Forking(f) : b \in Envs
  BY ForkingIs
<1>2. AllBut(e, e, TEMP)
  BY <1>1 DEF AllBut, ShownKept
<1> QED BY <1>2, Unseen

(* Steps that leave the loop and the pages alone.                            *)
LEMMA ForkUnseen ==
    ASSUME CowInv, CowInv', NEW e \in Envs, state' = state, fork' = fork, ShownKept
    PROVE  UNCHANGED P!vars
<1>1. \A f \in Envs : \A b \in Forking(f) : b \in Envs
  BY ForkingIs
<1>2. ASSUME NEW a \in Shown, NEW d \in Forking(e) PROVE Passed(e, a)' <=> Passed(e, a)
  <2>1. Mapped(e, a) => (perm'[e][a] = "W" <=> perm[e][a] = "W")
    BY DEF ShownKept
  <2>2. Same(pages', e, a, d, a) <=> Same(pages, e, a, d, a)
    BY <1>1 DEF ShownKept
  <2> QED BY <2>1, <2>2, PassedKept
<1>3. \A f \in Envs : Forking(f)' = Forking(f)
  BY DEF Forking
<1> QED BY <1>2, <1>3, ShownUnseen

(* Between two pages the child has just what the loop has passed.            *)
LEMMA PassesAll ==
    ASSUME CowInv, CowInv', NEW e \in Envs, fork[e].pc \notin {"map_parent", "v0_map", "v0_copy"},
           fork'[e].pc \notin {"map_parent", "v0_map", "v0_copy"}, NEW d \in Forking(e), Forking(e)' = Forking(e),
           NEW a \in Shown, Mapped(d, a), Mapped(d, a)'
    PROVE  Passed(e, a) /\ Passed(e, a)'
<1>1. Gives(e) /\ Gives(e)'
  BY DEF CowInv, LocalOK
<1>2. Given(e, a) /\ Given(e, a)'
  BY <1>1 DEF Gives
<1> QED BY <1>2 DEF Passed, Given

(* The page of PFTEMP is seen by nobody.                                     *)
LEMMA PgfaultAllocMaps ==
    ASSUME CowInv, CowInv', NEW e \in Envs, PgfaultAlloc(e) PROVE UNCHANGED P!vars
<1>1. CASE NoMemory
  BY <1>1, FaultOnly DEF PgfaultAlloc, Panic
<1>2. CASE ~NoMemory
  <2>1. Alloc(e, TEMP, "W") /\ fork' = fork /\ state' = state
    BY <1>2 DEF PgfaultAlloc, HandlerRest
  <2>2. /\ Binds(e, TEMP, "W")
        /\ \A d, c, xa, ya : Same(pages', d, xa, c, ya) <=>
              \/ Same(pages, d, xa, c, ya) /\ ~(d = e /\ xa = TEMP) /\ ~(c = e /\ ya = TEMP)
              \/ d = e /\ xa = TEMP /\ c = e /\ ya = TEMP
        /\ \A d, xa, v : Content(pages', d, xa, v) <=>
              IF d = e /\ xa = TEMP THEN v = 0 ELSE Content(pages, d, xa, v)
    BY <1>2, <2>1, Parts, AllocEffect, Addresses DEF Perms
  <2>3. \A a \in Shown : a # TEMP
    BY Addresses
  <2>4. ShownKept
    BY <2>2, <2>3 DEF ShownKept, Binds, Mapped
  <2> QED BY <2>1, <2>4, ForkUnseen
<1> QED BY <1>1, <1>2

(* Nor is what it holds.                                                     *)
LEMMA PgfaultCopyMaps ==
    ASSUME CowInv, CowInv', NEW e \in Envs, PgfaultCopy(e) PROVE UNCHANGED P!vars
<1> PICK va, w : va = fault[e].va /\ w = Data(e, va)
  OBVIOUS
<1>1. state[e] = "alive" /\ fault[e].pc = "copy" /\ Store(e, TEMP, w) /\ fork' = fork /\ state' = state
  BY DEF PgfaultCopy, Handling, HandlerRest, CopyPage
<1>2. w \in Values
  BY <1>1, FaultedIs, Parts, PageIsUnique
<1>3. /\ perm' = perm
      /\ \A d, c, xa, ya : Same(pages', d, xa, c, ya) <=> Same(pages, d, xa, c, ya)
      /\ \A d, xa, u : Content(pages', d, xa, u) <=>
            IF Same(pages, e, TEMP, d, xa) THEN u = w ELSE Content(pages, d, xa, u)
  BY <1>1, <1>2, Parts, StoreEffect, Addresses
<1>4. \A d \in Envs, xa \in Shown : ~Same(pages, e, TEMP, d, xa)
  <2>1. \A f \in Envs : fork[f].pc \notin {"v0_copy", "v0_unmap"}
    BY <1>1, NotEager
  <2> QED BY <1>1, <2>1, Parts, Addresses DEF TempOK
<1>5. ShownKept
  BY <1>3, <1>4 DEF ShownKept, Mapped
<1> QED BY <1>1, <1>5, ForkUnseen

(* Nor that it goes.                                                         *)
LEMMA PgfaultUnmapMaps ==
    ASSUME CowInv, CowInv', NEW e \in Envs, PgfaultUnmap(e) PROVE UNCHANGED P!vars
<1>1. Unmap(e, TEMP) /\ fork' = fork /\ state' = state
  BY DEF PgfaultUnmap, HandlerRest
<1>2. /\ DOMAIN perm'[e] = (DOMAIN perm[e]) \ {TEMP}
      /\ \A a \in (DOMAIN perm[e]) \ {TEMP} : perm'[e][a] = perm[e][a]
      /\ \A d \in Envs \ {e} : perm'[d] = perm[d]
      /\ \A d, c, xa, ya : Same(pages', d, xa, c, ya) <=>
            Same(pages, d, xa, c, ya) /\ ~(d = e /\ xa = TEMP) /\ ~(c = e /\ ya = TEMP)
      /\ \A d, xa, v : Content(pages', d, xa, v) <=>
            Content(pages, d, xa, v) /\ ~(d = e /\ xa = TEMP)
  BY <1>1, Parts, UnmapEffect, Addresses
<1>3. \A a \in Shown : a # TEMP
  BY Addresses
<1>4. ShownKept
  BY <1>2, <1>3 DEF ShownKept, Mapped
<1> QED BY <1>1, <1>4, ForkUnseen

(* The copy has what the page had; a child that had not got the page yet     *)
(* keeps the old one.                                                        *)
LEMMA PgfaultMapMaps ==
    ASSUME CowInv, CowInv', NEW e \in Envs, PgfaultMap(e) PROVE UNCHANGED P!vars
<1> PICK va : va = fault[e].va
  OBVIOUS
<1>1. state[e] = "alive" /\ fault[e].pc = "map" /\ Map(e, TEMP, e, va, "W") /\ fork' = fork /\ state' = state
  BY DEF PgfaultMap, Handling, HandlerRest
<1>2. va \in Shown /\ va \in Places /\ va # TEMP /\ Mapped(e, va) /\ Mapped(e, TEMP) /\ perm[e][va] # "W"
      /\ TEMP \in Places
  BY <1>1, FaultedIs, Parts, Addresses DEF Faults
<1>3. /\ Binds(e, va, "W")
      /\ \A d, b, xa, ya : Same(pages', d, xa, b, ya) <=>
            IF d = e /\ xa = va THEN Same(pages, e, TEMP, b, ya) \/ (b = e /\ ya = va)
            ELSE IF b = e /\ ya = va THEN Same(pages, e, TEMP, d, xa)
            ELSE Same(pages, d, xa, b, ya)
      /\ \A d, xa, v : Content(pages', d, xa, v) <=>
            IF d = e /\ xa = va THEN Content(pages, e, TEMP, v) ELSE Content(pages, d, xa, v)
  BY <1>1, <1>2, Parts, MapEffect DEF Perms
<1>4. \A v : Content(pages, e, TEMP, v) <=> Content(pages, e, va, v)
  <2>1. \A v : Content(pages, e, TEMP, v) \/ Content(pages, e, va, v) => v \in Values
    BY Parts, ContentIs DEF MemoryOK
  <2> QED BY <1>1, <2>1, Parts DEF TempOK
<1>5. \A d \in Envs, xa \in Places : Same(pages, e, TEMP, d, xa) => d = e /\ xa = TEMP
  <2>1. \A f \in Envs : fork[f].pc \notin {"v0_copy", "v0_unmap"}
    BY <1>1, NotEager
  <2> QED BY <1>1, <2>1, Parts DEF TempOK
<1>6. \A f \in Envs : \A b \in Forking(f) : b \in Envs /\ b # e /\ b # f
  BY <1>1, ForkingIs
<1>7. ASSUME NEW a \in Shown, NEW d \in Forking(e) PROVE Passed(e, a)' <=> Passed(e, a)
  <2>1. CASE a = va
    <3>1. ~Same(pages', e, va, Child(e), va)
      BY <1>2, <1>3, <1>5, <1>6, <1>7, ForkingIs
    <3> QED BY <1>1, <1>2, <2>1, <3>1 DEF Passed, Child, Va
  <2>2. CASE a # va
    BY <1>1, <1>3, <1>6, <2>2, PassedKept DEF Binds, Mapped
  <2> QED BY <2>1, <2>2
<1>8. AllBut(e, e, TEMP)
  <2>1. \A d \in Envs, a \in Shown : /\ Mapped(d, a)' <=> Mapped(d, a)
                                     /\ \A v : Content(pages', d, a, v) <=> Content(pages, d, a, v)
    BY <1>2, <1>3, <1>4 DEF Binds, Mapped
  <2>2. \A f \in Envs : Forking(f)' = Forking(f)
    BY <1>1 DEF Forking
  <2> QED BY <1>1, <1>3, <1>6, <1>7, <2>1, <2>2 DEF AllBut, Binds
<1> QED BY <1>8, Unseen

(* A new page at UXSTACK is none of those that programs see. *)
LEMMA UxstackKept ==
    ASSUME CowInv, NEW c \in Envs, ~NoMemory, Alloc(c, UXSTACK, "W") PROVE ShownKept
<1>1. /\ Binds(c, UXSTACK, "W")
      /\ \A d, b, xa, ya : Same(pages', d, xa, b, ya) <=>
            \/ Same(pages, d, xa, b, ya) /\ ~(d = c /\ xa = UXSTACK) /\ ~(b = c /\ ya = UXSTACK)
            \/ d = c /\ xa = UXSTACK /\ b = c /\ ya = UXSTACK
      /\ \A d, xa, v : Content(pages', d, xa, v) <=>
            IF d = c /\ xa = UXSTACK THEN v = 0 ELSE Content(pages, d, xa, v)
  BY Parts, AllocEffect, Addresses DEF Perms
<1>2. \A a \in Shown : a # UXSTACK
  BY Addresses
<1> QED BY <1>1, <1>2 DEF ShownKept, Binds, Mapped

(* Exception stacks are not in PrivateMemory.                                *)
LEMMA SetPgfaultHandlerMaps ==
    ASSUME CowInv, CowInv', NEW e \in Envs, SetPgfaultHandler(e) PROVE UNCHANGED P!vars
<1>1. fork[e] = Idle /\ fork' = [fork EXCEPT ![e] = [pc |-> "exofork"]] /\ state' = state
  BY DEF SetPgfaultHandler
<1>2. ShownKept
  <2>1. CASE upcall[e] \/ NoMemory
    BY <2>1 DEF SetPgfaultHandler, ShownKept, Mapped
  <2>2. CASE ~(upcall[e] \/ NoMemory)
    BY <2>2, UxstackKept DEF SetPgfaultHandler
  <2> QED BY <2>1, <2>2
<1>3. fork'[e] = [pc |-> "exofork"] /\ \A d \in Envs \ {e} : fork'[d] = fork[d]
  BY <1>1, Parts DEF PcOK
<1>4. Forking(e) = {} /\ \A d \in Envs : Forking(d)' = Forking(d)
  BY <1>1, <1>3 DEF Forking, Idle
<1> QED BY <1>1, <1>2, <1>3, <1>4, ShownUnseen

(* Steps of the loop that change no page that programs see. *)
LEMMA LoopUnseen ==
    ASSUME CowInv, CowInv', NEW e \in Envs, NEW q, NEW i, NEW t, Loop(e, q, i, t),
           fork[e].pc \in {"scan", "uxstack", "upcall", "v0_unmap"},
           q \in {"scan", "uxstack", "upcall", "start", "v0_alloc", "map_child"},
           state' = state, ShownKept
    PROVE  UNCHANGED P!vars
<1>1. /\ fork'[e].pc = q /\ Forking(e)' = Forking(e)
      /\ \A d \in Envs \ {e} : fork'[d] = fork[d] /\ Forking(d)' = Forking(d)
  <2>1. PcOK /\ Loop(e, q, i, t) /\ fork[e].pc \notin {"out", "exofork"} /\ q \notin {"out", "exofork"}
        /\ e \in Envs
    BY Parts
  <2> QED BY ONLY <2>1, LoopMoves
<1>2. \A a \in Shown, d \in Forking(e) : Mapped(d, a) => (Passed(e, a)' <=> Passed(e, a))
  <2> SUFFICES ASSUME NEW a \in Shown, NEW d \in Forking(e), Mapped(d, a)
               PROVE  Passed(e, a)' <=> Passed(e, a)
    OBVIOUS
  <2>1. Mapped(d, a)'
    BY ForkingIs DEF ShownKept
  <2> QED BY <1>1, <2>1, PassesAll
<1> QED BY <1>1, <1>2, ShownUnseen

(* To read an entry is not a step of PrivateMemory.                          *)
LEMMA ScanMaps ==
    ASSUME CowInv, CowInv', NEW e \in Envs, Scan(e) PROVE UNCHANGED P!vars
<1>1. fork[e].pc = "scan" /\ state' = state /\ pages' = pages /\ perm' = perm
  BY DEF Scan, ForkAt, Quiet
<1>2. ShownKept
  BY <1>1 DEF ShownKept, Mapped
<1>3. CASE fork[e].i > Len(VaSeq)
  <2> PICK q : q = IF eager THEN "start" ELSE "uxstack"
    OBVIOUS
  <2>1. Loop(e, q, fork[e].i, fork[e].pte)
    BY <1>3 DEF Scan, GoTo
  <2> QED BY <1>1, <1>2, <2>1, LoopUnseen
<1>4. CASE ~(fork[e].i > Len(VaSeq)) /\ Skips(e)
  <2>1. Loop(e, "scan", fork[e].i + 1, "RO")
    BY <1>4 DEF Scan, NextPage
  <2> QED BY <1>1, <1>2, <2>1, LoopUnseen
<1>5. CASE ~(fork[e].i > Len(VaSeq)) /\ ~Skips(e)
  <2> PICK q : q = IF eager /\ perm[e][Va(e)] = "W" THEN "v0_alloc" ELSE "map_child"
    OBVIOUS
  <2>1. Loop(e, q, fork[e].i, perm[e][Va(e)])
    BY <1>5 DEF Scan
  <2> QED BY <1>1, <1>2, <2>1, LoopUnseen
<1> QED BY <1>3, <1>4, <1>5

(* Nor is the exception stack of the child.                                  *)
LEMMA ChildUxstackMaps ==
    ASSUME CowInv, CowInv', NEW e \in Envs, ChildUxstack(e) PROVE UNCHANGED P!vars
<1>1. CASE NoMemory
  BY <1>1, FaultOnly DEF ChildUxstack, Panic
<1>2. CASE ~NoMemory
  <2>1. /\ fork[e].pc = "uxstack" /\ state' = state
        /\ Alloc(Child(e), UXSTACK, "W") /\ Loop(e, "upcall", fork[e].i, fork[e].pte)
    BY <1>2 DEF ChildUxstack, ForkAt, GoTo, Quiet
  <2>2. Child(e) \in Envs
    BY <2>1, ChildIs
  <2>3. ShownKept
    BY <1>2, <2>1, <2>2, UxstackKept
  <2> QED BY <2>1, <2>3, LoopUnseen
<1> QED BY <1>1, <1>2

(* Nor its upcall.                                                           *)
LEMMA ChildUpcallMaps ==
    ASSUME CowInv, CowInv', NEW e \in Envs, ChildUpcall(e) PROVE UNCHANGED P!vars
<1>1. /\ fork[e].pc = "upcall" /\ state' = state /\ pages' = pages /\ perm' = perm
      /\ Loop(e, "start", fork[e].i, fork[e].pte)
  BY DEF ChildUpcall, ForkAt, GoTo
<1>2. ShownKept
  BY <1>1 DEF ShownKept, Mapped
<1> QED BY <1>1, <1>2, LoopUnseen

(* The end of UTEMP: the page counted when it was filled.                    *)
LEMMA V0UnmapMaps ==
    ASSUME CowInv, CowInv', NEW e \in Envs, V0Unmap(e) PROVE UNCHANGED P!vars
<1>1. /\ fork[e].pc = "v0_unmap" /\ state' = state /\ Unmap(e, TEMP) /\ Loop(e, "scan", fork[e].i + 1, "RO")
  BY DEF V0Unmap, ForkAt, NextPage, Quiet
<1>2. /\ DOMAIN perm'[e] = (DOMAIN perm[e]) \ {TEMP}
      /\ \A a \in (DOMAIN perm[e]) \ {TEMP} : perm'[e][a] = perm[e][a]
      /\ \A d \in Envs \ {e} : perm'[d] = perm[d]
      /\ \A d, c, xa, ya : Same(pages', d, xa, c, ya) <=>
            Same(pages, d, xa, c, ya) /\ ~(d = e /\ xa = TEMP) /\ ~(c = e /\ ya = TEMP)
      /\ \A d, xa, v : Content(pages', d, xa, v) <=>
            Content(pages, d, xa, v) /\ ~(d = e /\ xa = TEMP)
  BY <1>1, Parts, UnmapEffect, Addresses
<1>3. \A a \in Shown : a # TEMP
  BY Addresses
<1>4. ShownKept
  BY <1>2, <1>3 DEF ShownKept, Mapped
<1> QED BY <1>1, <1>4, LoopUnseen

(* What e does in its loop is nothing to the children of others. *)
LEMMA OthersForking ==
    ASSUME CowInv, NEW e \in Envs, NEW c \in Forking(e)
    PROVE  \A f \in Envs \ {e} : \A b \in Forking(f) : b \in Envs /\ b # e /\ b # c /\ f # c
<1>1. c \in Envs /\ state[c] = "embryo" /\ state[e] = "alive"
  BY ForkingIs
<1> SUFFICES ASSUME NEW f \in Envs \ {e}, NEW b \in Forking(f) PROVE b \in Envs /\ b # e /\ b # c /\ f # c
  OBVIOUS
<1>2. b \in Envs /\ state[b] = "embryo" /\ state[f] = "alive"
  BY ForkingIs
<1> QED BY <1>1, <1>2, Parts DEF LifeOK

(* UTEMP is not in PrivateMemory.                                            *)
LEMMA V0MapMaps ==
    ASSUME CowInv, CowInv', NEW e \in Envs, V0Map(e) PROVE UNCHANGED P!vars
<1> PICK c, va : c = Child(e) /\ va = Va(e)
  OBVIOUS
<1>1. /\ fork[e].pc = "v0_map" /\ state' = state
      /\ Map(c, va, e, TEMP, "W") /\ Loop(e, "v0_copy", fork[e].i, fork[e].pte)
  BY DEF V0Map, ForkAt, GoTo, Quiet
<1>2. /\ c \in Envs /\ va \in Places /\ TEMP \in Places /\ Mapped(c, va) /\ Forking(e) = {c} /\ PcOK
      /\ fork[e].pc \notin {"out", "exofork"}
  BY <1>1, V0Is, Addresses, Parts
<1>3. /\ Binds(e, TEMP, "W")
      /\ \A d, b, xa, ya : Same(pages', d, xa, b, ya) <=>
            IF d = e /\ xa = TEMP THEN Same(pages, c, va, b, ya) \/ (b = e /\ ya = TEMP)
            ELSE IF b = e /\ ya = TEMP THEN Same(pages, c, va, d, xa)
            ELSE Same(pages, d, xa, b, ya)
      /\ \A d, xa, v : Content(pages', d, xa, v) <=>
            IF d = e /\ xa = TEMP THEN Content(pages, c, va, v) ELSE Content(pages, d, xa, v)
  BY <1>1, <1>2, Parts, MapEffect DEF Perms
<1>4. \A a \in Shown : a # TEMP
  BY Addresses
<1>5. ShownKept
  BY <1>3, <1>4 DEF ShownKept, Binds, Mapped
<1>6. /\ fork'[e].pc = "v0_copy" /\ fork'[e].i = fork[e].i /\ Forking(e)' = Forking(e)
      /\ \A d \in Envs \ {e} : fork'[d] = fork[d] /\ Forking(d)' = Forking(d)
  BY <1>1, <1>2, LoopMoves
<1>7. \A a : Passed(e, a)' <=> Passed(e, a)
  BY <1>1, <1>6 DEF Passed
<1> QED BY <1>1, <1>5, <1>6, <1>7, ShownUnseen

(* A page of zeros does not count yet.                                       *)
LEMMA V0AllocMaps ==
    ASSUME CowInv, CowInv', NEW e \in Envs, V0Alloc(e) PROVE UNCHANGED P!vars
<1> PICK c, va : c = Child(e) /\ va = Va(e)
  OBVIOUS
<1>1. CASE NoMemory
  BY <1>1, FaultOnly DEF V0Alloc, Panic
<1>2. CASE ~NoMemory
  <2>1. /\ fork[e].pc = "v0_alloc" /\ state' = state
        /\ Alloc(c, va, "W") /\ Loop(e, "v0_map", fork[e].i, fork[e].pte)
    BY <1>2 DEF V0Alloc, ForkAt, GoTo, Quiet
  <2>2. /\ c \in Envs /\ c # e /\ Forking(e) = {c} /\ va \in Shown /\ va \in Places /\ PcOK
        /\ fork[e].pc \notin {"out", "exofork"} /\ fork[e].i \in 1..Len(VaSeq) /\ Len(VaSeq) \in Nat
    BY <2>1, V0Is, Parts, Addresses
  <2>3. /\ Binds(c, va, "W")
        /\ \A d, b, xa, ya : Same(pages', d, xa, b, ya) <=>
              \/ Same(pages, d, xa, b, ya) /\ ~(d = c /\ xa = va) /\ ~(b = c /\ ya = va)
              \/ d = c /\ xa = va /\ b = c /\ ya = va
        /\ \A d, xa, v : Content(pages', d, xa, v) <=>
              IF d = c /\ xa = va THEN v = 0 ELSE Content(pages, d, xa, v)
    BY <1>2, <2>1, <2>2, Parts, AllocEffect DEF Perms
  <2>4. /\ fork'[e].pc = "v0_map" /\ fork'[e].i = fork[e].i /\ Forking(e)' = Forking(e)
        /\ \A d \in Envs \ {e} : fork'[d] = fork[d] /\ Forking(d)' = Forking(d)
    BY <2>1, <2>2, LoopMoves
  <2>5. \A a : Passed(e, a)' <=> Passed(e, a)
    BY <2>1, <2>4 DEF Passed
  <2>6. ~Passed(e, va) /\ ~Mapped(c, va)
    <3>1. \A j \in 1..(fork[e].i - 1) : VaSeq[j] # va
      BY <2>2, Addresses DEF Va
    <3>2. ~Given(e, va)
      BY <2>1, <3>1 DEF Given
    <3> QED BY <2>1, <2>2, <3>1, <3>2, Parts DEF Passed, Gives
  <2>7. AllBut(e, c, va)
    <3>1. \A d \in Envs, a \in Shown : ~(d = c /\ a = va) =>
             /\ Mapped(d, a)' <=> Mapped(d, a)
             /\ \A v : Content(pages', d, a, v) <=> Content(pages, d, a, v)
      BY <2>3 DEF Binds, Mapped
    <3>2. \A f \in Envs \ {e}, a \in Shown : \A b \in Forking(f) :
             /\ Mapped(f, a) => (perm'[f][a] = "W" <=> perm[f][a] = "W")
             /\ Same(pages', f, a, b, a) <=> Same(pages, f, a, b, a)
      BY <2>2, <2>3, OthersForking DEF Binds
    <3>3. \A f \in Envs \ {e}, a \in Shown : Mapped(f, a) => (perm'[f][a] = "W" <=> perm[f][a] = "W")
      BY <2>3, <2>6 DEF Binds, Mapped
    <3> QED BY <2>1, <2>4, <2>5, <3>1, <3>2, <3>3 DEF AllBut
  <2>8. \A v : ~Sees(c, va, v)' /\ ~Sees(c, va, v)
    <3>1. ~Done(c, va)'
      <4>1. Mapped(c, va)' /\ c \in Forking(e)'
        BY <2>2, <2>3, <2>4 DEF Binds, Mapped
      <4> QED BY <2>2, <2>5, <2>6, <4>1, DoneIsNext DEF DoneMeans
    <3> QED BY <2>6, <3>1 DEF Sees
  <2> QED BY <2>7, <2>8, AsSeen
<1> QED BY <1>1, <1>2

-----------------------------------------------------------------------------
(* The steps that give the child a page, and those of PrivateMemory.         *)

(* The page counts now, unless its parent can still write to it.             *)
LEMMA DuppageChildMaps ==
    ASSUME CowInv, CowInv', NEW e \in Envs, DuppageChild(e)
    PROVE  UNCHANGED P!vars \/ P!Copy(e, Child(e), Va(e))
<1> PICK c, va : c = Child(e) /\ va = Va(e)
  OBVIOUS
<1> PICK copies : copies = (Private(fork[e].pte) /\ ~eager)
  OBVIOUS
<1> DEFINE p == IF copies THEN "COW" ELSE "RO"
           q == IF copies THEN "map_parent" ELSE "scan"
           i == IF copies THEN fork[e].i ELSE fork[e].i + 1
           t == IF copies THEN fork[e].pte ELSE "RO"
<1>1. /\ fork[e].pc = "map_child" /\ state' = state /\ state[e] = "alive"
      /\ Map(e, va, c, va, p) /\ Loop(e, q, i, t)
  BY DEF DuppageChild, ForkAt, Executes, Quiet, GoTo, NextPage
<1>2. /\ c \in Envs /\ c # e /\ Forking(e) = {c} /\ PcOK /\ Len(VaSeq) \in Nat
      /\ fork[e].i \in 1..Len(VaSeq) /\ va \in Shown /\ va \in Places /\ Mapped(e, va)
      /\ fork[e].pc \notin {"out", "exofork"} /\ q \notin {"out", "exofork"} /\ p \in Perms
  BY <1>1, ChildIs, ScannedIs, Parts, Addresses DEF Mapping, Perms
<1>3. /\ Binds(c, va, p)
      /\ \A d, b, xa, ya : Same(pages', d, xa, b, ya) <=>
            IF d = c /\ xa = va THEN Same(pages, e, va, b, ya) \/ (b = c /\ ya = va)
            ELSE IF b = c /\ ya = va THEN Same(pages, e, va, d, xa)
            ELSE Same(pages, d, xa, b, ya)
      /\ \A d, xa, v : Content(pages', d, xa, v) <=>
            IF d = c /\ xa = va THEN Content(pages, e, va, v) ELSE Content(pages, d, xa, v)
  BY <1>1, <1>2, Parts, MapEffect
<1>4. /\ fork'[e].pc = q /\ fork'[e].i = i /\ Child(e)' = c /\ Va(e)' = VaSeq[i] /\ Forking(e)' = {c}
      /\ \A d \in Envs \ {e} : fork'[d] = fork[d] /\ Forking(d)' = Forking(d)
  BY <1>1, <1>2, LoopMoves, ZenonT(30)
<1>5. \A j \in 1..(fork[e].i - 1) : VaSeq[j] # va
  BY <1>2, Addresses DEF Va
<1>6. ~Mapped(c, va)
  <2>1. ~Given(e, va)
    BY <1>1, <1>5 DEF Given
  <2> QED BY <1>2, <2>1, Parts DEF Gives
<1>7. \A a \in Shown : a # va => (Passed(e, a)' <=> Passed(e, a))
  <2>1. CASE copies
    BY <1>1, <1>2, <1>4, <2>1 DEF Passed, Va
  <2>2. CASE ~copies
    BY <1>1, <1>2, <1>4, <2>2 DEF Passed, Va
  <2> QED BY <2>1, <2>2
<1>8. perm'[e] = perm[e] /\ Same(pages', e, va, c, va)
  BY <1>2, <1>3, Parts, SharingIsOfMapped DEF Binds
<1>9. Passed(e, va)' <=> ~copies \/ perm[e][va] # "W"
  <2>1. CASE copies
    BY <1>2, <1>4, <1>5, <1>8, <2>1 DEF Passed, Va
  <2>2. CASE ~copies
    BY <1>2, <1>4, <2>2 DEF Passed, Va
  <2> QED BY <2>1, <2>2
<1> HIDE DEF p, q, i, t
<1>10. AllBut(e, c, va)
  <2>1. \A d \in Envs, a \in Shown : ~(d = c /\ a = va) =>
           /\ Mapped(d, a)' <=> Mapped(d, a)
           /\ \A v : Content(pages', d, a, v) <=> Content(pages, d, a, v)
    BY <1>3 DEF Binds, Mapped
  <2>2. \A f \in Envs \ {e}, a \in Shown : \A b \in Forking(f) :
           Same(pages', f, a, b, a) <=> Same(pages, f, a, b, a)
    BY <1>2, <1>3, OthersForking
  <2>3. \A f \in Envs \ {e}, a \in Shown : Mapped(f, a) => (perm'[f][a] = "W" <=> perm[f][a] = "W")
    BY <1>3, <1>6 DEF Binds, Mapped
  <2> QED BY <1>1, <1>2, <1>4, <1>7, <2>1, <2>2, <2>3 DEF AllBut
<1>11. \A v : ~Sees(c, va, v)
  BY <1>6 DEF Sees
<1>12. Mapped(c, va)' /\ (Done(c, va)' <=> Passed(e, va)')
  <2>1. Mapped(c, va)' /\ c \in Forking(e)'
    BY <1>3, <1>4 DEF Binds, Mapped
  <2> QED BY <1>2, <2>1, DoneIsNext DEF DoneMeans
<1>13. CASE ~Passed(e, va)'
  BY <1>10, <1>11, <1>12, <1>13, AsSeen DEF Sees
<1>14. CASE Passed(e, va)'
  <2>1. PICK w : Content(pages, e, va, w)
    BY <1>2, Parts, PageIsUnique
  <2>2. Sees(e, va, w)
    BY <1>1, <1>2, <2>1, DoneIs DEF DoneMeans, Sees
  <2>3. Sees(c, va, w)'
    BY <1>2, <1>3, <1>12, <1>14, <2>1 DEF Sees
  <2> QED BY <1>2, <1>10, <1>11, <2>2, <2>3, CopySeen
<1> QED BY <1>13, <1>14

(* The page counts now, unless it counted already: a page fault of the       *)
(* parent's stack may have come in between.                                  *)
LEMMA DuppageParentMaps ==
    ASSUME CowInv, CowInv', NEW e \in Envs, DuppageParent(e)
    PROVE  UNCHANGED P!vars \/ P!Copy(e, Child(e), Va(e))
<1> PICK c, va : c = Child(e) /\ va = Va(e)
  OBVIOUS
<1>1. /\ fork[e].pc = "map_parent" /\ state' = state /\ state[e] = "alive"
      /\ Map(e, va, e, va, "COW") /\ Loop(e, "scan", fork[e].i + 1, "RO")
  BY DEF DuppageParent, ForkAt, Executes, Quiet, NextPage
<1>2. /\ c \in Envs /\ c # e /\ Forking(e) = {c} /\ PcOK /\ Len(VaSeq) \in Nat
      /\ fork[e].i \in 1..Len(VaSeq) /\ va \in Shown /\ va \in Places /\ Mapped(e, va)
      /\ fork[e].pc \notin {"out", "exofork"}
  BY <1>1, ChildIs, ScannedIs, Parts, Addresses DEF Mapping
<1>3. /\ Binds(e, va, "COW")
      /\ \A d, b, xa, ya : Same(pages', d, xa, b, ya) <=> Same(pages, d, xa, b, ya)
      /\ \A d, xa, v : Content(pages', d, xa, v) <=> Content(pages, d, xa, v)
  <2>1. /\ Binds(e, va, "COW")
        /\ \A d, b, xa, ya : Same(pages', d, xa, b, ya) <=>
              IF d = e /\ xa = va THEN Same(pages, e, va, b, ya) \/ (b = e /\ ya = va)
              ELSE IF b = e /\ ya = va THEN Same(pages, e, va, d, xa)
              ELSE Same(pages, d, xa, b, ya)
        /\ \A d, xa, v : Content(pages', d, xa, v) <=>
              IF d = e /\ xa = va THEN Content(pages, e, va, v) ELSE Content(pages, d, xa, v)
    BY <1>1, <1>2, Parts, MapEffect DEF Perms
  <2>2. Same(pages, e, va, e, va) /\ \A d, xa : Same(pages, e, va, d, xa) <=> Same(pages, d, xa, e, va)
    BY <1>2, Parts, SharingIsOfMapped
  <2> QED BY <2>1, <2>2
<1>4. /\ fork'[e].pc = "scan" /\ fork'[e].i = fork[e].i + 1 /\ Forking(e)' = {c}
      /\ \A d \in Envs \ {e} : fork'[d] = fork[d] /\ Forking(d)' = Forking(d)
  BY <1>1, <1>2, LoopMoves, ZenonT(30)
<1>5. \A a \in Shown : a # va => (Passed(e, a)' <=> Passed(e, a))
  BY <1>1, <1>2, <1>4 DEF Passed, Va
<1>6. Passed(e, va)' /\ Mapped(c, va)
  <2>1. Given(e, va)
    BY <1>1 DEF Given
  <2>2. Passed(e, va)'
    BY <1>2, <1>4 DEF Passed, Va
  <2> QED BY <1>2, <2>1, <2>2, Parts DEF Gives
<1>7. AllBut(e, c, va)
  <2>1. \A d \in Envs, a \in Shown : Mapped(d, a)' <=> Mapped(d, a)
    BY <1>2, <1>3 DEF Binds, Mapped
  <2> QED BY <1>1, <1>2, <1>3, <1>4, <1>5, <2>1 DEF AllBut, Binds
<1>8. Done(c, va)' /\ Mapped(c, va)' /\ (Done(c, va) <=> Passed(e, va))
  <2>1. Mapped(c, va)' /\ c \in Forking(e)'
    BY <1>2, <1>3, <1>4, <1>6 DEF Binds, Mapped
  <2> QED BY <1>2, <1>6, <2>1, DoneIs, DoneIsNext DEF DoneMeans
<1>9. CASE Passed(e, va)
  <2>1. \A v : Sees(c, va, v)' <=> Sees(c, va, v)
    BY <1>2, <1>3, <1>6, <1>8, <1>9 DEF Sees
  <2> QED BY <1>7, <2>1, AsSeen
<1>10. CASE ~Passed(e, va)
  <2>1. PICK w : Content(pages, e, va, w)
    BY <1>2, Parts, PageIsUnique
  <2>2. Sees(e, va, w) /\ \A v : ~Sees(c, va, v)
    BY <1>1, <1>2, <1>8, <1>10, <2>1, DoneIs DEF DoneMeans, Sees
  <2>3. Same(pages, e, va, c, va)
    BY <1>1, <1>10 DEF Passed
  <2>4. Content(pages, c, va, w)
    BY <2>1, <2>3, Parts, ContentIs DEF MemoryOK
  <2>5. Sees(c, va, w)'
    BY <1>2, <1>3, <1>8, <2>4 DEF Sees
  <2> QED BY <1>2, <1>7, <2>2, <2>5, CopySeen
<1> QED BY <1>9, <1>10

(* The page of the child counts when it is filled.                           *)
LEMMA V0CopyMaps ==
    ASSUME CowInv, CowInv', NEW e \in Envs, V0Copy(e)
    PROVE  P!Copy(e, Child(e), Va(e))
<1> PICK c, va, w : c = Child(e) /\ va = Va(e) /\ w = Data(e, va)
  OBVIOUS
<1>1. /\ fork[e].pc = "v0_copy" /\ state' = state /\ state[e] = "alive"
      /\ Store(e, TEMP, w) /\ Loop(e, "v0_unmap", fork[e].i, fork[e].pte)
  BY DEF V0Copy, ForkAt, Executes, GoTo, CopyPage, Quiet
<1>2. /\ eager /\ c \in Envs /\ c # e /\ Forking(e) = {c} /\ PcOK /\ Len(VaSeq) \in Nat
      /\ fork[e].i \in 1..Len(VaSeq) /\ va \in Shown /\ TEMP \in Places /\ Mapped(e, va) /\ Mapped(c, va)
      /\ fork[e].pc \notin {"out", "exofork"}
  BY <1>1, V0Is, Parts, Addresses
<1>3. w \in Values /\ Content(pages, e, va, w)
  BY <1>2, Parts, PageIsUnique
<1>4. /\ perm' = perm
      /\ \A d, b, xa, ya : Same(pages', d, xa, b, ya) <=> Same(pages, d, xa, b, ya)
      /\ \A d, xa, u : Content(pages', d, xa, u) <=>
            IF Same(pages, e, TEMP, d, xa) THEN u = w ELSE Content(pages, d, xa, u)
  BY <1>1, <1>2, <1>3, Parts, StoreEffect
<1>5. /\ fork'[e].pc = "v0_unmap" /\ fork'[e].i = fork[e].i /\ Forking(e)' = {c} /\ Va(e)' = va
      /\ \A d \in Envs \ {e} : fork'[d] = fork[d] /\ Forking(d)' = Forking(d)
  BY <1>1, <1>2, LoopMoves, ZenonT(30) DEF Va
<1>6. /\ Same(pages, e, TEMP, c, va)
      /\ \A d \in Envs, xa \in Shown : Same(pages, e, TEMP, d, xa) => d = c /\ xa = va
  <2>1. Same(pages, e, TEMP, c, va)
    BY <1>1, Parts DEF TempOK
  <2>2. ASSUME NEW d \in Envs, NEW xa \in Shown, Same(pages, e, TEMP, d, xa) PROVE d = c /\ xa = va
    <3>1. xa \in Places /\ xa # TEMP /\ fault[e].pc # "unmap"
      BY <1>2, Addresses, EagerIs
    <3> QED BY <2>2, <3>1, Parts DEF TempOK
  <2> QED BY <2>1, <2>2
<1>7. /\ Passed(e, va)' /\ ~Passed(e, va)
      /\ \A a \in Shown : a # va => (Passed(e, a)' <=> Passed(e, a))
  <2>1. \A j \in 1..(fork[e].i - 1) : VaSeq[j] # va
    BY <1>2, Addresses DEF Va
  <2> QED BY <1>1, <1>5, <2>1 DEF Passed
<1>8. AllBut(e, c, va)
  BY <1>1, <1>2, <1>4, <1>5, <1>6, <1>7 DEF AllBut, Mapped
<1>9. Sees(e, va, w) /\ \A v : ~Sees(c, va, v)
  BY <1>1, <1>2, <1>3, <1>7, DoneIs DEF DoneMeans, Sees
<1>10. Sees(c, va, w)'
  <2>1. Mapped(c, va)' /\ c \in Forking(e)'
    BY <1>2, <1>4, <1>5 DEF Mapped
  <2>2. Done(c, va)'
    BY <1>2, <1>7, <2>1, DoneIsNext DEF DoneMeans
  <2> QED BY <1>2, <1>4, <1>6, <2>1, <2>2 DEF Sees
<1> QED BY <1>2, <1>8, <1>9, <1>10, CopySeen

(* Nothing happens to d, nor to what its parent does.                        *)
LEMMA DoneKept ==
    ASSUME CowInv, CowInv', NEW d \in Envs, NEW a \in Shown, Mapped(d, a), Mapped(d, a)',
           state'[d] = state[d], \A f \in Envs : d \in Forking(f)' <=> d \in Forking(f),
           \A f \in Envs : d \in Forking(f) => /\ fork'[f] = fork[f] /\ perm'[f] = perm[f]
                                               /\ Same(pages', f, a, d, a) <=> Same(pages, f, a, d, a)
    PROVE  Done(d, a)' <=> Done(d, a)
<1>1. CASE state[d] = "alive" \/ \A f \in Envs : d \notin Forking(f)
  BY <1>1, DoneIs, DoneIsNext DEF DoneMeans
<1>2. ASSUME NEW f \in Envs, d \in Forking(f) PROVE Done(d, a)' <=> Done(d, a)
  <2>1. Passed(f, a)' <=> Passed(f, a)
    BY <1>2, PassedKept
  <2>2. d \in Forking(f)'
    BY <1>2
  <2>3. Done(d, a) <=> Passed(f, a)
    BY <1>2, DoneIs DEF DoneMeans
  <2>4. Done(d, a)' <=> Passed(f, a)'
    BY <2>2, DoneIsNext DEF DoneMeans
  <2> QED BY <2>1, <2>3, <2>4
<1> QED BY <1>1, <1>2

(* A write is of one memory: the page of a child that is still the parent's  *)
(* does not count.                                                           *)
LEMMA WriteMaps ==
    ASSUME CowInv, CowInv', NEW e \in Envs, NEW va \in Vas, NEW v \in Values, Write(e, va, v)
    PROVE  P!Write(e, va, v) /\ va \in Shown
<1>1. /\ state[e] = "alive" /\ Mapped(e, va) /\ perm[e][va] = "W" /\ va \in Shown /\ va \in Places
      /\ Store(e, va, v) /\ state' = state /\ fork' = fork
  BY Addresses DEF Write, MayWrite, Executes, Shown
<1>2. /\ perm' = perm
      /\ \A d, c, xa, ya : Same(pages', d, xa, c, ya) <=> Same(pages, d, xa, c, ya)
      /\ \A d, xa, u : Content(pages', d, xa, u) <=>
            IF Same(pages, e, va, d, xa) THEN u = v ELSE Content(pages, d, xa, u)
  BY <1>1, Parts, StoreEffect
<1>3. \A f \in Envs : Forking(f)' = Forking(f)
  BY <1>1 DEF Forking
<1>4. \A d \in Envs, a \in Shown : Mapped(d, a) => Mapped(d, a)' /\ (Done(d, a)' <=> Done(d, a))
  BY <1>1, <1>2, <1>3, DoneKept DEF Mapped
<1>5. \A d \in Envs, a \in Shown : Same(pages, e, va, d, a) /\ ~(d = e /\ a = va) => ~Done(d, a)
  <2> SUFFICES ASSUME NEW d \in Envs, NEW a \in Shown, Same(pages, e, va, d, a), ~(d = e /\ a = va)
               PROVE  ~Done(d, a)
    OBVIOUS
  <2>1. fork[e].pc = "map_parent" /\ d = Child(e) /\ a = va /\ va = Va(e)
    BY <1>1, Parts DEF Exclusive
  <2>2. Forking(e) = {d} /\ Mapped(d, a) /\ fork[e].i \in 1..Len(VaSeq) /\ Len(VaSeq) \in Nat
    BY <2>1, ChildIs, ScannedIs, Parts, SharingIsOfMapped, Addresses DEF Mapping
  <2>3. \A j \in 1..(fork[e].i - 1) : VaSeq[j] # va
    BY <2>1, <2>2, Addresses DEF Va
  <2>4. ~Passed(e, a)
    BY <1>1, <2>1, <2>3 DEF Passed
  <2> QED BY <2>2, <2>4, DoneIs DEF DoneMeans
<1>6. \A d \in Envs : \A a, u : ~(d = e /\ a = va) => (Sees(d, a, u)' <=> Sees(d, a, u))
  BY <1>2, <1>4, <1>5 DEF Sees, Mapped
<1>7. \A u : Sees(e, va, u)' <=> u = v
  <2>1. Mapped(e, va)' /\ Done(e, va)'
    BY <1>1, <1>4, DoneIs DEF DoneMeans
  <2>2. Same(pages, e, va, e, va)
    BY <1>1, Parts, SharingIsOfMapped
  <2> QED BY <1>1, <1>2, <2>1, <2>2 DEF Sees
<1>8. \A d \in Envs \ {e} : Memory'[d] = Memory[d]
  BY <1>6, MemoryKept, Parts DEF CowInv
<1>9. va \in DOMAIN Memory[e] /\ Memory'[e] = [Memory[e] EXCEPT ![va] = v]
  <2>1. /\ \A a, u : Sees(e, a, u) <=> a \in DOMAIN Memory[e] /\ Memory[e][a] = u
        /\ Memory[e] = [a \in DOMAIN Memory[e] |-> Memory[e][a]]
    BY MemoryIs, Parts DEF SeesMemory
  <2>2. /\ \A a, u : Sees(e, a, u)' <=> a \in DOMAIN Memory'[e] /\ Memory'[e][a] = u
        /\ Memory'[e] = [a \in DOMAIN Memory'[e] |-> Memory'[e][a]]
    BY MemoryIsNext DEF SeesMemory, CowInv
  <2>3. va \in DOMAIN Memory[e]
    <3>1. PICK w : Content(pages, e, va, w)
      BY <1>1, Parts, PageIsUnique
    <3>2. Sees(e, va, w)
      BY <1>1, <3>1, DoneIs DEF DoneMeans, Sees
    <3> QED BY <2>1, <3>2
  <2>4. \A a : /\ a \in DOMAIN Memory'[e] <=> a \in DOMAIN Memory[e]
               /\ a \in DOMAIN Memory[e] => Memory'[e][a] = IF a = va THEN v ELSE Memory[e][a]
    <3>1. \A a : a # va => \A u : (a \in DOMAIN Memory'[e] /\ Memory'[e][a] = u) <=>
                                       (a \in DOMAIN Memory[e] /\ Memory[e][a] = u)
      BY <1>6, <2>1, <2>2
    <3>2. va \in DOMAIN Memory'[e] /\ Memory'[e][va] = v
      BY <1>7, <2>2
    <3> QED BY <2>3, <3>1, <3>2
  <2>5. DOMAIN Memory'[e] = DOMAIN Memory[e]
    BY <2>4
  <2> QED BY <2>1, <2>2, <2>3, <2>4, <2>5
<1>10. Memory' = [Memory EXCEPT ![e][va] = v]
  <2>1. DOMAIN Memory = Envs /\ Memory' = [d \in Envs |-> Memory'[d]]
    BY DEF Memory
  <2> QED BY <1>8, <1>9, <2>1
<1>11. [f \in Envs |-> Forking(f)]' = [f \in Envs |-> Forking(f)]
  BY <1>3
<1> QED BY <1>1, <1>9, <1>10, <1>11 DEF P!Write

(* Who sees nothing has an empty memory.                                     *)
LEMMA NothingIs ==
    ASSUME CowInv', NEW d \in Envs, \A a \in Shown : ~(Mapped(d, a)' /\ Done(d, a)')
    PROVE  Memory'[d] = P!Nothing
<1>1. \A a, v : ~Sees(d, a, v)'
  BY DEF Sees
<1>2. /\ \A a, v : Sees(d, a, v)' <=> a \in DOMAIN Memory'[d] /\ Memory'[d][a] = v
      /\ Memory'[d] = [a \in DOMAIN Memory'[d] |-> Memory'[d][a]]
  BY MemoryIsNext DEF SeesMemory, CowInv
<1>3. DOMAIN Memory'[d] = {}
  BY <1>1, <1>2
<1> QED BY <1>2, <1>3 DEF P!Nothing

(* Exit and the fault without remedy; a child that was not started has       *)
(* nothing from now on.                                                      *)
LEMMA DestroyMaps ==
    ASSUME CowInv, CowInv', NEW e \in Envs, state[e] = "alive", Destroy(e)
    PROVE  P!Exit(e)
<1>1. /\ state' = [state EXCEPT ![e] = "free"] /\ fork' = [fork EXCEPT ![e] = Idle]
  BY DEF Destroy
<1>2. /\ DOMAIN perm'[e] = {} /\ \A d \in Envs \ {e} : perm'[d] = perm[d]
      /\ \A d, c, xa, ya : Same(pages', d, xa, c, ya) <=>
            Same(pages, d, xa, c, ya) /\ d # e /\ c # e
      /\ \A d, xa, v : Content(pages', d, xa, v) <=> Content(pages, d, xa, v) /\ d # e
  BY Parts, DestroyEffect
<1>3. /\ fork'[e] = Idle /\ state'[e] = "free" /\ Forking(e)' = {}
      /\ \A d \in Envs \ {e} : fork'[d] = fork[d] /\ state'[d] = state[d] /\ Forking(d)' = Forking(d)
  <2>1. /\ fork'[e] = Idle /\ state'[e] = "free"
        /\ \A d \in Envs \ {e} : fork'[d] = fork[d] /\ state'[d] = state[d]
    BY <1>1, Parts DEF FlagsOK, PcOK
  <2> QED BY <2>1 DEF Forking, Idle
<1>4. Memory'[e] = P!Nothing
  BY <1>2, NothingIs DEF Mapped
<1>5. ASSUME NEW d \in Forking(e) PROVE Memory'[d] = P!Nothing
  <2>1. d \in Envs /\ state[d] = "embryo" /\ d # e
    BY ForkingIs
  <2>2. \A f \in Envs : d \notin Forking(f)'
    BY <1>3, <2>1, Parts DEF LifeOK
  <2>3. \A a \in Shown : ~(Mapped(d, a)' /\ Done(d, a)')
    BY <1>3, <2>1, <2>2, DoneIsNext DEF DoneMeans
  <2> QED BY <2>1, <2>3, NothingIs
<1>6. ASSUME NEW d \in Envs, d # e, d \notin Forking(e) PROVE Memory'[d] = Memory[d]
  <2>1. \A f \in Envs : d \in Forking(f)' <=> d \in Forking(f)
    BY <1>3, <1>6
  <2>2. \A a \in Shown : Mapped(d, a)' <=> Mapped(d, a)
    BY <1>2, <1>6 DEF Mapped
  <2>3. \A a \in Shown : Mapped(d, a) => (Done(d, a)' <=> Done(d, a))
    BY <1>2, <1>3, <1>6, <2>1, <2>2, DoneKept
  <2>4. \A a, v : Sees(d, a, v)' <=> Sees(d, a, v)
    BY <1>2, <1>6, <2>2, <2>3 DEF Sees
  <2> QED BY <2>4, MemoryKept, Parts DEF CowInv
<1>7. Memory' = [c \in Envs |-> IF c = e \/ c \in Forking(e) THEN P!Nothing ELSE Memory[c]]
  <2>1. Memory' = [d \in Envs |-> Memory'[d]]
    BY DEF Memory
  <2> QED BY <1>4, <1>5, <1>6, <2>1
<1>8. [f \in Envs |-> Forking(f)]' = [[f \in Envs |-> Forking(f)] EXCEPT ![e] = {}]
  BY <1>3
<1> QED BY <1>1, <1>7, <1>8 DEF P!Exit

(* A page fault goes to the handler, or is an exit.                          *)
LEMMA PageFaultMaps ==
    ASSUME CowInv, CowInv', NEW e \in Envs, NEW va \in Vas, PageFault(e, va)
    PROVE  UNCHANGED P!vars \/ P!Exit(e)
<1>1. state[e] = "alive"
  BY DEF PageFault, MayWrite, Executes
<1>2. CASE upcall[e] /\ Mapped(e, UXSTACK) /\ perm[e][UXSTACK] = "W"
  BY <1>2, FaultOnly DEF PageFault
<1>3. CASE ~(upcall[e] /\ Mapped(e, UXSTACK) /\ perm[e][UXSTACK] = "W")
  BY <1>1, <1>3, DestroyMaps DEF PageFault
<1> QED BY <1>2, <1>3

(* sys_exofork() begins, or the program panics.                              *)
LEMMA SysExoforkMaps ==
    ASSUME CowInv, CowInv', NEW e \in Envs, SysExofork(e)
    PROVE  UNCHANGED P!vars \/ \E c \in Envs : P!Begin(e, c)
<1>1. state[e] = "alive" /\ Forking(e) = {} /\ fork[e].pc \in {"out", "exofork"}
  BY DEF SysExofork, ForkAt, Executes, Forking, Idle
<1>2. CASE \A c \in Envs : state[c] # "free"
  BY <1>2, FaultOnly DEF SysExofork, Panic
<1>3. CASE ~\A c \in Envs : state[c] # "free"
  <2>1. PICK c \in Envs : /\ state[c] = "free" /\ state' = [state EXCEPT ![c] = "embryo"]
                          /\ fork' = [fork EXCEPT ![e] = [pc |-> "scan", child |-> c, i |-> 1, pte |-> "RO"]]
                          /\ pages' = pages /\ perm' = perm
    BY <1>3 DEF SysExofork
  <2>2. c # e /\ (\A a : ~Mapped(c, a)) /\ \A f \in Envs : c \notin Forking(f)
    BY <1>1, <2>1, ForkingIs, Parts DEF LifeOK, Mapped
  <2>3. /\ Forking(e)' = {c} /\ state'[c] = "embryo"
        /\ \A d \in Envs \ {e} : fork'[d] = fork[d] /\ Forking(d)' = Forking(d)
        /\ \A d \in Envs \ {c} : state'[d] = state[d]
    <3>1. /\ fork'[e] = [pc |-> "scan", child |-> c, i |-> 1, pte |-> "RO"] /\ state'[c] = "embryo"
          /\ \A d \in Envs \ {e} : fork'[d] = fork[d]
          /\ \A d \in Envs \ {c} : state'[d] = state[d]
      BY <2>1, Parts DEF FlagsOK, PcOK
    <3> QED BY <3>1 DEF Forking
  <2>4. \A d \in Envs, a \in Shown : /\ Mapped(d, a)' <=> Mapped(d, a)
                                     /\ Mapped(d, a) => (Done(d, a)' <=> Done(d, a))
    <3>1. \A d \in Envs, a \in Shown : Mapped(d, a)' <=> Mapped(d, a)
      BY <2>1 DEF Mapped
    <3>2. ASSUME NEW d \in Envs, NEW a \in Shown, Mapped(d, a) PROVE Done(d, a)' <=> Done(d, a)
      <4>1. d # c /\ state'[d] = state[d] /\ Mapped(d, a)'
        BY <2>2, <2>3, <3>1, <3>2
      <4>2. \A f \in Envs : /\ d \in Forking(f)' <=> d \in Forking(f)
                            /\ d \in Forking(f) => f # e
        BY <1>1, <2>3, <4>1
      <4>3. \A f \in Envs : d \in Forking(f) =>
               /\ fork'[f] = fork[f] /\ perm'[f] = perm[f]
               /\ Same(pages', f, a, d, a) <=> Same(pages, f, a, d, a)
        BY <2>1, <2>3, <4>2
      <4> QED BY <3>2, <4>1, <4>2, <4>3, DoneKept
    <3> QED BY <3>1, <3>2
  <2>5. \A d \in Envs : \A a, v : Sees(d, a, v)' <=> Sees(d, a, v)
    BY <2>1, <2>4 DEF Sees
  <2>6. \A d \in Envs : Memory'[d] = Memory[d]
    BY <2>5, MemoryKept, Parts DEF CowInv
  <2>7. Memory' = Memory
    <3>1. Memory = [d \in Envs |-> Memory[d]] /\ Memory' = [d \in Envs |-> Memory'[d]]
      BY DEF Memory
    <3> QED BY <2>6, <3>1
  <2>8. [f \in Envs |-> Forking(f)]' = [[f \in Envs |-> Forking(f)] EXCEPT ![e] = {c}]
    BY <2>3
  <2> QED BY <1>1, <2>1, <2>7, <2>8 DEF P!Begin
<1> QED BY <1>2, <1>3

(* The child starts when it has every page of its parent.                    *)
LEMMA StartChildMaps ==
    ASSUME CowInv, CowInv', NEW e \in Envs, StartChild(e)
    PROVE  P!Start(e, Child(e))
<1> PICK c : c = Child(e)
  OBVIOUS
<1>1. /\ fork[e].pc = "start" /\ state[e] = "alive" /\ state' = [state EXCEPT ![c] = "alive"]
      /\ fork' = [fork EXCEPT ![e] = Idle] /\ perm' = perm /\ pages' = pages
  BY DEF StartChild, ForkAt, Executes
<1>2. c \in Envs /\ c # e /\ Forking(e) = {c} /\ fork[e].i = Len(VaSeq) + 1 /\ Len(VaSeq) \in Nat
  BY <1>1, ChildIs, Parts, Addresses DEF Reads, Late
<1>3. \A a \in Shown : Given(e, a) /\ Passed(e, a)
  BY <1>2, Addresses DEF Given, Passed
<1>4. /\ Forking(e)' = {} /\ state'[c] = "alive"
      /\ \A d \in Envs \ {e} : fork'[d] = fork[d] /\ Forking(d)' = Forking(d)
      /\ \A d \in Envs \ {c} : state'[d] = state[d]
  <2>1. /\ fork'[e] = Idle /\ state'[c] = "alive"
        /\ \A d \in Envs \ {e} : fork'[d] = fork[d]
        /\ \A d \in Envs \ {c} : state'[d] = state[d]
    BY <1>1, <1>2, Parts DEF FlagsOK, PcOK
  <2> QED BY <2>1 DEF Forking, Idle
<1>5. \A d \in Envs, a \in Shown : Mapped(d, a)' <=> Mapped(d, a)
  BY <1>1 DEF Mapped
<1>6. \A a \in Shown : Mapped(c, a) => Done(c, a) /\ Done(c, a)'
  BY <1>2, <1>3, <1>4, <1>5, DoneIs, DoneIsNext DEF DoneMeans
<1>7. ASSUME NEW d \in Envs, NEW a \in Shown, Mapped(d, a) PROVE Done(d, a)' <=> Done(d, a)
  <2>1. CASE d = c
    BY <1>6, <1>7, <2>1
  <2>2. CASE d # c
    <3>1. state'[d] = state[d] /\ Mapped(d, a)'
      BY <1>4, <1>5, <1>7, <2>2
    <3>2. \A f \in Envs : /\ d \in Forking(f)' <=> d \in Forking(f)
                          /\ d \in Forking(f) => f # e
      BY <1>2, <1>4, <2>2
    <3>3. \A f \in Envs : d \in Forking(f) =>
             /\ fork'[f] = fork[f] /\ perm'[f] = perm[f]
             /\ Same(pages', f, a, d, a) <=> Same(pages, f, a, d, a)
      BY <1>1, <1>4, <3>2
    <3> QED BY <1>7, <3>1, <3>2, <3>3, DoneKept
  <2> QED BY <2>1, <2>2
<1>8. \A d \in Envs : \A a, v : Sees(d, a, v)' <=> Sees(d, a, v)
  BY <1>1, <1>5, <1>7 DEF Sees
<1>9. \A d \in Envs : Memory'[d] = Memory[d]
  BY <1>8, MemoryKept, Parts DEF CowInv
<1>10. Memory' = Memory
  <2>1. Memory = [d \in Envs |-> Memory[d]] /\ Memory' = [d \in Envs |-> Memory'[d]]
    BY DEF Memory
  <2> QED BY <1>9, <2>1
<1>11. DOMAIN Memory[c] = DOMAIN Memory[e]
  <2>1. \A d \in Envs : DOMAIN Memory[d] = {a \in Shown : Mapped(d, a) /\ Done(d, a)}
    BY DEF Memory
  <2>2. \A a \in Shown : Mapped(c, a) <=> Mapped(e, a)
    BY <1>2, <1>3, Parts DEF Gives
  <2>3. \A a \in Shown : Mapped(e, a) => Done(e, a)
    BY <1>1, DoneIs DEF DoneMeans
  <2> QED BY <1>2, <1>6, <2>1, <2>2, <2>3
<1>12. [f \in Envs |-> Forking(f)]' = [[f \in Envs |-> Forking(f)] EXCEPT ![e] = {}]
  BY <1>4
<1> QED BY <1>1, <1>2, <1>10, <1>11, <1>12 DEF P!Start

(* The memory of the first program is that of its pages.                     *)
LEMMA InitMaps == Init => P!Init
<1> SUFFICES ASSUME Init PROVE P!Init
  OBVIOUS
<1>1. CowInv
  BY InitInv
<1>2. PICK m \in [Shown -> Values] : pages = {[at |-> {<<First, va>>}, data |-> m[va]] : va \in Shown}
  BY DEF Init, Shown
<1>3. /\ First \in Envs /\ state = [e \in Envs |-> IF e = First THEN "alive" ELSE "free"]
      /\ \A e \in Envs : fork[e] = Idle /\ Forking(e) = {}
      /\ \A e \in Envs \ {First} : DOMAIN perm[e] = {}
      /\ DOMAIN perm[First] = Shown
  BY CowForkAssumption DEF Init, Forking, Idle, NoPages, Shown
<1>4. \A a \in Shown : Mapped(First, a) /\ Done(First, a) /\ Data(First, a) = m[a]
  <2> SUFFICES ASSUME NEW a \in Shown PROVE Mapped(First, a) /\ Done(First, a) /\ Data(First, a) = m[a]
    OBVIOUS
  <2>1. Mapped(First, a) /\ state[First] = "alive"
    BY <1>3 DEF Mapped
  <2>2. Content(pages, First, a, m[a])
    <3>1. [at |-> {<<First, a>>}, data |-> m[a]] \in pages
      BY <1>2
    <3> QED BY <3>1 DEF Content
  <2> QED BY <1>1, <1>3, <2>1, <2>2, Parts, PageIsUnique DEF Done
<1>5. Memory[First] = m
  <2>1. Memory[First] = [a \in {b \in Shown : Mapped(First, b) /\ Done(First, b)} |-> Data(First, a)]
    BY <1>3 DEF Memory
  <2>2. {b \in Shown : Mapped(First, b) /\ Done(First, b)} = Shown
    BY <1>4
  <2> QED BY <1>4, <2>1, <2>2
<1>6. \A e \in Envs \ {First} : Memory[e] = P!Nothing
  <2> SUFFICES ASSUME NEW e \in Envs \ {First} PROVE Memory[e] = P!Nothing
    OBVIOUS
  <2>1. {b \in Shown : Mapped(e, b) /\ Done(e, b)} = {}
    BY <1>3 DEF Mapped
  <2>2. Memory[e] = [a \in {b \in Shown : Mapped(e, b) /\ Done(e, b)} |-> Data(e, a)]
    BY DEF Memory
  <2> QED BY <2>1, <2>2 DEF P!Nothing
<1>7. Memory = [e \in Envs |-> IF e = First THEN m ELSE P!Nothing]
  <2>1. Memory = [d \in Envs |-> Memory[d]]
    BY DEF Memory
  <2> QED BY <1>5, <1>6, <2>1
<1>8. [e \in Envs |-> Forking(e)] = [e \in Envs |-> {}]
  BY <1>3
<1> QED BY <1>3, <1>7, <1>8 DEF P!Init

(* The loop is at an address of the parent's memory.                         *)
LEMMA CopyIsNext ==
    ASSUME CowInv, NEW e \in Envs, fork[e].pc \in Mapping, P!Copy(e, Child(e), Va(e))
    PROVE  P!Next
<1>1. Child(e) \in Envs /\ Va(e) \in Shown
  BY ChildIs, ScannedIs DEF Mapping
<1> QED BY <1>1 DEF P!Next

(* Every step is a step of PrivateMemory or nothing to it.                   *)
LEMMA StepMaps == CowInv /\ CowInv' /\ [Next]_vars => [P!Next]_P!vars
<1> SUFFICES ASSUME CowInv, CowInv', [Next]_vars PROVE P!Next \/ UNCHANGED P!vars
  OBVIOUS
<1>1. CASE UNCHANGED vars
  BY <1>1, FaultOnly DEF vars
<1>2. ASSUME NEW e \in Envs, Program(e) PROVE P!Next \/ UNCHANGED P!vars
  <2>1. CASE Exit(e)
    BY <2>1, DestroyMaps DEF Exit, Executes, P!Next
  <2>2. ASSUME NEW va \in Vas, PageFault(e, va) PROVE P!Next \/ UNCHANGED P!vars
    BY <2>2, PageFaultMaps DEF P!Next
  <2>3. ASSUME NEW va \in Vas, NEW v \in Values, Write(e, va, v) PROVE P!Next \/ UNCHANGED P!vars
    BY <2>3, WriteMaps DEF P!Next
  <2> QED BY <1>2, <2>1, <2>2, <2>3 DEF Program
<1>3. ASSUME NEW e \in Envs, Pgfault(e) PROVE UNCHANGED P!vars
  BY <1>3, PgfaultAllocMaps, PgfaultCopyMaps, PgfaultMapMaps, PgfaultUnmapMaps DEF Pgfault
<1>4. ASSUME NEW e \in Envs, Fork(e) PROVE P!Next \/ UNCHANGED P!vars
  <2>1. CASE SetPgfaultHandler(e) \/ Scan(e) \/ ChildUxstack(e) \/ ChildUpcall(e)
    BY <2>1, SetPgfaultHandlerMaps, ScanMaps, ChildUxstackMaps, ChildUpcallMaps
  <2>2. CASE SysExofork(e)
    BY <2>2, SysExoforkMaps DEF P!Next
  <2>3. CASE DuppageChild(e)
    <3>1. fork[e].pc \in Mapping
      BY <2>3 DEF DuppageChild, ForkAt, Mapping
    <3> QED BY <2>3, <3>1, DuppageChildMaps, CopyIsNext
  <2>4. CASE DuppageParent(e)
    <3>1. fork[e].pc \in Mapping
      BY <2>4 DEF DuppageParent, ForkAt, Mapping
    <3> QED BY <2>4, <3>1, DuppageParentMaps, CopyIsNext
  <2>5. CASE StartChild(e)
    <3>1. Child(e) \in Envs
      BY <2>5, ChildIs DEF StartChild, ForkAt
    <3> QED BY <2>5, <3>1, StartChildMaps DEF P!Next
  <2> QED BY <1>4, <2>1, <2>2, <2>3, <2>4, <2>5 DEF Fork
<1>5. ASSUME NEW e \in Envs, ForkV0(e) PROVE P!Next \/ UNCHANGED P!vars
  <2>1. CASE V0Alloc(e) \/ V0Map(e) \/ V0Unmap(e)
    BY <2>1, V0AllocMaps, V0MapMaps, V0UnmapMaps
  <2>2. CASE V0Copy(e)
    <3>1. fork[e].pc \in Mapping
      BY <2>2 DEF V0Copy, ForkAt, Mapping
    <3> QED BY <2>2, <3>1, V0CopyMaps, CopyIsNext
  <2> QED BY <1>5, <2>1, <2>2 DEF ForkV0
<1> QED BY <1>1, <1>2, <1>3, <1>4, <1>5 DEF Next

(* fork() and fork_v0() of lib/fork.c implement PrivateMemory for any number *)
(* of environments, addresses and pages: a child gets every page of its      *)
(* parent as it is at some moment of the fork, and neither ever sees what    *)
(* the other writes, however the system calls of the loop, the page faults   *)
(* of everybody and the exits interleave.                                    *)
THEOREM CowRefines == Spec => ForkCopies
<1>1. Init => P!Init
  BY InitMaps
<1>2. CowInv /\ CowInv' /\ [Next]_vars => [P!Next]_P!vars
  BY StepMaps
<1> QED BY <1>1, <1>2, CowInvariant, PTL DEF Spec, ForkCopies, P!Spec
=============================================================================
