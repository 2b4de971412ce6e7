--------------------------- MODULE ExpressionProofs ---------------------------
(* Proofs about modules ExprBuilder, UpdateExpr and QueryPlan, for any      *)
(* items, values and lists and for any chain of calls: what an update that *)
(* was built call by call does to the item, and which rows a compiled      *)
(* query answers.                                                          *)
EXTENDS UpdateExpr, QueryPlan, FiniteSetTheorems, WellFoundedInduction, TLAPS

-----------------------------------------------------------------------------
(* Induction, and lists of any values.                                     *)

\* Induction on the natural numbers, for a set.
LEMMA CountUp ==
    ASSUME NEW T, 0 \in T, \A n \in Nat : n \in T => n + 1 \in T
    PROVE  Nat \subseteq T
<1>. SUFFICES ASSUME Nat \ T # {}
              PROVE  FALSE
  OBVIOUS
<1>. DEFINE Less == OpToRel(<, Nat)
<1>1. IsWellFoundedOn(Less, Nat)
  BY NatLessThanWellFounded
<1>2. \A x, y \in Nat : <<x, y>> \in Less <=> x < y
  BY DEF OpToRel
<1>. HIDE DEF Less
<1>3. \E x \in Nat \ T : \A y \in Nat \ T : ~(<<y, x>> \in Less)
  BY <1>1, WFMin
<1>4. PICK x \in Nat \ T : \A y \in Nat \ T : ~(<<y, x>> \in Less)
  BY <1>3
<1>5. \A y \in Nat : y < x => y \in T
  BY <1>2, <1>4
<1>6. x - 1 \in Nat /\ x - 1 < x /\ x - 1 + 1 = x
  <2>1. x # 0
    OBVIOUS
  <2>. QED  BY <2>1
<1>7. x - 1 \in T
  BY <1>5, <1>6
<1>. QED  BY <1>6, <1>7

IsSeq(s) == \E E : s \in Seq(E)

\* What Append does to a sequence of any values.
LEMMA AppendIs ==
    ASSUME NEW s, IsSeq(s), NEW e
    PROVE  /\ IsSeq(Append(s, e)) /\ Len(s) \in Nat /\ Len(Append(s, e)) = Len(s) + 1
           /\ \A i \in 1 .. Len(s) : Append(s, e)[i] = s[i]
           /\ Append(s, e)[Len(s) + 1] = e
           /\ DOMAIN s = 1 .. Len(s) /\ DOMAIN Append(s, e) = 1 .. Len(s) + 1
<1>1. PICK E : s \in Seq(E)
  BY DEF IsSeq
<1>2. s \in Seq(E \union {e})
  BY <1>1
<1>3. Append(s, e) \in Seq(E \union {e})
  BY <1>2
<1>4. IsSeq(Append(s, e))
  BY <1>3 DEF IsSeq
<1>5. Len(s) \in Nat /\ Len(Append(s, e)) = Len(s) + 1 /\ Append(s, e)[Len(s) + 1] = e
  BY <1>2
<1>6. \A i \in 1 .. Len(s) : Append(s, e)[i] = s[i]
  BY <1>2
<1>7. DOMAIN s = 1 .. Len(s) /\ DOMAIN Append(s, e) = 1 .. Len(s) + 1
  BY <1>2, <1>3, <1>5
<1>. QED  BY <1>4, <1>5, <1>6, <1>7

-----------------------------------------------------------------------------
(* The builder: what a placeholder stands for never changes.               *)

IsBuilder(b) ==
    /\ b = [names |-> b.names, values |-> b.values, key |-> b.key, filter |-> b.filter,
            condition |-> b.condition, update |-> b.update,
            nameCounter |-> b.nameCounter, valueCounter |-> b.valueCounter]
    /\ IsSeq(b.condition) /\ IsSeq(b.update) /\ IsSeq(b.key) /\ IsSeq(b.filter)

\* Placeholders are numbered up to the counters; a reserved word's is its own.
Numbered(b) ==
    /\ b.nameCounter \in Nat /\ b.valueCounter \in Nat
    /\ DOMAIN b.values = 1 .. b.valueCounter
    /\ \A p \in DOMAIN b.names :
          \/ \E f \in Reserved : p = <<"#", UpperCase[f]>> /\ b.names[p] = f
          \/ \E n \in 1 .. b.nameCounter : p = <<"#n", n>>

BuilderOK(b) == IsBuilder(b) /\ Numbered(b)

\* Everything that b says, c says too.
Extends(c, b) ==
    /\ \A p \in DOMAIN b.names : p \in DOMAIN c.names /\ c.names[p] = b.names[p]
    /\ \A k \in DOMAIN b.values : k \in DOMAIN c.values /\ c.values[k] = b.values[k]

\* A new builder is sound.
LEMMA NewBuilderOK == BuilderOK(NewBuilder)
<1>1. IsSeq(<<>>)
  BY DEF IsSeq
<1>2. IsBuilder(NewBuilder)
  BY <1>1 DEF IsBuilder, NewBuilder
<1>3. Numbered(NewBuilder)
  BY DEF Numbered, NewBuilder, Empty
<1>. QED  BY <1>2, <1>3 DEF BuilderOK

\* addNameSecure: a name gets a placeholder that stands for it, and for nothing before.
LEMMA NameAdded ==
    ASSUME NEW b, BuilderOK(b), NEW field, NEW c, c = AddName(b, field)
    PROVE  /\ BuilderOK(c) /\ Extends(c, b)
           /\ NameRef(b, field) \in DOMAIN c.names /\ c.names[NameRef(b, field)] = field
           /\ c.values = b.values /\ c.valueCounter = b.valueCounter /\ c.condition = b.condition
           /\ c.update = b.update /\ c.key = b.key /\ c.filter = b.filter
<1>. DEFINE p == NameRef(b, field)
<1>1. CASE \E q \in DOMAIN b.names : b.names[q] = field
  <2>1. p \in DOMAIN b.names /\ b.names[p] = field
    BY <1>1 DEF NameRef
  <2>. HIDE DEF p
  <2>2. c = [b EXCEPT !.names = Bind(b.names, p, field), !.nameCounter = b.nameCounter]
    BY <1>1 DEF AddName, p
  <2>3. /\ c = [names |-> Bind(b.names, p, field), values |-> b.values, key |-> b.key, filter |-> b.filter,
                condition |-> b.condition, update |-> b.update,
                nameCounter |-> b.nameCounter, valueCounter |-> b.valueCounter]
    BY <2>2 DEF BuilderOK, IsBuilder
  <2>4. DOMAIN c.names = DOMAIN b.names /\ \A q \in DOMAIN b.names : c.names[q] = b.names[q]
    BY <2>1, <2>3 DEF Bind
  <2>. QED  BY <2>1, <2>3, <2>4 DEF BuilderOK, IsBuilder, Numbered, Extends, p
<1>2. CASE ~\E q \in DOMAIN b.names : b.names[q] = field
  <2>1. p = IF field \in Reserved THEN <<"#", UpperCase[field]>> ELSE <<"#n", b.nameCounter + 1>>
    BY <1>2 DEF NameRef
  <2>2. p \notin DOMAIN b.names
    <3>1. CASE field \in Reserved
      BY <1>2, <2>1, <3>1, ReservedAssumption DEF BuilderOK, Numbered
    <3>2. CASE field \notin Reserved
      BY <2>1, <3>2 DEF BuilderOK, Numbered
    <3>. QED  BY <3>1, <3>2
  <2>. HIDE DEF p
  <2>3. c = [b EXCEPT !.names = Bind(b.names, p, field), !.nameCounter = b.nameCounter + 1]
    BY <1>2 DEF AddName, p
  <2>4. /\ c = [names |-> Bind(b.names, p, field), values |-> b.values, key |-> b.key, filter |-> b.filter,
                condition |-> b.condition, update |-> b.update,
                nameCounter |-> b.nameCounter + 1, valueCounter |-> b.valueCounter]
    BY <2>3 DEF BuilderOK, IsBuilder
  <2>5. /\ DOMAIN c.names = DOMAIN b.names \union {p} /\ c.names[p] = field
        /\ \A q \in DOMAIN b.names : c.names[q] = b.names[q]
    BY <2>2, <2>4 DEF Bind
  <2>6. Numbered(c)
    BY <2>1, <2>4, <2>5 DEF BuilderOK, Numbered
  <2>. QED  BY <2>4, <2>5, <2>6 DEF BuilderOK, IsBuilder, Numbered, Extends, p
<1>. QED  BY <1>1, <1>2

\* addValueSecure: a value gets the next placeholder.
LEMMA ValueAdded ==
    ASSUME NEW b, BuilderOK(b), NEW value, NEW c, c = AddValue(b, value)
    PROVE  /\ BuilderOK(c) /\ Extends(c, b)
           /\ c.valueCounter = b.valueCounter + 1 /\ c.values[c.valueCounter] = value
           /\ c.names = b.names /\ c.condition = b.condition
           /\ c.update = b.update /\ c.key = b.key /\ c.filter = b.filter
<1>. DEFINE k == b.valueCounter + 1
<1>1. b.valueCounter \in Nat /\ k \notin DOMAIN b.values /\ DOMAIN b.values = 1 .. b.valueCounter
  BY DEF BuilderOK, Numbered
<1>2. c = [b EXCEPT !.values = Bind(b.values, k, value), !.valueCounter = k]
  BY DEF AddValue
<1>3. c = [names |-> b.names, values |-> Bind(b.values, k, value), key |-> b.key, filter |-> b.filter,
           condition |-> b.condition, update |-> b.update, nameCounter |-> b.nameCounter, valueCounter |-> k]
  BY <1>2 DEF BuilderOK, IsBuilder
<1>4. /\ DOMAIN c.values = DOMAIN b.values \union {k} /\ c.values[k] = value
      /\ \A j \in DOMAIN b.values : c.values[j] = b.values[j]
  BY <1>1, <1>3 DEF Bind
<1>5. DOMAIN c.values = 1 .. k
  BY <1>1, <1>4
<1>. QED  BY <1>1, <1>3, <1>4, <1>5 DEF BuilderOK, IsBuilder, Numbered, Extends

-----------------------------------------------------------------------------
(* Conditions.                                                             *)

\* What e refers to in b is the condition c; its value came after the first low ones.
Refers(b, e, c, low) ==
    /\ e.name \in DOMAIN b.names /\ b.names[e.name] = c.field /\ e.op = c.op
    /\ c.op \in Valueless => e.value = 0
    /\ c.op \notin Valueless =>
          e.value \in Nat /\ e.value > low /\ e.value \in DOMAIN b.values /\ b.values[e.value] = c.value

\* A reference keeps its meaning in a builder that says more.
LEMMA ReferenceStays ==
    ASSUME NEW b, NEW d, Extends(d, b), NEW e, NEW c, NEW low, Refers(b, e, c, low)
    PROVE  Refers(d, e, c, low)
BY DEF Refers, Extends

\* buildCondition.
LEMMA ReferringIs ==
    ASSUME NEW b, BuilderOK(b), NEW c, NEW r, r = Referring(b, c)
    PROVE  /\ BuilderOK(r) /\ Extends(r, b) /\ Refers(r, BuildCondition(b, c), c, b.valueCounter)
           /\ r.condition = b.condition /\ r.update = b.update /\ r.key = b.key /\ r.filter = b.filter
<1>. DEFINE named == AddName(b, c.field)
            e == BuildCondition(b, c)
<1>1. /\ BuilderOK(named) /\ Extends(named, b) /\ NameRef(b, c.field) \in DOMAIN named.names
      /\ named.names[NameRef(b, c.field)] = c.field /\ named.valueCounter = b.valueCounter
      /\ named.condition = b.condition /\ named.update = b.update
      /\ named.key = b.key /\ named.filter = b.filter
  BY NameAdded
<1>2. /\ BuilderOK(r) /\ Extends(r, named) /\ r.names = named.names
      /\ r.condition = b.condition /\ r.update = b.update /\ r.key = b.key /\ r.filter = b.filter
      /\ c.op \notin Valueless => r.valueCounter = b.valueCounter + 1 /\ r.values[r.valueCounter] = c.value
  <2>. HIDE DEF named
  <2>1. CASE c.op \in Valueless
    <3>1. r = named
      BY <2>1 DEF Referring, named
    <3>. QED  BY <1>1, <2>1, <3>1 DEF Extends
  <2>2. CASE c.op \notin Valueless
    <3>1. r = AddValue(named, c.value)
      BY <2>2 DEF Referring, named
    <3>. QED  BY <1>1, <2>2, <3>1, ValueAdded
  <2>. QED  BY <2>1, <2>2
<1>3. /\ e.name = NameRef(b, c.field) /\ e.op = c.op
      /\ c.op \in Valueless => e.value = 0
      /\ c.op \notin Valueless => e.value = b.valueCounter + 1
  BY DEF BuildCondition
<1>4. b.valueCounter \in Nat /\ r.valueCounter \in Nat /\ DOMAIN r.values = 1 .. r.valueCounter
  BY <1>2 DEF BuilderOK, Numbered
<1>. HIDE DEF e, named
<1>5. Refers(r, e, c, b.valueCounter)
  BY <1>1, <1>2, <1>3, <1>4 DEF Refers
<1>6. Extends(r, b)
  BY <1>1, <1>2 DEF Extends
<1>. QED  BY <1>2, <1>5, <1>6 DEF e

\* AddConditionExpressionWithOp: the builder stays sound, keeps what it said, and its new
\* entry refers to the condition.
LEMMA ConditionAdded ==
    ASSUME NEW b, BuilderOK(b), NEW link, NEW c, NEW d, d = AddCondition(b, link, c)
    PROVE  /\ BuilderOK(d) /\ Extends(d, b) /\ d.update = b.update
           /\ d.condition = Append(b.condition, Link(link, <<Link("AND", BuildCondition(b, c))>>))
           /\ Refers(d, BuildCondition(b, c), c, b.valueCounter)
<1>. DEFINE r == Referring(b, c)
            e == BuildCondition(b, c)
            entry == Link(link, <<Link("AND", e)>>)
<1>1. /\ BuilderOK(r) /\ Extends(r, b) /\ r.condition = b.condition /\ r.update = b.update
      /\ Refers(r, e, c, b.valueCounter)
  BY ReferringIs
<1>. HIDE DEF r, e
<1>2. d = [r EXCEPT !.condition = Append(r.condition, entry)]
  BY DEF AddCondition, r, e
<1>3. d = [names |-> r.names, values |-> r.values, key |-> r.key, filter |-> r.filter,
           condition |-> Append(r.condition, entry), update |-> r.update,
           nameCounter |-> r.nameCounter, valueCounter |-> r.valueCounter]
  <2>. HIDE DEF entry
  <2>. QED  BY <1>1, <1>2 DEF BuilderOK, IsBuilder
<1>4. IsSeq(Append(r.condition, entry))
  <2>. HIDE DEF entry
  <2>. QED  BY <1>1, AppendIs DEF BuilderOK, IsBuilder
<1>5. BuilderOK(d)
  <2>. HIDE DEF entry
  <2>. QED  BY <1>1, <1>3, <1>4 DEF BuilderOK, IsBuilder, Numbered
<1>6. d.names = r.names /\ d.values = r.values
  <2>. HIDE DEF entry
  <2>. QED  BY <1>3
<1>7. Extends(d, b) /\ Extends(d, r)
  BY <1>1, <1>6 DEF Extends
<1>8. Refers(d, e, c, b.valueCounter)
  BY <1>1, <1>7, ReferenceStays
<1>9. d.condition = Append(b.condition, entry) /\ d.update = b.update
  <2>. HIDE DEF entry
  <2>. QED  BY <1>1, <1>3
<1>. QED  BY <1>5, <1>7, <1>8, <1>9 DEF e

\* The builders after 0, 1, ... n conditions.
Adds(g, b, links, n) ==
    g = [k \in 0 .. n |-> IF k = 0 THEN b ELSE AddCondition(g[k - 1], links[k].link, links[k].conds)]

\* One more condition can be added.
LEMMA AddsLonger ==
    ASSUME NEW n \in Nat, NEW b, NEW links, NEW g, Adds(g, b, links, n)
    PROVE  \E h : Adds(h, b, links, n + 1)
<1>. DEFINE last == AddCondition(g[n], links[n + 1].link, links[n + 1].conds)
            h == [k \in 0 .. n + 1 |-> IF k = n + 1 THEN last ELSE g[k]]
<1>1. \A k \in 0 .. n : g[k] = IF k = 0 THEN b ELSE AddCondition(g[k - 1], links[k].link, links[k].conds)
  BY DEF Adds
<1>2. \A k \in 0 .. n + 1 : h[k] = IF k = 0 THEN b ELSE AddCondition(h[k - 1], links[k].link, links[k].conds)
  <2>. TAKE k \in 0 .. n + 1
  <2>1. CASE k = n + 1
    <3>1. k # 0 /\ k - 1 = n /\ n \in 0 .. n + 1 /\ n # n + 1
      BY <2>1
    <3>2. h[k - 1] = g[n]
      BY <3>1
    <3>3. h[k] = last
      BY <2>1
    <3>. QED  BY <2>1, <3>1, <3>2, <3>3
  <2>2. CASE k # n + 1
    <3>1. k \in 0 .. n /\ h[k] = g[k]
      BY <2>2
    <3>2. k # 0 => k - 1 \in 0 .. n + 1 /\ k - 1 # n + 1
      BY <3>1
    <3>3. k # 0 => h[k - 1] = g[k - 1]
      BY <3>2
    <3>. HIDE DEF h
    <3>. QED  BY <1>1, <3>1, <3>3
  <2>. QED  BY <2>1, <2>2
<1>3. h = [k \in 0 .. n + 1 |-> h[k]]
  OBVIOUS
<1>4. Adds(h, b, links, n + 1)
  <2>. HIDE DEF h
  <2>. QED  BY <1>2, <1>3 DEF Adds
<1>. QED  BY <1>4

\* AddConditions adds the conditions one after the other.
LEMMA AddedOneByOne ==
    ASSUME NEW b, NEW links, Len(links) \in Nat
    PROVE  \E g : Adds(g, b, links, Len(links)) /\ AddConditions(b, links) = g[Len(links)]
<1>. DEFINE T == {n \in Nat : \E g : Adds(g, b, links, n)}
<1>1. 0 \in T
  <2>. DEFINE g == [k \in 0 .. 0 |-> b]
  <2>1. Adds(g, b, links, 0)
    BY DEF Adds
  <2>. QED  BY <2>1
<1>2. \A n \in Nat : n \in T => n + 1 \in T
  BY AddsLonger
<1>3. Nat \subseteq T
  <2>. HIDE DEF T
  <2>. QED  BY <1>1, <1>2, CountUp
<1>4. \E g : Adds(g, b, links, Len(links))
  BY <1>3
<1>5. LET h == CHOOSE g : Adds(g, b, links, Len(links)) IN Adds(h, b, links, Len(links))
  BY <1>4
<1>6. AddConditions(b, links) = (CHOOSE g : Adds(g, b, links, Len(links)))[Len(links)]
  BY DEF AddConditions, Adds
<1>. QED  BY <1>5, <1>6

\* c is b with n more conditions, each of which refers to what its caller gave.
Built(c, b, links, n) ==
    /\ BuilderOK(c) /\ Extends(c, b) /\ c.update = b.update
    /\ Len(c.condition) = n
    /\ \A i \in 1 .. n : \E e :
          /\ c.condition[i] = Link(links[i].link, <<Link("AND", e)>>)
          /\ Refers(c, e, links[i].conds, b.valueCounter)

\* What is kept by two additions is kept by both together.
LEMMA ExtendsFurther ==
    ASSUME NEW b, NEW c, NEW d, BuilderOK(b), BuilderOK(c), BuilderOK(d), Extends(c, b), Extends(d, c)
    PROVE  Extends(d, b)
BY DEF Extends, BuilderOK, Numbered

\* A builder that says more has drawn at least as many numbers.
LEMMA CounterGrows ==
    ASSUME NEW b, NEW c, BuilderOK(b), BuilderOK(c), Extends(c, b)
    PROVE  b.valueCounter \in Nat /\ c.valueCounter \in Nat /\ b.valueCounter <= c.valueCounter
<1>1. /\ b.valueCounter \in Nat /\ c.valueCounter \in Nat
      /\ DOMAIN b.values = 1 .. b.valueCounter /\ DOMAIN c.values = 1 .. c.valueCounter
  BY DEF BuilderOK, Numbered
<1>2. b.valueCounter # 0 => b.valueCounter \in DOMAIN b.values
  BY <1>1
<1>3. b.valueCounter # 0 => b.valueCounter \in 1 .. c.valueCounter
  BY <1>1, <1>2 DEF Extends
<1>. QED  BY <1>1, <1>3

\* One more condition added to a builder that refers to the first n.
LEMMA OneMore ==
    ASSUME NEW n \in Nat, NEW b, BuilderOK(b), NEW links, NEW c, Built(c, b, links, n),
           NEW d, d = AddCondition(c, links[n + 1].link, links[n + 1].conds)
    PROVE  Built(d, b, links, n + 1)
<1>. DEFINE link == links[n + 1].link
            cond == links[n + 1].conds
            e == BuildCondition(c, cond)
            entry == Link(link, <<Link("AND", e)>>)
<1>1. BuilderOK(c) /\ Extends(c, b) /\ c.update = b.update /\ Len(c.condition) = n
  BY DEF Built
<1>2. /\ BuilderOK(d) /\ Extends(d, c) /\ d.update = c.update /\ d.condition = Append(c.condition, entry)
      /\ Refers(d, e, cond, c.valueCounter)
  <2>1. d = AddCondition(c, link, cond)
    OBVIOUS
  <2>. HIDE DEF link, cond
  <2>2. BuilderOK(c)
    BY <1>1
  <2>3. Refers(d, e, cond, c.valueCounter) /\ d.condition = Append(c.condition, entry)
    BY <2>1, <2>2, ConditionAdded
  <2>4. BuilderOK(d) /\ Extends(d, c) /\ d.update = c.update
    BY <2>1, <2>2, <2>3, ConditionAdded
  <2>. QED  BY <2>3, <2>4
<1>. HIDE DEF e
<1>3. Extends(d, b)
  BY <1>1, <1>2, ExtendsFurther
<1>4. Refers(d, e, links[n + 1].conds, b.valueCounter)
  <2>1. b.valueCounter \in Nat /\ c.valueCounter \in Nat /\ b.valueCounter <= c.valueCounter
    BY <1>1, CounterGrows
  <2>. QED  BY <1>2, <2>1 DEF Refers
<1>5. /\ Len(d.condition) = n + 1 /\ d.condition[n + 1] = entry
      /\ \A i \in 1 .. n : d.condition[i] = c.condition[i]
  <2>. HIDE DEF entry
  <2>1. IsSeq(c.condition)
    BY <1>1 DEF BuilderOK, IsBuilder
  <2>. QED  BY <1>1, <1>2, <2>1, AppendIs
<1>6. \A i \in 1 .. n + 1 : \E f :
          /\ d.condition[i] = Link(links[i].link, <<Link("AND", f)>>)
          /\ Refers(d, f, links[i].conds, b.valueCounter)
  <2>. TAKE i \in 1 .. n + 1
  <2>1. CASE i = n + 1
    BY <2>1, <1>4, <1>5
  <2>2. CASE i # n + 1
    <3>1. i \in 1 .. n
      BY <2>2
    <3>2. PICK f : /\ c.condition[i] = Link(links[i].link, <<Link("AND", f)>>)
                   /\ Refers(c, f, links[i].conds, b.valueCounter)
      BY <3>1, Zenon DEF Built
    <3>3. Refers(d, f, links[i].conds, b.valueCounter)
      BY <3>2, <1>2, ReferenceStays
    <3>4. d.condition[i] = Link(links[i].link, <<Link("AND", f)>>)
      BY <3>1, <3>2, <1>5
    <3>. QED  BY <3>3, <3>4
  <2>. QED  BY <2>1, <2>2
<1>7. d.update = b.update
  BY <1>1, <1>2
<1>. HIDE DEF entry
<1>. QED  BY <1>2, <1>3, <1>5, <1>6, <1>7, Zenon DEF Built

\* A list of conditions in a builder that has none.
LEMMA ConditionsBuilt ==
    ASSUME NEW b, BuilderOK(b), b.condition = <<>>, NEW links, Len(links) \in Nat
    PROVE  Built(AddConditions(b, links), b, links, Len(links))
<1>1. PICK g : Adds(g, b, links, Len(links)) /\ AddConditions(b, links) = g[Len(links)]
  BY AddedOneByOne
<1>2. \A k \in 0 .. Len(links) :
          g[k] = IF k = 0 THEN b ELSE AddCondition(g[k - 1], links[k].link, links[k].conds)
  BY <1>1 DEF Adds
<1>. DEFINE T == {n \in Nat : n <= Len(links) => Built(g[n], b, links, n)}
<1>3. 0 \in T
  <2>1. g[0] = b
    BY <1>2
  <2>2. Extends(b, b)
    BY DEF Extends, BuilderOK, Numbered
  <2>3. Built(b, b, links, 0)
    BY <2>2 DEF Built
  <2>. QED  BY <2>1, <2>3
<1>4. \A n \in Nat : n \in T => n + 1 \in T
  <2>. SUFFICES ASSUME NEW n \in Nat, n \in T, n + 1 <= Len(links)
                PROVE  Built(g[n + 1], b, links, n + 1)
    OBVIOUS
  <2>1. n <= Len(links) /\ n + 1 \in 0 .. Len(links) /\ n + 1 # 0 /\ n + 1 - 1 = n
    OBVIOUS
  <2>2. Built(g[n], b, links, n)
    BY <2>1
  <2>3. g[n + 1] = AddCondition(g[n], links[n + 1].link, links[n + 1].conds)
    BY <1>2, <2>1
  <2>. QED  BY <2>2, <2>3, OneMore
<1>5. Nat \subseteq T
  <2>. HIDE DEF T
  <2>. QED  BY <1>3, <1>4, CountUp
<1>. QED  BY <1>1, <1>5

-----------------------------------------------------------------------------
(* Updates.                                                                *)

\* What e refers to in b is the call u.
Does(b, e, u) ==
    /\ e.name \in DOMAIN b.names /\ b.names[e.name] = u.field /\ e.form = u.form /\ e.index = u.index
    /\ u.form = "remove" => e.value = 0
    /\ u.form # "remove" => e.value # 0 /\ e.value \in DOMAIN b.values /\ b.values[e.value] = u.value

\* The entries of b are the calls; no two have one value's placeholder.
DoesAll(b, us) ==
    /\ Len(b.update) = Len(us)
    /\ \A i \in 1 .. Len(us) : Does(b, b.update[i], us[i])
    /\ \A i, j \in 1 .. Len(us) : b.update[i].value = b.update[j].value => i = j \/ b.update[i].value = 0

\* An update keeps its meaning in a builder that says more.
LEMMA DoesStill ==
    ASSUME NEW b, NEW d, Extends(d, b), NEW e, NEW u, Does(b, e, u)
    PROVE  Does(d, e, u)
BY DEF Does, Extends

\* AddUpdateSet and the others: the builder stays sound, keeps what it said, and its new
\* entry refers to the call, with a number of its own.
LEMMA UpdateAdded ==
    ASSUME NEW b, BuilderOK(b), NEW u, NEW d, d = AddUpdate(b, u)
    PROVE  /\ BuilderOK(d) /\ Extends(d, b) /\ d.condition = b.condition
           /\ d.update = Append(b.update, UpdateEntry(b, u))
           /\ Does(d, UpdateEntry(b, u), u)
           /\ UpdateEntry(b, u).value = 0 \/ UpdateEntry(b, u).value = b.valueCounter + 1
<1>. DEFINE named == AddName(b, u.field)
            r == IF u.form = "remove" THEN named ELSE AddValue(named, u.value)
            e == UpdateEntry(b, u)
<1>1. /\ BuilderOK(named) /\ Extends(named, b) /\ NameRef(b, u.field) \in DOMAIN named.names
      /\ named.names[NameRef(b, u.field)] = u.field
      /\ named.valueCounter = b.valueCounter /\ named.condition = b.condition /\ named.update = b.update
  BY NameAdded
<1>. HIDE DEF named
<1>2. /\ BuilderOK(r) /\ Extends(r, named) /\ r.names = named.names
      /\ r.condition = b.condition /\ r.update = b.update
      /\ u.form # "remove" => r.valueCounter = b.valueCounter + 1 /\ r.values[r.valueCounter] = u.value
  <2>1. CASE u.form = "remove"
    <3>1. r = named
      BY <2>1
    <3>2. named.valueCounter \in Nat
      BY <1>1 DEF BuilderOK, Numbered
    <3>. QED  BY <1>1, <2>1, <3>1, <3>2 DEF Extends
  <2>2. CASE u.form # "remove"
    <3>1. r = AddValue(named, u.value)
      BY <2>2
    <3>. QED  BY <1>1, <2>2, <3>1, ValueAdded
  <2>. QED  BY <2>1, <2>2
<1>3. /\ e.name = NameRef(b, u.field) /\ e.form = u.form /\ e.index = u.index
      /\ u.form = "remove" => e.value = 0
      /\ u.form # "remove" => e.value = b.valueCounter + 1
  BY DEF UpdateEntry
<1>4. b.valueCounter \in Nat /\ r.valueCounter \in Nat /\ DOMAIN r.values = 1 .. r.valueCounter
  <2>. HIDE DEF r
  <2>. QED  BY <1>2 DEF BuilderOK, Numbered
<1>6. d = [r EXCEPT !.update = Append(r.update, e)]
  <2>. HIDE DEF e
  <2>. QED  BY DEF AddUpdate, AddUpdateFunction, named, e
<1>. HIDE DEF r, e
<1>5. Does(r, e, u)
  BY <1>1, <1>2, <1>3, <1>4 DEF Does
<1>7. d = [names |-> r.names, values |-> r.values, key |-> r.key, filter |-> r.filter,
           condition |-> r.condition, update |-> Append(r.update, e),
           nameCounter |-> r.nameCounter, valueCounter |-> r.valueCounter]
  BY <1>2, <1>6 DEF BuilderOK, IsBuilder
<1>8. IsSeq(Append(r.update, e))
  BY <1>2, AppendIs DEF BuilderOK, IsBuilder
<1>9. BuilderOK(d)
  BY <1>2, <1>7, <1>8 DEF BuilderOK, IsBuilder, Numbered
<1>10. Extends(d, b) /\ Extends(d, r)
  <2>1. d.names = r.names /\ d.values = r.values /\ d.valueCounter = r.valueCounter
    BY <1>7
  <2>2. Extends(d, r)
    BY <2>1, <1>4 DEF Extends
  <2>. QED  BY <1>1, <1>2, <1>4, <2>1, <2>2 DEF Extends
<1>11. Does(d, e, u)
  BY <1>5, <1>10, DoesStill
<1>12. d.condition = b.condition /\ d.update = Append(b.update, e)
  BY <1>2, <1>7
<1>. QED  BY <1>3, <1>9, <1>10, <1>11, <1>12 DEF e

\* A builder that has the calls so far has them and the next one.
LEMMA AllDone ==
    ASSUME NEW b, BuilderOK(b), NEW us \in Seq(UpdateCalls), DoesAll(b, us), NEW u \in UpdateCalls
    PROVE  /\ BuilderOK(AddUpdate(b, u)) /\ AddUpdate(b, u).condition = b.condition
           /\ DoesAll(AddUpdate(b, u), Append(us, u))
<1>. DEFINE d == AddUpdate(b, u)
            e == UpdateEntry(b, u)
            n == Len(us)
            more == Append(us, u)
<1>1. /\ BuilderOK(d) /\ Extends(d, b) /\ d.condition = b.condition /\ d.update = Append(b.update, e)
      /\ Does(d, e, u)
      /\ e.value = 0 \/ e.value = b.valueCounter + 1
  BY UpdateAdded
<1>. HIDE DEF d, e
<1>2. /\ n \in Nat /\ Len(more) = n + 1 /\ more[n + 1] = u
      /\ \A i \in 1 .. n : more[i] = us[i]
  OBVIOUS
<1>3. Len(b.update) = n
  BY DEF DoesAll
<1>4. Len(d.update) = n + 1 /\ d.update[n + 1] = e /\ \A i \in 1 .. n : d.update[i] = b.update[i]
  BY <1>1, <1>3, AppendIs DEF BuilderOK, IsBuilder
<1>. HIDE DEF n, more
<1>5. \A i \in 1 .. n : Does(b, b.update[i], us[i])
  BY DEF DoesAll, n
<1>6. \A i \in 1 .. n : Does(d, d.update[i], more[i])
  BY <1>1, <1>2, <1>4, <1>5, DoesStill
<1>7. \A i \in 1 .. n + 1 : Does(d, d.update[i], more[i])
  BY <1>1, <1>2, <1>4, <1>6
<1>8. \A i \in 1 .. n : b.update[i].value = 0 \/ b.update[i].value \in 1 .. b.valueCounter
  BY <1>5 DEF Does, BuilderOK, Numbered
<1>9. \A i \in 1 .. n : b.update[i].value = e.value => e.value = 0
  BY <1>1, <1>8 DEF BuilderOK, Numbered
<1>10. \A i, j \in 1 .. n : b.update[i].value = b.update[j].value => i = j \/ b.update[i].value = 0
  BY DEF DoesAll, n
<1>11. \A i, j \in 1 .. n + 1 : d.update[i].value = d.update[j].value => i = j \/ d.update[i].value = 0
  <2>. TAKE i, j \in 1 .. n + 1
  <2>1. CASE i # n + 1 /\ j # n + 1
    <3>1. i \in 1 .. n /\ j \in 1 .. n
      BY <1>2, <2>1
    <3>. QED  BY <3>1, <1>4, <1>10
  <2>2. CASE i = n + 1 /\ j # n + 1
    <3>1. j \in 1 .. n
      BY <1>2, <2>2
    <3>. QED  BY <3>1, <2>2, <1>4, <1>9
  <2>3. CASE j = n + 1 /\ i # n + 1
    <3>1. i \in 1 .. n
      BY <1>2, <2>3
    <3>. QED  BY <3>1, <2>3, <1>4, <1>9
  <2>. QED  BY <2>1, <2>2, <2>3
<1>12. DoesAll(d, more)
  BY <1>2, <1>4, <1>7, <1>11 DEF DoesAll
<1>. QED  BY <1>1, <1>12 DEF d, more

-----------------------------------------------------------------------------
(* Requests.                                                               *)

IsRequest(p) ==
    p = [update |-> p.update, guard |-> p.guard, demand |-> p.demand,
         names |-> p.names, values |-> p.values, clash |-> p.clash]

\* The request makes the calls; the values of its updates are among the first low.
Asks(p, low) ==
    /\ IsRequest(p) /\ IsSeq(p.update) /\ DoesAll(p, changes)
    /\ low \in Nat
    /\ \A i \in 1 .. Len(changes) : p.update[i].value \in 0 .. low

\* A list of conditions of the request says what its callers gave.
Demands(p, list, links, low) ==
    /\ IsSeq(list) /\ Len(list) = Len(links)
    /\ \A i \in 1 .. Len(links) : \E e :
          /\ list[i] = Link(links[i].link, <<Link("AND", e)>>)
          /\ Refers(p, e, links[i].conds, low)

\* The placeholders of the raw conditions stand for their values, and no update has them.
RawsBound(p) ==
    \A i \in 1 .. Len(raws) : raws[i].ref \in DOMAIN p.values /\ p.values[raws[i].ref] = raws[i].value
RawsApart(p) ==
    \A i \in 1 .. Len(raws), j \in 1 .. Len(changes) : raws[i].ref # p.update[j].value

\* mergeConditionExpressions, when it does not refuse.
LEMMA Merged ==
    ASSUME raws \in Seq(RawConds), NEW p, IsRequest(p), NEW s, s = MergeConditionExpressions(p), ~s.clash
    PROVE  /\ IsRequest(s) /\ Extends(s, p)
           /\ s.update = p.update /\ s.guard = p.guard /\ s.demand = p.demand
           /\ RawsBound(s) /\ \A i \in 1 .. Len(raws) : raws[i].ref \notin DOMAIN p.values
<1>. DEFINE n == Len(raws)
            refs == {raws[i].ref : i \in DOMAIN raws}
            ValueOf(ref) == raws[CHOOSE i \in DOMAIN raws : raws[i].ref = ref].value
            more == [ref \in refs |-> ValueOf(ref)]
            clash == refs \cap DOMAIN p.values # {} \/ Cardinality(refs) < n
            f == [i \in 1 .. n |-> raws[i].ref]
<1>1. n \in Nat /\ DOMAIN raws = 1 .. n
  OBVIOUS
<1>2. s = [p EXCEPT !.clash = clash, !.values = Overlay(p.values, more)]
  BY DEF MergeConditionExpressions
<1>. HIDE DEF more
<1>3. s = [update |-> p.update, guard |-> p.guard, demand |-> p.demand, names |-> p.names,
           values |-> Overlay(p.values, more), clash |-> clash]
  <2>. HIDE DEF clash
  <2>. QED  BY <1>2 DEF IsRequest
<1>. HIDE DEF clash
<1>4. refs \cap DOMAIN p.values = {} /\ ~(Cardinality(refs) < n)
  <2>1. ~clash
    BY <1>3
  <2>. HIDE DEF refs, n
  <2>. QED  BY <2>1 DEF clash
<1>5. f \in Surjection(1 .. n, refs)
  BY <1>1 DEF Surjection
<1>6. \A i, j \in 1 .. n : raws[i].ref = raws[j].ref => i = j
  <2>1. IsFiniteSet(1 .. n) /\ Cardinality(1 .. n) = n
    <3>. HIDE DEF n
    <3>. QED  BY <1>1, FS_Interval
  <2>. HIDE DEF refs
  <2>2. IsFiniteSet(refs) /\ Cardinality(refs) <= n
    BY <1>5, <2>1, FS_Surjection
  <2>3. Cardinality(refs) = n
    BY <1>1, <1>4, <2>2, FS_CardinalityType
  <2>4. f \in Injection(1 .. n, refs)
    BY <1>5, <2>1, <2>3, FS_Surjection
  <2>. QED  BY <2>4 DEF Injection, IsInjective
<1>7. \A i \in 1 .. n : raws[i].ref \in refs /\ more[raws[i].ref] = raws[i].value
  <2>. TAKE i \in 1 .. n
  <2>1. raws[i].ref \in refs
    BY <1>1
  <2>2. more[raws[i].ref] = ValueOf(raws[i].ref)
    BY <2>1 DEF more
  <2>3. (CHOOSE j \in DOMAIN raws : raws[j].ref = raws[i].ref) = i
    BY <1>1, <1>6
  <2>. QED  BY <2>1, <2>2, <2>3
<1>8. DOMAIN more = refs
  BY DEF more
<1>. HIDE DEF refs, n
<1>9. /\ DOMAIN s.values = DOMAIN p.values \union refs
      /\ \A k \in DOMAIN p.values : s.values[k] = p.values[k]
      /\ \A k \in refs : s.values[k] = more[k]
  BY <1>3, <1>4, <1>8 DEF Overlay
<1>10. IsRequest(s) /\ s.update = p.update /\ s.guard = p.guard /\ s.demand = p.demand /\ s.names = p.names
  BY <1>3 DEF IsRequest
<1>11. Extends(s, p)
  BY <1>9, <1>10 DEF Extends
<1>12. \A i \in 1 .. n : /\ raws[i].ref \in DOMAIN s.values /\ s.values[raws[i].ref] = raws[i].value
                         /\ raws[i].ref \notin DOMAIN p.values
  BY <1>4, <1>7, <1>9
<1>. QED  BY <1>10, <1>11, <1>12 DEF n, RawsBound

\* encryptValueRef: a value is sealed if and only if it is one of an encrypted field.
LEMMA SealedOnly ==
    ASSUME NEW low, NEW p, Asks(p, low)
    PROVE  /\ \A i \in 1 .. Len(changes) : changes[i].form # "remove" =>
                 SealedValue(p, p.update[i].value) =
                     IF changes[i].field \in Sealed THEN Seal(changes[i].value) ELSE changes[i].value
           /\ \A k \in DOMAIN p.values :
                 (\A i \in 1 .. Len(changes) : p.update[i].value # k) => SealedValue(p, k) = p.values[k]
<1>1. DOMAIN p.update = 1 .. Len(changes)
  BY AppendIs DEF Asks, DoesAll
<1>2. \A i \in 1 .. Len(changes) : Does(p, p.update[i], changes[i])
  BY DEF Asks, DoesAll
<1>3. \A i, j \in 1 .. Len(changes) :
          p.update[i].value = p.update[j].value => i = j \/ p.update[i].value = 0
  BY DEF Asks, DoesAll
<1>4. ASSUME NEW i \in 1 .. Len(changes), changes[i].form # "remove"
      PROVE  SealedValue(p, p.update[i].value) =
                 IF changes[i].field \in Sealed THEN Seal(changes[i].value) ELSE changes[i].value
  <2>. DEFINE k == p.update[i].value
  <2>1. /\ p.names[p.update[i].name] = changes[i].field /\ k # 0
        /\ k \in DOMAIN p.values /\ p.values[k] = changes[i].value
    BY <1>2, <1>4 DEF Does
  <2>2. \A j \in DOMAIN p.update : p.update[j].value = k => j = i \/ k = 0
    BY <1>1, <1>3, <1>4
  <2>. HIDE DEF k
  <2>. QED  BY <1>1, <1>4, <2>1, <2>2 DEF SealedValue, k
<1>5. ASSUME NEW k \in DOMAIN p.values, \A i \in 1 .. Len(changes) : p.update[i].value # k
      PROVE  SealedValue(p, k) = p.values[k]
  BY <1>1, <1>5 DEF SealedValue
<1>. QED  BY <1>4, <1>5

\* EncryptUpdateExpressionValues: what is sent are the calls with encrypted fields sealed;
\* the conditions, raw or not, still say what they said.
LEMMA Encrypted ==
    ASSUME changes \in Seq(UpdateCalls), NEW low, NEW p, Asks(p, low), RawsBound(p), RawsApart(p),
           NEW s, s = EncryptUpdate(p)
    PROVE  /\ Resolved(s) = Called /\ RawsBound(s)
           /\ s.update = p.update /\ s.names = p.names /\ s.guard = p.guard /\ s.demand = p.demand
           /\ \A e, c : Refers(p, e, c, low) => Refers(s, e, c, low)
<1>. DEFINE sealed == [k \in DOMAIN p.values |-> SealedValue(p, k)]
            n == Len(changes)
            Sent(e) == [form |-> e.form, field |-> s.names[e.name], index |-> e.index,
                        value |-> IF e.value = 0 THEN 0 ELSE s.values[e.value]]
            Call(u) == [form |-> u.form, field |-> u.field, index |-> u.index,
                        value |-> IF u.form = "remove" THEN 0
                                  ELSE IF u.field \in Sealed THEN Seal(u.value) ELSE u.value]
<1>1. s = [p EXCEPT !.values = sealed]
  BY DEF EncryptUpdate
<1>2. /\ s.update = p.update /\ s.names = p.names /\ s.guard = p.guard /\ s.demand = p.demand
      /\ s.values = sealed
  <2>. HIDE DEF sealed
  <2>. QED  BY <1>1 DEF Asks, IsRequest
<1>3. DOMAIN s.values = DOMAIN p.values /\ \A k \in DOMAIN p.values : s.values[k] = SealedValue(p, k)
  BY <1>2
<1>. HIDE DEF sealed
<1>4. \A k \in DOMAIN p.values : (\A i \in 1 .. n : p.update[i].value # k) => s.values[k] = p.values[k]
  BY <1>3, SealedOnly
<1>5. RawsBound(s)
  BY <1>3, <1>4 DEF RawsBound, RawsApart
<1>6. ASSUME NEW e, NEW c, Refers(p, e, c, low)
      PROVE  Refers(s, e, c, low)
  <2>1. CASE c.op \in Valueless
    BY <1>2, <1>6, <2>1 DEF Refers
  <2>2. CASE c.op \notin Valueless
    <3>1. e.value \in Nat /\ e.value > low /\ e.value \in DOMAIN p.values /\ p.values[e.value] = c.value
      BY <1>6, <2>2 DEF Refers
    <3>2. \A i \in 1 .. n : p.update[i].value # e.value
      BY <3>1 DEF Asks
    <3>3. s.values[e.value] = c.value
      BY <1>4, <3>1, <3>2
    <3>. QED  BY <1>2, <1>3, <1>6, <2>2, <3>1, <3>3 DEF Refers
  <2>. QED  BY <2>1, <2>2
<1>7. DOMAIN s.update = 1 .. n /\ Len(s.update) = n
  BY <1>2, AppendIs DEF Asks, DoesAll
<1>8. \A i \in 1 .. n : Sent(s.update[i]) = Call(changes[i])
  <2>. TAKE i \in 1 .. n
  <2>1. Does(p, p.update[i], changes[i])
    BY DEF Asks, DoesAll
  <2>2. /\ s.update[i].form = changes[i].form /\ s.update[i].index = changes[i].index
        /\ s.names[s.update[i].name] = changes[i].field
    BY <1>2, <2>1 DEF Does
  <2>3. CASE changes[i].form = "remove"
    <3>1. s.update[i].value = 0
      BY <1>2, <2>1, <2>3 DEF Does
    <3>. QED  BY <2>2, <2>3, <3>1
  <2>4. CASE changes[i].form # "remove"
    <3>1. s.update[i].value # 0 /\ s.update[i].value \in DOMAIN p.values
      BY <1>2, <2>1, <2>4 DEF Does
    <3>2. s.values[s.update[i].value] =
              IF changes[i].field \in Sealed THEN Seal(changes[i].value) ELSE changes[i].value
      BY <1>2, <1>3, <2>4, <3>1, SealedOnly
    <3>. QED  BY <2>2, <2>4, <3>1, <3>2
  <2>. QED  BY <2>3, <2>4
<1>9. Resolved(s) = Called
  <2>1. Resolved(s) = {Sent(e) : e \in ToSet(s.update)}
    BY DEF Resolved
  <2>2. Called = {Call(u) : u \in ToSet(changes)}
    BY DEF Called
  <2>3. ToSet(s.update) = {s.update[i] : i \in 1 .. n}
    BY <1>7 DEF ToSet
  <2>4. ToSet(changes) = {changes[i] : i \in 1 .. n}
    BY DEF ToSet
  <2>. HIDE DEF Sent, Call
  <2>. QED  BY <1>8, <2>1, <2>2, <2>3, <2>4
<1>. QED  BY <1>2, <1>5, <1>6, <1>9

\* A condition whose operator takes no value.
LEMMA ValueUnused ==
    ASSUME NEW r, NEW field, NEW op \in Valueless, NEW v, NEW w, Compare(r, field, op, v)
    PROVE  Compare(r, field, op, w)
BY DEF Compare, Valueless

\* DynamoDB's answer on an entry is that on the condition it refers to.
LEMMA ReferenceHolds ==
    ASSUME NEW b, NEW e, NEW c, Refers(b, e, c, 0), NEW r
    PROVE  CondHolds(b, e, r) <=> Meets(r, c)
<1>1. b.names[e.name] = c.field /\ e.op = c.op
  BY DEF Refers
<1>2. CASE c.op \in Valueless
  <2>. DEFINE v == IF e.value = 0 THEN 0 ELSE b.values[e.value]
  <2>. HIDE DEF v
  <2>1. CondHolds(b, e, r) <=> Compare(r, c.field, c.op, v)
    BY <1>1 DEF CondHolds, v
  <2>. QED  BY <1>2, <2>1, ValueUnused DEF Meets
<1>3. CASE c.op \notin Valueless
  <2>1. e.value # 0 /\ b.values[e.value] = c.value
    BY <1>3 DEF Refers
  <2>. QED  BY <1>1, <2>1 DEF CondHolds, Meets
<1>. QED  BY <1>2, <1>3

\* A value above some number is above none.
LEMMA LowerReference ==
    ASSUME NEW b, NEW e, NEW c, NEW low \in Nat, Refers(b, e, c, low)
    PROVE  Refers(b, e, c, 0)
BY DEF Refers

\* A group of one condition.
LEMMA OneHolds ==
    ASSUME NEW b, NEW e, NEW r
    PROVE  GroupHolds(b, <<Link("AND", e)>>, r) <=> CondHolds(b, e, r)
<1>. DEFINE one == <<Link("AND", e)>>
<1>1. DOMAIN one = {1} /\ Len(one) = 1 /\ one[1].conds = e /\ one[1].link = "AND"
  BY DEF Link
<1>. HIDE DEF one
<1>2. GroupHolds(b, one, r) <=>
        \E a, z \in DOMAIN one :
            /\ a <= z
            /\ a = 1 \/ one[a].link = "OR"
            /\ z = Len(one) \/ one[z + 1].link = "OR"
            /\ \A k \in a .. z : CondHolds(b, one[k].conds, r) /\ (k > a => one[k].link = "AND")
  BY DEF GroupHolds, Joined
<1>3. 1 .. 1 = {1}
  OBVIOUS
<1>. QED  BY <1>1, <1>2, <1>3 DEF one

\* What a list of conditions says of a row: AND binds tighter than OR.
CondMet(c, r) == Compare(r, c.field, c.op, c.value)
Run(links, a, z, H) ==
    /\ a <= z
    /\ a = 1 \/ links[a].link = "OR"
    /\ z = Len(links) \/ links[z + 1].link = "OR"
    /\ \A k \in a .. z : k \in H /\ (k > a => links[k].link = "AND")
Stands(links, r) ==
    Len(links) = 0 \/ \E a, z \in 1 .. Len(links) :
        Run(links, a, z, {k \in 1 .. Len(links) : CondMet(links[k].conds, r)})

\* The service accepts the conditions of a request just if they stand.
LEMMA LinksStand ==
    ASSUME NEW low \in Nat, NEW p, NEW list, NEW links, Len(links) \in Nat, Demands(p, list, links, low), NEW r
    PROVE  LinksHold(p, list, r) <=> Stands(links, r)
<1>. DEFINE n == Len(links)
            H == {k \in 1 .. n : CondMet(links[k].conds, r)}
<1>1. n \in Nat /\ DOMAIN list = 1 .. n /\ Len(list) = n /\ (list = <<>> <=> n = 0)
  BY AppendIs DEF Demands
<1>2. ASSUME NEW k \in 1 .. n
      PROVE  list[k].link = links[k].link /\ (GroupHolds(p, list[k].conds, r) <=> k \in H)
  <2>1. PICK e : /\ list[k] = Link(links[k].link, <<Link("AND", e)>>)
                 /\ Refers(p, e, links[k].conds, low)
    BY Zenon DEF Demands
  <2>2. list[k].link = links[k].link /\ list[k].conds = <<Link("AND", e)>>
    BY <2>1 DEF Link
  <2>3. CondHolds(p, e, r) <=> CondMet(links[k].conds, r)
    BY <2>1, ReferenceHolds, LowerReference DEF Meets, CondMet
  <2>4. GroupHolds(p, list[k].conds, r) <=> CondHolds(p, e, r)
    BY <2>2, OneHolds
  <2>. QED  BY <2>2, <2>3, <2>4
<1>. HIDE DEF H, n
<1>. DEFINE Accepted(a, z) ==
                /\ a <= z
                /\ a = 1 \/ list[a].link = "OR"
                /\ z = Len(list) \/ list[z + 1].link = "OR"
                /\ \A k \in a .. z : GroupHolds(p, list[k].conds, r) /\ (k > a => list[k].link = "AND")
<1>3. ASSUME NEW a \in 1 .. n, NEW z \in 1 .. n
      PROVE  Run(links, a, z, H) <=> Accepted(a, z)
  <2>1. z # n => z + 1 \in 1 .. n
    BY <1>1
  <2>2. \A k \in a .. z : k \in 1 .. n
    BY <1>1
  <2>. QED  BY <1>1, <1>2, <2>1, <2>2 DEF Run, n
<1>4. LinksHold(p, list, r) <=> list = <<>> \/ \E a, z \in DOMAIN list : Accepted(a, z)
  BY DEF LinksHold, Joined
<1>5. Stands(links, r) <=> n = 0 \/ \E a, z \in 1 .. n : Run(links, a, z, H)
  BY DEF Stands, n, H
<1>. HIDE DEF Accepted
<1>. QED  BY <1>1, <1>3, <1>4, <1>5

\* Conditions keep their meaning where references do.
LEMMA DemandsStay ==
    ASSUME NEW low, NEW p, NEW s, \A e, c : Refers(p, e, c, low) => Refers(s, e, c, low),
           NEW list, NEW links, Demands(p, list, links, low)
    PROVE  Demands(s, list, links, low)
<1>1. ASSUME NEW i \in 1 .. Len(links)
      PROVE  \E e : /\ list[i] = Link(links[i].link, <<Link("AND", e)>>)
                    /\ Refers(s, e, links[i].conds, low)
  <2>1. PICK e : /\ list[i] = Link(links[i].link, <<Link("AND", e)>>)
                 /\ Refers(p, e, links[i].conds, low)
    BY <1>1, Zenon DEF Demands
  <2>. QED  BY <2>1
<1>. QED  BY <1>1, Zenon DEF Demands

-----------------------------------------------------------------------------
(* The state of the builder while it is built.                             *)

\* The query has kept every condition it was given, or has an error.
GivenOK == given \in Seq(WriteConds) /\ queryErr \in BOOLEAN /\ (~queryErr => given = demands)

UpdateTypeOK ==
    /\ changes \in Seq(UpdateCalls) /\ demands \in Seq(WriteConds) /\ raws \in Seq(RawConds)
    /\ guards \in Seq([link : {"AND", "OR"}, conds : UpdateConds])
    /\ GivenOK
    /\ updateResult \in {"building", "nil", "error", "conditionFailed"}

ExprInv == BuilderOK(expr) /\ expr.condition = <<>> /\ DoesAll(expr, changes)

\* A request whose updates are the builder's, after mergeConditionExpressions.
LEMMA Requested ==
    ASSUME UpdateTypeOK, ExprInv,
           NEW p, IsRequest(p), p.update = expr.update, Extends(p, expr),
           NEW guardLinks, Demands(p, p.guard, guardLinks, expr.valueCounter),
           NEW demandLinks, Demands(p, p.demand, demandLinks, expr.valueCounter),
           NEW s, s = MergeConditionExpressions(p), ~s.clash
    PROVE  /\ Asks(s, expr.valueCounter) /\ RawsBound(s) /\ RawsApart(s)
           /\ Demands(s, s.guard, guardLinks, expr.valueCounter)
           /\ Demands(s, s.demand, demandLinks, expr.valueCounter)
<1>. DEFINE low == expr.valueCounter
            n == Len(changes)
<1>1. /\ IsRequest(s) /\ Extends(s, p) /\ s.update = expr.update /\ s.guard = p.guard /\ s.demand = p.demand
      /\ RawsBound(s) /\ \A i \in 1 .. Len(raws) : raws[i].ref \notin DOMAIN p.values
  BY Merged DEF UpdateTypeOK
<1>2. Extends(s, expr)
  BY <1>1 DEF Extends
<1>3. low \in Nat /\ DOMAIN expr.values = 1 .. low /\ IsSeq(expr.update)
  BY DEF ExprInv, BuilderOK, Numbered, IsBuilder
<1>4. \A i \in 1 .. n : Does(expr, expr.update[i], changes[i])
  BY DEF ExprInv, DoesAll
<1>5. \A i \in 1 .. n : expr.update[i].value \in 0 .. low
  BY <1>3, <1>4 DEF Does
<1>6. \A i \in 1 .. n : Does(s, s.update[i], changes[i])
  BY <1>1, <1>2, <1>4, DoesStill
<1>7. DoesAll(s, changes)
  BY <1>1, <1>6 DEF ExprInv, DoesAll
<1>8. Asks(s, low)
  BY <1>1, <1>3, <1>5, <1>7 DEF Asks
<1>9. RawsApart(s)
  <2>. SUFFICES ASSUME NEW i \in 1 .. Len(raws), NEW j \in 1 .. n
                PROVE  raws[i].ref # expr.update[j].value
    BY <1>1 DEF RawsApart
  <2>1. raws[i].ref # 0
    BY UpdateAssumption DEF UpdateTypeOK
  <2>2. expr.update[j].value = 0 \/ expr.update[j].value \in DOMAIN expr.values
    BY <1>4 DEF Does
  <2>3. expr.update[j].value \in DOMAIN expr.values => expr.update[j].value \in DOMAIN p.values
    BY DEF Extends
  <2>. QED  BY <1>1, <2>1, <2>2, <2>3
<1>10. \A e, c : Refers(p, e, c, low) => Refers(s, e, c, low)
  BY <1>1, ReferenceStays
<1>11. Demands(s, s.guard, guardLinks, low) /\ Demands(s, s.demand, demandLinks, low)
  BY <1>1, <1>10, DemandsStay
<1>. QED  BY <1>1, <1>8, <1>9, <1>11

-----------------------------------------------------------------------------
(* What the service does with a request.                                   *)

IsSealed(r) == \A f \in Sealed \cap DOMAIN r : r[f] > SealBase

\* The conditions of a list, by value.
Met(links, r) ==
    \A i \in 1 .. Len(links) : Compare(r, links[i].conds.field, links[i].conds.op, links[i].conds.value)
RawsMet(r) == \A i \in 1 .. Len(raws) : Compare(r, raws[i].field, raws[i].op, raws[i].value)
AllAnd(links) == \A i \in 1 .. Len(links) : i > 1 => links[i].link = "AND"

\* Joined by AND, the conditions of a list stand when all of them are met.
LEMMA StandsOfAnd ==
    ASSUME NEW links, Len(links) \in Nat, AllAnd(links), NEW r
    PROVE  Stands(links, r) <=> Met(links, r)
<1>. DEFINE n == Len(links)
            H == {k \in 1 .. n : CondMet(links[k].conds, r)}
<1>1. Met(links, r) <=> \A k \in 1 .. n : k \in H
  BY DEF Met, CondMet
<1>2. Stands(links, r) <=> n = 0 \/ \E a, z \in 1 .. n : Run(links, a, z, H)
  BY DEF Stands
<1>3. n \in Nat /\ \A k \in 1 .. n : k > 1 => links[k].link = "AND"
  BY DEF AllAnd
<1>. HIDE DEF H
<1>4. ASSUME NEW a \in 1 .. n, NEW z \in 1 .. n, Run(links, a, z, H)
      PROVE  \A k \in 1 .. n : k \in H
  <2>1. /\ a <= z
        /\ a = 1 \/ links[a].link = "OR"
        /\ z = n \/ links[z + 1].link = "OR"
        /\ \A k \in a .. z : k \in H
    BY <1>4 DEF Run
  <2>. HIDE DEF n
  <2>2. a = 1
    BY <1>3, <2>1
  <2>3. z = n
    BY <1>3, <2>1
  <2>. QED  BY <2>1, <2>2, <2>3
<1>5. ASSUME n # 0, \A k \in 1 .. n : k \in H
      PROVE  1 \in 1 .. n /\ n \in 1 .. n /\ Run(links, 1, n, H)
  BY <1>3, <1>5 DEF Run
<1>. HIDE DEF n
<1>6. CASE n = 0
  BY <1>1, <1>2, <1>6
<1>7. CASE n # 0
  BY <1>1, <1>2, <1>4, <1>5, <1>7
<1>. QED  BY <1>6, <1>7

\* No conditions.
LEMMA NothingStands ==
    ASSUME NEW r
    PROVE  Stands(<<>>, r)
BY DEF Stands

\* The outcomes of a conditional write of r.
Outcome(r, guardLinks, demandLinks) ==
    \/ row' = row /\ updateResult' = "error"
    \/ /\ row' = row /\ updateResult' = "conditionFailed"
       /\ ~(RawsMet(row) /\ Stands(guardLinks, row) /\ Stands(demandLinks, row))
    \/ /\ row' = r /\ updateResult' = "nil"
       /\ RawsMet(row) /\ Stands(guardLinks, row) /\ Stands(demandLinks, row)

\* A conditional write happens just if the conditions of the caller hold.
LEMMA Written ==
    ASSUME UpdateTypeOK, NEW low \in Nat, NEW s, RawsBound(s),
           NEW guardLinks, Demands(s, s.guard, guardLinks, low), Len(guardLinks) \in Nat,
           NEW demandLinks, Demands(s, s.demand, demandLinks, low), Len(demandLinks) \in Nat,
           NEW r, Write(s, r)
    PROVE  Outcome(r, guardLinks, demandLinks)
<1>. DEFINE raw == \A i \in DOMAIN raws : Compare(row, raws[i].field, raws[i].op, s.values[raws[i].ref])
            holds == LinksHold(s, s.guard, row) /\ LinksHold(s, s.demand, row) /\ raw
<1>1. LinksHold(s, s.guard, row) <=> Stands(guardLinks, row)
  BY LinksStand
<1>2. LinksHold(s, s.demand, row) <=> Stands(demandLinks, row)
  BY LinksStand
<1>3. raw <=> RawsMet(row)
  <2>1. DOMAIN raws = 1 .. Len(raws)
    BY DEF UpdateTypeOK
  <2>2. \A i \in 1 .. Len(raws) : s.values[raws[i].ref] = raws[i].value
    BY DEF RawsBound
  <2>. QED  BY <2>1, <2>2 DEF RawsMet
<1>4. IF holds THEN row' = r /\ updateResult' = "nil" ELSE row' = row /\ updateResult' = "conditionFailed"
  BY DEF Write
<1>. HIDE DEF raw
<1>. QED  BY <1>1, <1>2, <1>3, <1>4 DEF Outcome

\* An update of an encrypted field that is not refused writes an envelope, or nothing.
LEMMA UpdatedSealed ==
    ASSUME IsSealed(row), NEW us, NEW r, r = Updated(row, us),
           \A u \in us : u.index \in Nat,
           \A u \in us : u.field \in Sealed => /\ u.index = 0 /\ u.form \in {"set", "ifNotExists", "remove"}
                                               /\ u.form # "remove" => u.value > SealBase
    PROVE  IsSealed(r)
<1>. DEFINE Whole(f) == {u \in us : u.field = f /\ u.index = 0}
            Inside(f) == {u \in us : u.field = f /\ u.index > 0}
            set == {u.field : u \in {v \in us : v.form = "delete" => v.field \in DOMAIN row}}
            gone == {f \in DOMAIN row \union set : \E u \in Whole(f) :
                        u.form = "remove" \/ (u.form = "delete" /\ ToSet(row[f]) \subseteq ToSet(u.value))}
            New(f) == IF Inside(f) # {} THEN NewElements(row[f], Inside(f))
                      ELSE IF Whole(f) # {} THEN NewValue(row, CHOOSE u \in Whole(f) : TRUE) ELSE row[f]
<1>1. r = [f \in (DOMAIN row \union set) \ gone |-> New(f)]
  BY DEF Updated
<1>2. SUFFICES ASSUME NEW f \in Sealed, f \in DOMAIN r
               PROVE  r[f] > SealBase
  BY DEF IsSealed
<1>3. f \in DOMAIN row \union set /\ f \notin gone /\ r[f] = New(f)
  <2>. HIDE DEF gone, New, set
  <2>. QED  BY <1>1, <1>2
<1>4. Inside(f) = {}
  BY <1>2
<1>5. \A u \in Whole(f) : u \in us /\ u.field = f /\ u.form \in {"set", "ifNotExists"} /\ u.value > SealBase
  <2>1. \A u \in Whole(f) : u.form # "remove"
    BY <1>3
  <2>. QED  BY <1>2, <2>1
<1>6. CASE Whole(f) = {}
  <2>1. f \in DOMAIN row
    <3>1. f \notin set
      <4>1. \A u \in us : u.field = f => u.index = 0
        BY <1>2
      <4>2. \A u \in us : u.field # f
        BY <1>6, <4>1
      <4>. QED  BY <4>2
    <3>. QED  BY <1>3, <3>1
  <2>2. r[f] = row[f]
    <3>. HIDE DEF Whole, Inside
    <3>. QED  BY <1>3, <1>4, <1>6
  <2>. QED  BY <1>2, <2>1, <2>2 DEF IsSealed
<1>7. CASE Whole(f) # {}
  <2>. DEFINE w == CHOOSE u \in Whole(f) : TRUE
  <2>1. w \in Whole(f)
    BY <1>7
  <2>2. r[f] = NewValue(row, w)
    <3>. HIDE DEF Whole, Inside
    <3>. QED  BY <1>3, <1>4, <1>7
  <2>. HIDE DEF w
  <2>3. w.field = f /\ w.form \in {"set", "ifNotExists"} /\ w.value > SealBase
    BY <1>5, <2>1
  <2>4. f \in DOMAIN row => row[f] > SealBase
    BY <1>2 DEF IsSealed
  <2>. QED  BY <2>2, <2>3, <2>4 DEF NewValue
<1>. QED  BY <1>6, <1>7

\* UpdateItem of an encrypted request.
LEMMA UpdateDone ==
    ASSUME UpdateTypeOK, IsSealed(row), NEW low \in Nat,
           NEW p, Asks(p, low), RawsBound(p), RawsApart(p), ~Refused(p),
           NEW guardLinks, Demands(p, p.guard, guardLinks, low), Len(guardLinks) \in Nat,
           NEW demandLinks, Demands(p, p.demand, demandLinks, low), Len(demandLinks) \in Nat,
           UpdateItem(EncryptUpdate(p))
    PROVE  /\ Outcome(Updated(row, Called), guardLinks, demandLinks)
           /\ updateResult' = "nil" => IsSealed(row')
<1>. DEFINE s == EncryptUpdate(p)
            n == Len(changes)
<1>1. /\ Resolved(s) = Called /\ RawsBound(s)
      /\ s.update = p.update /\ s.names = p.names /\ s.guard = p.guard /\ s.demand = p.demand
      /\ \A e, c : Refers(p, e, c, low) => Refers(s, e, c, low)
  BY Encrypted DEF UpdateTypeOK
<1>. HIDE DEF s
<1>2. Demands(s, s.guard, guardLinks, low) /\ Demands(s, s.demand, demandLinks, low)
  BY <1>1, DemandsStay
<1>. DEFINE illegal == s.update = <<>> \/ Overlap(s)
                       \/ \E u \in Called : NeedsList(u) /\ u.field \notin DOMAIN row \ Sealed
<1>3. IF illegal THEN row' = row /\ updateResult' = "error" ELSE Write(s, Updated(row, Called))
  BY <1>1 DEF UpdateItem, s
<1>. HIDE DEF illegal
<1>4. CASE illegal
  BY <1>3, <1>4 DEF Outcome
<1>5. CASE ~illegal
  <2>1. Write(s, Updated(row, Called))
    BY <1>3, <1>5
  <2>2. Outcome(Updated(row, Called), guardLinks, demandLinks)
    BY <1>1, <1>2, <2>1, Written
  <2>3. \A u \in Called : NeedsList(u) => u.field \notin Sealed
    BY <1>5 DEF illegal
  <2>4. DOMAIN p.update = 1 .. n /\ DOMAIN changes = 1 .. n
    BY AppendIs DEF Asks, DoesAll, UpdateTypeOK
  <2>5. \A i \in 1 .. n : Does(p, p.update[i], changes[i]) /\ changes[i] \in UpdateCalls
    BY DEF Asks, DoesAll, UpdateTypeOK
  <2>6. ASSUME NEW u \in Called
        PROVE  /\ u.index \in Nat
               /\ u.field \in Sealed => /\ u.index = 0 /\ u.form \in {"set", "ifNotExists", "remove"}
                                        /\ u.form # "remove" => u.value > SealBase
    <3>1. PICK i \in 1 .. n :
             u = [form |-> changes[i].form, field |-> changes[i].field, index |-> changes[i].index,
                  value |-> IF changes[i].form = "remove" THEN 0
                            ELSE IF changes[i].field \in Sealed THEN Seal(changes[i].value) ELSE changes[i].value]
      BY <2>4, <2>6 DEF Called, ToSet
    <3>2. u.form = changes[i].form /\ u.field = changes[i].field /\ u.index = changes[i].index
      BY <3>1
    <3>3. u.index \in Nat
      BY <2>5, <3>2, UpdateAssumption
    <3>4. ASSUME u.field \in Sealed
          PROVE  u.index = 0 /\ u.form \in {"set", "ifNotExists", "remove"}
      <4>1. ~NeedsList(u)
        BY <2>3, <3>4
      <4>2. u.index = 0
        BY <3>3, <4>1 DEF NeedsList
      <4>3. CASE u.form = "remove"
        BY <4>2, <4>3
      <4>4. CASE u.form # "remove"
        <5>1. DOMAIN p.values # {} /\ p.names[p.update[i].name] = u.field /\ p.update[i].form = u.form
          BY <2>5, <3>2, <4>4 DEF Does
        <5>2. Encryptable(p.update[i])
          BY <2>4, <3>4, <5>1 DEF Refused
        <5>. QED  BY <4>2, <5>1, <5>2 DEF Encryptable
      <4>. QED  BY <4>3, <4>4
    <3>5. ASSUME u.field \in Sealed, u.form # "remove"
          PROVE  u.value > SealBase
      <4>1. u.value = Seal(changes[i].value)
        BY <3>1, <3>2, <3>5
      <4>2. changes[i].value \in Nat \ {0}
        BY <2>5, <3>2, <3>4, <3>5, UpdateAssumption
      <4>. QED  BY <4>1, <4>2 DEF Seal, SealBase
    <3>. QED  BY <3>3, <3>4, <3>5
  <2>7. IsSealed(Updated(row, Called))
    BY <2>6, UpdatedSealed
  <2>8. updateResult' = "nil" => row' = Updated(row, Called)
    BY <2>2 DEF Outcome
  <2>. QED  BY <2>2, <2>7, <2>8
<1>. QED  BY <1>4, <1>5

-----------------------------------------------------------------------------
(* How requests are compiled.                                              *)

DemandLinks == [i \in DOMAIN demands |-> Link("AND", demands[i])]
LinksOf(how, conditions) ==
    [i \in DOMAIN conditions |-> Link(ConditionLink(how, conditions[i]), conditions[i].conds)]

\* The write conditions of the query, each with AND.
LEMMA DemandLinksAre ==
    ASSUME UpdateTypeOK
    PROVE  /\ Len(DemandLinks) = Len(demands) /\ Len(demands) \in Nat
           /\ \A i \in 1 .. Len(demands) : DemandLinks[i].link = "AND" /\ DemandLinks[i].conds = demands[i]
BY DEF UpdateTypeOK, DemandLinks, Link

\* The conditions of the update, each with the operator it is sent with.
LEMMA LinksOfAre ==
    ASSUME NEW how, NEW conditions, IsSeq(conditions)
    PROVE  /\ Len(LinksOf(how, conditions)) = Len(conditions) /\ Len(conditions) \in Nat
           /\ \A i \in 1 .. Len(conditions) :
                 /\ LinksOf(how, conditions)[i].link = ConditionLink(how, conditions[i])
                 /\ LinksOf(how, conditions)[i].conds = conditions[i].conds
<1>. DEFINE n == Len(conditions)
            links == [i \in 1 .. n |-> Link(ConditionLink(how, conditions[i]), conditions[i].conds)]
<1>1. n \in Nat /\ DOMAIN conditions = 1 .. n
  BY AppendIs
<1>. HIDE DEF n
<1>2. LinksOf(how, conditions) = links
  BY <1>1 DEF LinksOf
<1>3. Len(links) = n
  BY <1>1
<1>4. \A i \in 1 .. n : links[i].link = ConditionLink(how, conditions[i]) /\ links[i].conds = conditions[i].conds
  BY DEF Link
<1>. HIDE DEF links
<1>. QED  BY <1>1, <1>2, <1>3, <1>4 DEF n

\* What the builder's conditions say, a request that has its names and values says.
LEMMA BuiltDemands ==
    ASSUME NEW b, BuilderOK(b), NEW c, NEW links, Built(c, b, links, Len(links)),
           NEW low \in Nat, low <= b.valueCounter, NEW p, Extends(p, c)
    PROVE  Demands(p, c.condition, links, low)
<1>1. b.valueCounter \in Nat
  BY DEF BuilderOK, Numbered
<1>2. IsSeq(c.condition) /\ Len(c.condition) = Len(links)
  BY DEF Built, BuilderOK, IsBuilder
<1>3. ASSUME NEW i \in 1 .. Len(links)
      PROVE  \E e : /\ c.condition[i] = Link(links[i].link, <<Link("AND", e)>>)
                    /\ Refers(p, e, links[i].conds, low)
  <2>1. PICK e : /\ c.condition[i] = Link(links[i].link, <<Link("AND", e)>>)
                 /\ Refers(c, e, links[i].conds, b.valueCounter)
    BY <1>3, Zenon DEF Built
  <2>2. Refers(p, e, links[i].conds, b.valueCounter)
    BY <2>1, ReferenceStays
  <2>3. Refers(p, e, links[i].conds, low)
    BY <1>1, <2>2 DEF Refers
  <2>. QED  BY <2>1, <2>3
<1>. QED  BY <1>2, <1>3, Zenon DEF Demands

\* A request without conditions says what nobody gave.
LEMMA NoDemands ==
    ASSUME NEW p, NEW low
    PROVE  Demands(p, <<>>, <<>>, low)
<1>1. IsSeq(<<>>)
  BY DEF IsSeq
<1>. QED  BY <1>1 DEF Demands

\* ResetConditions on a clone: the placeholders stay, and so do the counters.
LEMMA ResetOK ==
    ASSUME NEW b, BuilderOK(b), NEW c, c = ResetConditions(Clone(b))
    PROVE  /\ BuilderOK(c) /\ c.condition = <<>> /\ c.names = b.names /\ c.values = b.values
           /\ c.valueCounter = b.valueCounter
<1>1. c = [names |-> b.names, values |-> b.values, key |-> b.key, filter |-> b.filter,
           condition |-> <<>>, update |-> b.update,
           nameCounter |-> b.nameCounter, valueCounter |-> b.valueCounter]
  BY DEF ResetConditions, Clone, BuilderOK, IsBuilder
<1>2. IsSeq(<<>>)
  BY DEF IsSeq
<1>. QED  BY <1>1, <1>2 DEF BuilderOK, IsBuilder, Numbered

\* Execute and ExecuteWithResult: two builders, one request.
LEMMA CompiledByTwo ==
    ASSUME UpdateTypeOK, ExprInv, NEW how, NEW p, p = CompiledUpdate(how, guards), ~p.clash
    PROVE  /\ Asks(p, expr.valueCounter) /\ RawsBound(p) /\ RawsApart(p)
           /\ Demands(p, p.guard, LinksOf(how, guards), expr.valueCounter)
           /\ Demands(p, p.demand, DemandLinks, expr.valueCounter)
<1>. DEFINE low == expr.valueCounter
            links == LinksOf(how, guards)
            b == WithGuards(how, guards)
            clone == ResetConditions(Clone(b))
            q == WithDemands(b)
            s == [update |-> b.update, guard |-> b.condition, demand |-> q.condition,
                  names |-> Overlay(q.names, b.names), values |-> Overlay(q.values, b.values), clash |-> FALSE]
<1>1. low \in Nat
  BY DEF ExprInv, BuilderOK, Numbered
<1>2. Built(b, expr, links, Len(links))
  <2>1. IsSeq(guards)
    BY DEF UpdateTypeOK, IsSeq
  <2>2. Len(links) \in Nat
    BY <2>1, LinksOfAre
  <2>3. b = AddConditions(expr, links)
    BY DEF WithGuards, LinksOf
  <2>. HIDE DEF links, b
  <2>. QED  BY <2>2, <2>3, ConditionsBuilt DEF ExprInv
<1>3. BuilderOK(b) /\ Extends(b, expr) /\ b.update = expr.update
  <2>. HIDE DEF b, links
  <2>. QED  BY <1>2 DEF Built
<1>4. /\ BuilderOK(clone) /\ clone.condition = <<>> /\ clone.names = b.names /\ clone.values = b.values
      /\ clone.valueCounter = b.valueCounter
  <2>. HIDE DEF b
  <2>. QED  BY <1>3, ResetOK
<1>5. Built(q, clone, DemandLinks, Len(DemandLinks))
  <2>1. q = AddConditions(clone, DemandLinks)
    BY DEF WithDemands, Demanding, DemandLinks
  <2>. HIDE DEF q, clone, b
  <2>. QED  BY <1>4, <2>1, DemandLinksAre, ConditionsBuilt
<1>. HIDE DEF b, q, clone, links
<1>6. BuilderOK(q) /\ Extends(q, b)
  BY <1>4, <1>5 DEF Built, Extends
<1>7. Extends(s, q) /\ Extends(s, b) /\ Extends(s, expr)
  <2>1. s.names = Overlay(q.names, b.names) /\ s.values = Overlay(q.values, b.values)
    OBVIOUS
  <2>. HIDE DEF s
  <2>2. Extends(s, q)
    BY <2>1 DEF Extends, Overlay
  <2>3. Extends(s, b)
    BY <2>2, <1>6 DEF Extends
  <2>. QED  BY <2>2, <2>3, <1>3 DEF Extends
<1>8. IsRequest(s) /\ s.update = expr.update /\ s.guard = b.condition /\ s.demand = q.condition
  BY <1>3 DEF IsRequest
<1>9. p = MergeConditionExpressions(s)
  BY DEF CompiledUpdate, b, q
<1>. HIDE DEF s
<1>10. Demands(s, s.guard, links, low)
  BY <1>1, <1>2, <1>7, <1>8, BuiltDemands DEF ExprInv
<1>11. Demands(s, s.demand, DemandLinks, low)
  <2>1. low <= clone.valueCounter
    BY <1>3, <1>4, CounterGrows DEF ExprInv
  <2>. QED  BY <1>1, <1>4, <1>5, <1>7, <1>8, <2>1, BuiltDemands
<1>12. /\ Asks(p, low) /\ RawsBound(p) /\ RawsApart(p)
       /\ Demands(p, p.guard, links, low) /\ Demands(p, p.demand, DemandLinks, low)
  BY <1>7, <1>8, <1>9, <1>10, <1>11, Requested
<1>. QED  BY <1>12 DEF links

\* The request of one builder.
RequestOf(b) == [update |-> b.update, guard |-> b.condition, demand |-> <<>>,
                 names |-> b.names, values |-> b.values, clash |-> FALSE]

\* The request of a single builder says what the builder says.
LEMMA RequestIs ==
    ASSUME NEW b, BuilderOK(b), NEW s, s = RequestOf(b)
    PROVE  /\ IsRequest(s) /\ Extends(s, b)
           /\ s.update = b.update /\ s.guard = b.condition /\ s.demand = <<>>
BY DEF RequestOf, IsRequest, Extends

\* The request of a transaction: one builder and the raw conditions.
LEMMA CompiledByOne ==
    ASSUME UpdateTypeOK, ExprInv, NEW links, Len(links) \in Nat, NEW b, b = AddConditions(expr, links),
           NEW p, p = MergeConditionExpressions(RequestOf(b)), ~p.clash
    PROVE  /\ Asks(p, expr.valueCounter) /\ RawsBound(p) /\ RawsApart(p)
           /\ Demands(p, p.guard, links, expr.valueCounter)
           /\ Demands(p, p.demand, <<>>, expr.valueCounter)
<1>. DEFINE low == expr.valueCounter
            s == RequestOf(b)
<1>1. low \in Nat /\ low <= expr.valueCounter
  BY DEF ExprInv, BuilderOK, Numbered
<1>2. Built(b, expr, links, Len(links))
  BY ConditionsBuilt DEF ExprInv
<1>3. BuilderOK(b) /\ Extends(b, expr) /\ b.update = expr.update
  BY <1>2 DEF Built
<1>4. /\ IsRequest(s) /\ Extends(s, b) /\ s.update = expr.update /\ s.guard = b.condition /\ s.demand = <<>>
  BY <1>3, RequestIs
<1>. HIDE DEF s
<1>5. Extends(s, expr)
  BY <1>3, <1>4 DEF Extends
<1>6. Demands(s, s.guard, links, low)
  BY <1>1, <1>2, <1>4, BuiltDemands DEF ExprInv
<1>7. Demands(s, s.demand, <<>>, low)
  BY <1>4, NoDemands
<1>8. p = MergeConditionExpressions(s)
  BY DEF s
<1>. QED  BY <1>4, <1>5, <1>6, <1>7, <1>8, Requested

\* A write without an update expression.
LEMMA CompiledPlain ==
    ASSUME UpdateTypeOK, NEW p, p = Conditioned(NewBuilder), ~p.clash
    PROVE  RawsBound(p) /\ Demands(p, p.guard, DemandLinks, 0) /\ Demands(p, p.demand, <<>>, 0)
<1>. DEFINE b == Demanding(NewBuilder)
            s == RequestOf(b)
<1>1. NewBuilder.condition = <<>> /\ 0 <= NewBuilder.valueCounter
  BY DEF NewBuilder
<1>2. Built(b, NewBuilder, DemandLinks, Len(DemandLinks))
  <2>1. b = AddConditions(NewBuilder, DemandLinks)
    BY DEF Demanding, DemandLinks
  <2>. HIDE DEF b
  <2>. QED  BY <1>1, <2>1, NewBuilderOK, DemandLinksAre, ConditionsBuilt
<1>3. p = MergeConditionExpressions(s)
  BY DEF Conditioned, MergeRawConditions, RequestOf
<1>. HIDE DEF b
<1>4. BuilderOK(b)
  BY <1>2 DEF Built
<1>5. IsRequest(s) /\ Extends(s, b) /\ s.guard = b.condition /\ s.demand = <<>>
  BY <1>4, RequestIs
<1>. HIDE DEF s
<1>6. IsRequest(p) /\ Extends(p, s) /\ p.guard = s.guard /\ p.demand = s.demand /\ RawsBound(p)
  BY <1>3, <1>5, Merged DEF UpdateTypeOK
<1>7. Extends(p, b)
  BY <1>5, <1>6 DEF Extends
<1>8. Demands(p, b.condition, DemandLinks, 0)
  BY <1>1, <1>2, <1>7, NewBuilderOK, BuiltDemands
<1>9. Demands(p, <<>>, <<>>, 0)
  BY NoDemands
<1>. QED  BY <1>5, <1>6, <1>8, <1>9

-----------------------------------------------------------------------------
(* The invariant.                                                          *)

\* The part of the state that an update is built in, what the write did, and the row.
UpdateInv == UpdateTypeOK /\ ExprInv /\ UpdateMeansItsCalls /\ UpdatesAreSealed

\* What the caller's conditions say, in the terms of the requests.
LEMMA GuardsMean ==
    ASSUME UpdateTypeOK, ~queryErr, NEW r
    PROVE  GuardsHold(r) <=> RawsMet(r) /\ Met(DemandLinks, r) /\ Stands(guards, r)
<1>1. (\A i \in DOMAIN given : Compare(r, given[i].field, given[i].op, given[i].value)) <=> Met(DemandLinks, r)
  <2>1. given = demands /\ DOMAIN given = 1 .. Len(demands)
    BY DEF UpdateTypeOK, GivenOK
  <2>. QED  BY <2>1, DemandLinksAre DEF Met
<1>2. (\A i \in DOMAIN raws : Compare(r, raws[i].field, raws[i].op, raws[i].value)) <=> RawsMet(r)
  <2>1. DOMAIN raws = 1 .. Len(raws)
    BY DEF UpdateTypeOK
  <2>. QED  BY <2>1, Zenon DEF RawsMet
<1>3. (guards = <<>> \/ Joined(guards, LAMBDA c : Compare(r, c.field, c.op, c.value))) <=> Stands(guards, r)
  <2>. DEFINE n == Len(guards)
              H == {k \in 1 .. n : CondMet(guards[k].conds, r)}
  <2>1. n \in Nat /\ DOMAIN guards = 1 .. n /\ (guards = <<>> <=> n = 0)
    BY DEF UpdateTypeOK
  <2>2. \A k \in 1 .. n : k \in H <=> Compare(r, guards[k].conds.field, guards[k].conds.op, guards[k].conds.value)
    BY DEF CondMet
  <2>3. Stands(guards, r) <=> n = 0 \/ \E a, z \in 1 .. n : Run(guards, a, z, H)
    BY DEF Stands
  <2>4. Joined(guards, LAMBDA c : Compare(r, c.field, c.op, c.value)) <=>
          \E a, z \in DOMAIN guards :
              /\ a <= z
              /\ a = 1 \/ guards[a].link = "OR"
              /\ z = Len(guards) \/ guards[z + 1].link = "OR"
              /\ \A k \in a .. z :
                    /\ Compare(r, guards[k].conds.field, guards[k].conds.op, guards[k].conds.value)
                    /\ k > a => guards[k].link = "AND"
    BY DEF Joined
  <2>. HIDE DEF H
  <2>5. ASSUME NEW a \in 1 .. n, NEW z \in 1 .. n
        PROVE  Run(guards, a, z, H) <=>
                 /\ a <= z
                 /\ a = 1 \/ guards[a].link = "OR"
                 /\ z = Len(guards) \/ guards[z + 1].link = "OR"
                 /\ \A k \in a .. z :
                       /\ Compare(r, guards[k].conds.field, guards[k].conds.op, guards[k].conds.value)
                       /\ k > a => guards[k].link = "AND"
    <3>1. \A k \in a .. z : k \in 1 .. n
      BY <2>1
    <3>. QED  BY <2>2, <3>1 DEF Run
  <2>. HIDE DEF n
  <2>. QED  BY <2>1, <2>3, <2>4, <2>5
<1>. QED  BY <1>1, <1>2, <1>3 DEF GuardsHold

\* A write that is sent leaves what was asked alone.
LEMMA SendingKeeps ==
    ASSUME UpdateTypeOK, ExprInv, NEW kind, Sending(kind), updateResult' \in {"nil", "error", "conditionFailed"}
    PROVE  /\ UpdateTypeOK' /\ ExprInv' /\ before' = row /\ wrote' = kind
           /\ Called' = Called /\ PutItemOf' = PutItemOf /\ updateResult = "building"
           /\ queryErr' = queryErr
           /\ (OnlyAnd' /\ kind # "updateWithResult") =>
                 /\ AllAnd(guards)
                 /\ (kind = "transactUpdate" /\ demands # <<>>) => guards = <<>> \/ guards[1].link = "AND"
<1>1. /\ before' = row /\ wrote' = kind /\ updateResult = "building" /\ expr' = expr /\ changes' = changes
      /\ guards' = guards /\ demands' = demands /\ raws' = raws /\ given' = given /\ queryErr' = queryErr
  BY DEF Sending
<1>2. UpdateTypeOK' /\ ExprInv'
  BY <1>1 DEF UpdateTypeOK, GivenOK, ExprInv
<1>3. Called' = Called
  BY <1>1 DEF Called
<1>4. PutItemOf' = PutItemOf
  BY <1>1 DEF PutItemOf
<1>5. ASSUME OnlyAnd', kind # "updateWithResult"
      PROVE  /\ AllAnd(guards)
             /\ (kind = "transactUpdate" /\ demands # <<>>) => guards = <<>> \/ guards[1].link = "AND"
  <2>1. DOMAIN guards = 1 .. Len(guards) /\ Len(guards) \in Nat
    BY DEF UpdateTypeOK
  <2>2. guards # <<>> => 1 \in DOMAIN guards
    BY <2>1 DEF UpdateTypeOK
  <2>. QED  BY <1>1, <1>5, <2>1, <2>2 DEF OnlyAnd, AllAnd
<1>. QED  BY <1>1, <1>2, <1>3, <1>4, <1>5

\* A write that says what it means keeps the invariant.
LEMMA WriteKeeps ==
    ASSUME UpdateInv, NEW kind, Sending(kind), NEW m, NEW guardLinks, NEW demandLinks,
           Outcome(m, guardLinks, demandLinks), updateResult' = "nil" => IsSealed(row'),
           kind = "put" => m = PutItemOf, kind = "delete" => m = Empty, kind = "check" => m = row,
           kind \notin {"put", "delete", "check"} => m = Updated(row, Called),
           OnlyAnd' => (Stands(guardLinks, row) /\ Stands(demandLinks, row)
                           <=> Met(DemandLinks, row) /\ Stands(guards, row))
    PROVE  UpdateInv'
<1>1. UpdateTypeOK /\ ExprInv /\ IsSealed(row)
  BY DEF UpdateInv, UpdatesAreSealed, IsSealed
<1>2. updateResult' \in {"nil", "error", "conditionFailed"}
  BY DEF Outcome
<1>3. /\ UpdateTypeOK' /\ ExprInv' /\ before' = row /\ wrote' = kind
      /\ Called' = Called /\ PutItemOf' = PutItemOf
  BY <1>1, <1>2, SendingKeeps
<1>4. queryErr' = queryErr /\ GuardsHold(before)' = GuardsHold(row)
  <2>1. guards' = guards /\ given' = given /\ raws' = raws /\ queryErr' = queryErr
    BY DEF Sending
  <2>. QED  BY <1>3, <2>1 DEF GuardsHold, Joined
<1>5. CASE \/ row' = row /\ updateResult' = "error"
           \/ /\ row' = row /\ updateResult' = "conditionFailed"
              /\ ~(RawsMet(row) /\ Stands(guardLinks, row) /\ Stands(demandLinks, row))
  <2>1. ASSUME updateResult' = "conditionFailed", OnlyAnd', ~queryErr'
        PROVE  ~GuardsHold(before)'
    <3>1. GuardsHold(row) => RawsMet(row) /\ Met(DemandLinks, row) /\ Stands(guards, row)
      BY <1>1, <1>4, <2>1, GuardsMean
    <3>. QED  BY <1>5, <1>4, <2>1, <3>1
  <2>2. UpdateMeansItsCalls'
    BY <1>3, <1>5, <2>1 DEF UpdateMeansItsCalls, Heard
  <2>3. UpdatesAreSealed'
    BY <1>1, <1>5 DEF UpdatesAreSealed, IsSealed
  <2>. QED  BY <1>3, <2>2, <2>3 DEF UpdateInv
<1>6. CASE /\ row' = m /\ updateResult' = "nil"
           /\ RawsMet(row) /\ Stands(guardLinks, row) /\ Stands(demandLinks, row)
  <2>1. UpdatesAreSealed'
    BY <1>6 DEF UpdatesAreSealed, IsSealed
  <2>2. Meant(before)' = m
    <3>1. Meant(before)' = IF wrote' = "put" THEN PutItemOf' ELSE IF wrote' = "delete" THEN Empty
                           ELSE IF wrote' = "check" THEN before' ELSE Updated(before', Called')
      BY DEF Meant
    <3>. QED  BY <1>3, <3>1
  <2>3. ASSUME OnlyAnd', ~queryErr'
        PROVE  GuardsHold(before)'
    <3>1. Met(DemandLinks, row) /\ Stands(guards, row)
      BY <1>6, <2>3
    <3>2. GuardsHold(row)
      BY <1>1, <1>4, <1>6, <2>3, <3>1, GuardsMean
    <3>. QED  BY <1>4, <3>2
  <2>4. UpdateMeansItsCalls'
    BY <1>6, <2>2, <2>3 DEF UpdateMeansItsCalls, Heard
  <2>. QED  BY <1>3, <2>1, <2>4 DEF UpdateInv
<1>. QED  BY <1>5, <1>6 DEF Outcome

\* A write that is refused.
LEMMA RefusalKeeps ==
    ASSUME UpdateInv, NEW kind, Sending(kind), Refuse
    PROVE  UpdateInv'
<1>1. UpdateTypeOK' /\ ExprInv' /\ before' = row
  BY SendingKeeps DEF Refuse, UpdateInv
<1>2. row' = row /\ updateResult' = "error"
  BY DEF Refuse
<1>. QED  BY <1>1, <1>2 DEF UpdateInv, UpdateMeansItsCalls, UpdatesAreSealed

\* A call that adds an update.
LEMMA ChangeKeeps ==
    ASSUME UpdateInv, NEW u \in UpdateCalls, Change(u)
    PROVE  UpdateInv'
<1>1. /\ changes' = Append(changes, u) /\ expr' = AddUpdate(expr, u) /\ updateResult = "building"
      /\ UNCHANGED <<row, guards, demands, given, queryErr, raws, updateResult>>
  BY DEF Change, Open
<1>2. UpdateTypeOK'
  BY <1>1 DEF UpdateInv, UpdateTypeOK, GivenOK
<1>3. ExprInv'
  BY <1>1, AllDone DEF UpdateInv, UpdateTypeOK, ExprInv
<1>. QED  BY <1>1, <1>2, <1>3 DEF UpdateInv, UpdateMeansItsCalls, UpdatesAreSealed

\* The calls that add a condition.
LEMMA BuildingKeeps ==
    ASSUME UpdateInv,
           \/ \E logicOp \in {"AND", "OR"}, c \in UpdateConds : Condition(logicOp, c)
           \/ \E c \in WriteConds : WithCondition(c) \/ TransactCondition(c)
           \/ \E raw \in RawConds : WithConditionExpression(raw)
    PROVE  UpdateInv'
<1>1. updateResult = "building" /\ UNCHANGED <<row, expr, changes, updateResult>>
  BY DEF Condition, WithCondition, TransactCondition, WithConditionExpression, Open
<1>2. UpdateTypeOK'
  <2>1. CASE \E logicOp \in {"AND", "OR"}, c \in UpdateConds : Condition(logicOp, c)
    <3>1. PICK logicOp \in {"AND", "OR"}, c \in UpdateConds : Condition(logicOp, c)
      BY <2>1
    <3>2. guards' = guards \/ guards' = Append(guards, Link(logicOp, c))
      <4>1. CASE c.field \in Sealed
        BY <3>1, <4>1 DEF Condition
      <4>2. CASE c.field \notin Sealed
        BY <3>1, <4>2 DEF Condition
      <4>. QED  BY <4>1, <4>2
    <3>. DEFINE L == [link : {"AND", "OR"}, conds : UpdateConds]
    <3>3. Link(logicOp, c) \in L
      BY DEF Link
    <3>4. guards \in Seq(L)
      BY DEF UpdateInv, UpdateTypeOK
    <3>5. guards' \in Seq(L)
      <4>. HIDE DEF L
      <4>. QED  BY <3>2, <3>3, <3>4
    <3>6. demands' = demands /\ raws' = raws /\ given' = given /\ queryErr' = queryErr
      BY <3>1 DEF Condition
    <3>. QED  BY <1>1, <3>5, <3>6 DEF UpdateInv, UpdateTypeOK, GivenOK
  <2>2. CASE \E c \in WriteConds : WithCondition(c) \/ TransactCondition(c)
    <3>1. PICK c \in WriteConds : WithCondition(c) \/ TransactCondition(c)
      BY <2>2
    <3>2. /\ given' = Append(given, c) /\ raws' = raws /\ guards' = guards
          /\ \/ demands' = Append(demands, c) /\ queryErr' = queryErr
             \/ demands' = demands /\ queryErr' = TRUE
      <4>1. CASE TransactCondition(c)
        BY <4>1 DEF TransactCondition
      <4>2. CASE WithCondition(c) /\ c.field \in Sealed
        BY <4>2 DEF WithCondition
      <4>3. CASE WithCondition(c) /\ c.field \notin Sealed
        BY <4>3 DEF WithCondition
      <4>. QED  BY <3>1, <4>1, <4>2, <4>3
    <3>3. GivenOK /\ demands \in Seq(WriteConds)
      BY DEF UpdateInv, UpdateTypeOK
    <3>4. GivenOK' /\ demands' \in Seq(WriteConds)
      <4>1. given' \in Seq(WriteConds) /\ demands' \in Seq(WriteConds)
        BY <3>2, <3>3 DEF GivenOK
      <4>2. queryErr' \in BOOLEAN /\ (~queryErr' => given' = demands')
        BY <3>2, <3>3 DEF GivenOK
      <4>. QED  BY <4>1, <4>2 DEF GivenOK
    <3>. QED  BY <1>1, <3>2, <3>4 DEF UpdateInv, UpdateTypeOK
  <2>3. CASE \E raw \in RawConds : WithConditionExpression(raw)
    BY <1>1, <2>3 DEF UpdateInv, UpdateTypeOK, GivenOK, WithConditionExpression
  <2>. QED  BY <2>1, <2>2, <2>3
<1>3. ExprInv'
  BY <1>1 DEF UpdateInv, ExprInv
<1>. QED  BY <1>1, <1>2, <1>3 DEF UpdateInv, UpdateMeansItsCalls, UpdatesAreSealed

\* Sending the conditions does not change what they say of a row.
LEMMA LinksSame ==
    ASSUME NEW how, NEW conditions, IsSeq(conditions), NEW r
    PROVE  /\ AllAnd(conditions) => AllAnd(LinksOf(how, conditions))
           /\ Met(LinksOf(how, conditions), r) <=> Met(conditions, r)
BY LinksOfAre DEF AllAnd, Met, ConditionLink

\* ExecuteWithResult sends the operators of the caller.
LEMMA LinksStandSame ==
    ASSUME NEW how, how # "Execute", NEW conditions, IsSeq(conditions), NEW r
    PROVE  Stands(LinksOf(how, conditions), r) <=> Stands(conditions, r)
<1>. DEFINE n == Len(conditions)
            links == LinksOf(how, conditions)
            H == {k \in 1 .. n : CondMet(conditions[k].conds, r)}
<1>1. n \in Nat /\ Len(links) = n
  BY LinksOfAre
<1>2. \A k \in 1 .. n : links[k].link = conditions[k].link /\ links[k].conds = conditions[k].conds
  BY LinksOfAre DEF ConditionLink
<1>. HIDE DEF links, n
<1>3. {k \in 1 .. n : CondMet(links[k].conds, r)} = H
  BY <1>2
<1>4. Stands(links, r) <=> n = 0 \/ \E a, z \in 1 .. n : Run(links, a, z, H)
  BY <1>1, <1>3 DEF Stands
<1>5. Stands(conditions, r) <=> n = 0 \/ \E a, z \in 1 .. n : Run(conditions, a, z, H)
  BY DEF Stands, n
<1>. HIDE DEF H
<1>6. ASSUME NEW a \in 1 .. n, NEW z \in 1 .. n
      PROVE  Run(links, a, z, H) <=> Run(conditions, a, z, H)
  <2>1. z # n => z + 1 \in 1 .. n
    BY <1>1
  <2>2. \A k \in a .. z : k \in 1 .. n
    BY <1>1
  <2>3. Len(conditions) = n
    BY DEF n
  <2>. QED  BY <1>1, <1>2, <2>1, <2>2, <2>3 DEF Run
<1>. QED  BY <1>4, <1>5, <1>6 DEF links

\* The write conditions of the query are joined by AND.
LEMMA DemandLinksAnd ==
    ASSUME UpdateTypeOK
    PROVE  AllAnd(DemandLinks)
BY DemandLinksAre DEF AllAnd

\* Execute and ExecuteWithResult, where two builders number the placeholders.
LEMMA ExecuteKeeps ==
    ASSUME UpdateInv, NEW how, Execute(how)
    PROVE  UpdateInv'
<1>. DEFINE p == CompiledUpdate(how, guards)
            refused == buildErr \/ ~keyed \/ SecretDemand \/ p.clash \/ Refused(p)
            kind == IF how = "Execute" THEN "update" ELSE "updateWithResult"
<1>1. Sending(kind) /\ IF refused THEN Refuse ELSE UpdateItem(EncryptUpdate(p))
  BY DEF Execute
<1>2. /\ UpdateTypeOK /\ ExprInv /\ IsSealed(row) /\ IsSeq(guards) /\ expr.valueCounter \in Nat
  BY DEF UpdateInv, UpdatesAreSealed, IsSealed, UpdateTypeOK, IsSeq, ExprInv, BuilderOK, Numbered
<1>3. CASE refused
  <2>. HIDE DEF refused
  <2>. QED  BY <1>1, <1>3, RefusalKeeps
<1>4. CASE ~refused
  <2>1. UpdateItem(EncryptUpdate(p)) /\ ~p.clash /\ ~Refused(p)
    <3>. HIDE DEF p
    <3>. QED  BY <1>1, <1>4
  <2>2. /\ Asks(p, expr.valueCounter) /\ RawsBound(p) /\ RawsApart(p)
        /\ Demands(p, p.guard, LinksOf(how, guards), expr.valueCounter)
        /\ Demands(p, p.demand, DemandLinks, expr.valueCounter)
    BY <1>2, <2>1, CompiledByTwo
  <2>. HIDE DEF p, refused
  <2>3. Len(LinksOf(how, guards)) \in Nat /\ Len(DemandLinks) \in Nat
    BY <1>2, LinksOfAre, DemandLinksAre
  <2>4. /\ Outcome(Updated(row, Called), LinksOf(how, guards), DemandLinks)
        /\ updateResult' = "nil" => IsSealed(row')
    BY <1>2, <2>1, <2>2, <2>3, UpdateDone
  <2>5. updateResult' \in {"nil", "error", "conditionFailed"}
    BY <2>4 DEF Outcome
  <2>6. Stands(DemandLinks, row) <=> Met(DemandLinks, row)
    BY <1>2, <2>3, DemandLinksAnd, StandsOfAnd
  <2>7. OnlyAnd' => (Stands(LinksOf(how, guards), row) <=> Stands(guards, row))
    <3>1. CASE how # "Execute"
      BY <1>2, <3>1, LinksStandSame
    <3>2. CASE how = "Execute"
      <4>1. OnlyAnd' => AllAnd(guards) /\ AllAnd(LinksOf(how, guards))
        BY <1>1, <1>2, <2>5, <3>2, SendingKeeps, LinksSame
      <4>2. Len(guards) \in Nat
        BY DEF UpdateInv, UpdateTypeOK
      <4>3. Met(LinksOf(how, guards), row) <=> Met(guards, row)
        BY <1>2, LinksSame
      <4>. QED  BY <2>3, <4>1, <4>2, <4>3, StandsOfAnd
    <3>. QED  BY <3>1, <3>2
  <2>8. kind \notin {"put", "delete", "check"}
    OBVIOUS
  <2>. HIDE DEF kind
  <2>. QED  BY <1>1, <2>4, <2>6, <2>7, <2>8, WriteKeeps
<1>. QED  BY <1>3, <1>4

\* applyConditionsToUpdateBuilder: one list.
LEMMA BuilderConditionsAre ==
    ASSUME UpdateTypeOK, NEW r
    PROVE  /\ IsSeq(BuilderConditions)
           /\ Met(BuilderConditions, r) <=> Met(DemandLinks, r) /\ Met(guards, r)
           /\ (AllAnd(guards) /\ (demands # <<>> => guards = <<>> \/ guards[1].link = "AND"))
                 => AllAnd(BuilderConditions)
<1>. DEFINE d == Len(demands)
            g == Len(guards)
            all == BuilderConditions
            L == [link : {"AND", "OR"}, conds : UpdateConds]
            E == {DemandLinks[i] : i \in 1 .. d} \union L
<1>1. d \in Nat /\ g \in Nat /\ Len(DemandLinks) = d /\ (demands = <<>> <=> d = 0) /\ (guards = <<>> <=> g = 0)
  BY DemandLinksAre DEF UpdateTypeOK
<1>2. DemandLinks \in Seq(E) /\ guards \in Seq(E) /\ all = DemandLinks \o guards
  <2>1. all = DemandLinks \o guards
    BY DEF BuilderConditions, DemandLinks
  <2>2. DemandLinks = [i \in 1 .. d |-> DemandLinks[i]]
    BY DEF DemandLinks, UpdateTypeOK
  <2>3. DemandLinks \in Seq(E)
    <3>. HIDE DEF d
    <3>. QED  BY <1>1, <2>2
  <2>4. guards \in Seq(E)
    <3>1. guards \in Seq(L)
      BY DEF UpdateTypeOK
    <3>2. L \subseteq E
      OBVIOUS
    <3>. HIDE DEF L, E
    <3>. QED  BY <3>1, <3>2
  <2>. QED  BY <2>1, <2>3, <2>4
<1>. HIDE DEF E, all, d, g
<1>3. /\ all \in Seq(E) /\ Len(all) = d + g
      /\ \A i \in 1 .. d : all[i] = DemandLinks[i]
      /\ \A i \in 1 .. g : all[d + i] = guards[i]
  <2>1. all \in Seq(E) /\ Len(all) = d + g
    <3>1. all \in Seq(E)
      BY <1>2
    <3>2. Len(all) = Len(DemandLinks) + Len(guards)
      BY <1>2
    <3>. QED  BY <1>1, <3>1, <3>2 DEF g
  <2>2. \A i \in 1 .. d : all[i] = DemandLinks[i]
    BY <1>1, <1>2
  <2>3. \A i \in 1 .. g : all[d + i] = guards[i]
    <3>. TAKE i \in 1 .. g
    <3>1. d + i \in Nat /\ d < d + i /\ d + i <= d + g /\ d + i - d = i
      BY <1>1
    <3>. QED  BY <1>1, <1>2, <3>1 DEF g
  <2>. QED  BY <2>1, <2>2, <2>3
<1>4. IsSeq(all)
  BY <1>3 DEF IsSeq
<1>5. ASSUME Met(all, r)
      PROVE  Met(DemandLinks, r) /\ Met(guards, r)
  <2>1. \A i \in 1 .. d + g : Compare(r, all[i].conds.field, all[i].conds.op, all[i].conds.value)
    BY <1>3, <1>5 DEF Met
  <2>2. \A i \in 1 .. d : i \in 1 .. d + g
    BY <1>1
  <2>3. \A i \in 1 .. g : d + i \in 1 .. d + g
    BY <1>1
  <2>4. Met(DemandLinks, r)
    BY <1>1, <1>3, <2>1, <2>2 DEF Met
  <2>5. Met(guards, r)
    BY <1>3, <2>1, <2>3 DEF Met, g
  <2>. QED  BY <2>4, <2>5
<1>6. ASSUME Met(DemandLinks, r), Met(guards, r)
      PROVE  Met(all, r)
  <2>. SUFFICES ASSUME NEW i \in 1 .. d + g
                PROVE  Compare(r, all[i].conds.field, all[i].conds.op, all[i].conds.value)
    BY <1>3 DEF Met
  <2>1. CASE i <= d
    BY <1>1, <1>3, <1>6, <2>1 DEF Met
  <2>2. CASE i > d
    <3>1. i - d \in 1 .. g /\ d + (i - d) = i
      BY <1>1, <2>2
    <3>2. all[i] = guards[i - d]
      BY <1>3, <3>1
    <3>. QED  BY <1>6, <3>1, <3>2 DEF Met, g
  <2>. QED  BY <1>1, <2>1, <2>2
<1>7. ASSUME AllAnd(guards), demands # <<>> => guards = <<>> \/ guards[1].link = "AND"
      PROVE  AllAnd(all)
  <2>. SUFFICES ASSUME NEW i \in 1 .. d + g, i > 1
                PROVE  all[i].link = "AND"
    BY <1>3 DEF AllAnd
  <2>1. CASE i <= d
    BY <1>1, <1>3, <2>1, DemandLinksAre DEF d
  <2>2. CASE i > d
    <3>1. i - d \in 1 .. g /\ d + (i - d) = i
      BY <1>1, <2>2
    <3>2. all[i] = guards[i - d]
      BY <1>3, <3>1
    <3>3. i - d > 1 => guards[i - d].link = "AND"
      BY <1>7, <3>1 DEF AllAnd, g
    <3>4. i - d = 1 => guards[i - d].link = "AND"
      BY <1>1, <1>7, <3>1
    <3>. QED  BY <1>1, <3>1, <3>2, <3>3, <3>4
  <2>. QED  BY <1>1, <2>1, <2>2
<1>. QED  BY <1>4, <1>5, <1>7, <1>6 DEF all

\* UpdateWithBuilder in a transaction.
LEMMA BuilderUpdateKeeps ==
    ASSUME UpdateInv, NEW how, BuildBuilderUpdate(how)
    PROVE  UpdateInv'
<1>. DEFINE links == LinksOf(how, BuilderConditions)
            b == WithGuards(how, BuilderConditions)
            p == MergeConditionExpressions(RequestOf(b))
            refused == buildErr \/ ~keyed \/ SecretDemand \/ p.clash \/ Refused(p)
<1>1. Sending("transactUpdate") /\ IF refused THEN Refuse ELSE UpdateItem(EncryptUpdate(p))
  BY DEF BuildBuilderUpdate, MergeRawConditions, RequestOf
<1>2. /\ UpdateTypeOK /\ ExprInv /\ IsSealed(row) /\ expr.valueCounter \in Nat
  BY DEF UpdateInv, UpdatesAreSealed, IsSealed, ExprInv, BuilderOK, Numbered
<1>3. Len(links) \in Nat /\ b = AddConditions(expr, links)
  <2>1. b = AddConditions(expr, links)
    BY DEF WithGuards, LinksOf
  <2>. QED  BY <1>2, <2>1, BuilderConditionsAre, LinksOfAre
<1>4. CASE refused
  <2>. HIDE DEF refused
  <2>. QED  BY <1>1, <1>4, RefusalKeeps
<1>5. CASE ~refused
  <2>1. UpdateItem(EncryptUpdate(p)) /\ ~p.clash /\ ~Refused(p)
    <3>. HIDE DEF p
    <3>. QED  BY <1>1, <1>5
  <2>2. /\ Asks(p, expr.valueCounter) /\ RawsBound(p) /\ RawsApart(p)
        /\ Demands(p, p.guard, links, expr.valueCounter) /\ Demands(p, p.demand, <<>>, expr.valueCounter)
    <3>. HIDE DEF links, b
    <3>. QED  BY <1>2, <1>3, <2>1, CompiledByOne
  <2>. HIDE DEF p, refused, b
  <2>3. /\ Outcome(Updated(row, Called), links, <<>>) /\ Len(<<>>) \in Nat
        /\ updateResult' = "nil" => IsSealed(row')
    <3>1. Len(<<>>) \in Nat
      OBVIOUS
    <3>. HIDE DEF links
    <3>. QED  BY <1>2, <1>3, <2>1, <2>2, <3>1, UpdateDone
  <2>4. updateResult' \in {"nil", "error", "conditionFailed"}
    BY <2>3 DEF Outcome
  <2>5. OnlyAnd' => AllAnd(BuilderConditions)
    BY <1>1, <1>2, <2>4, SendingKeeps, BuilderConditionsAre
  <2>6. /\ AllAnd(BuilderConditions) => AllAnd(links)
        /\ Met(links, row) <=> Met(BuilderConditions, row)
    BY <1>2, BuilderConditionsAre, LinksSame
  <2>7. Met(BuilderConditions, row) <=> Met(DemandLinks, row) /\ Met(guards, row)
    BY <1>2, BuilderConditionsAre
  <2>8. Stands(<<>>, row)
    BY NothingStands
  <2>9. OnlyAnd' => AllAnd(guards)
    BY <1>1, <1>2, <2>4, SendingKeeps
  <2>10. OnlyAnd' => (Stands(links, row) <=> Met(DemandLinks, row) /\ Stands(guards, row))
    <3>1. Len(guards) \in Nat
      BY DEF UpdateInv, UpdateTypeOK
    <3>. HIDE DEF links
    <3>. QED  BY <1>3, <2>5, <2>6, <2>7, <2>9, <3>1, StandsOfAnd
  <2>. HIDE DEF links
  <2>. QED  BY <1>1, <2>3, <2>8, <2>10, WriteKeeps
<1>. QED  BY <1>4, <1>5

\* Update of some fields in a transaction.
LEMMA FieldUpdateKeeps ==
    ASSUME UpdateInv, BuildFieldUpdate
    PROVE  UpdateInv'
<1>. DEFINE b == AddConditions(expr, DemandLinks)
            p == MergeConditionExpressions(RequestOf(b))
            refused == ~keyed \/ p.clash \/ Refused(p)
<1>1. /\ Sending("update") /\ guards = <<>>
      /\ IF refused THEN Refuse ELSE UpdateItem(EncryptUpdate(p))
  BY DEF BuildFieldUpdate, Conditioned, Demanding, DemandLinks, MergeRawConditions, RequestOf
<1>2. /\ UpdateTypeOK /\ ExprInv /\ IsSealed(row) /\ expr.valueCounter \in Nat
  BY DEF UpdateInv, UpdatesAreSealed, IsSealed, ExprInv, BuilderOK, Numbered
<1>3. Len(DemandLinks) \in Nat /\ Len(<<>>) \in Nat /\ AllAnd(DemandLinks)
  BY <1>2, DemandLinksAre, DemandLinksAnd
<1>4. CASE refused
  <2>. HIDE DEF refused
  <2>. QED  BY <1>1, <1>4, RefusalKeeps
<1>5. CASE ~refused
  <2>1. UpdateItem(EncryptUpdate(p)) /\ ~p.clash /\ ~Refused(p)
    <3>. HIDE DEF p
    <3>. QED  BY <1>1, <1>5
  <2>2. /\ Asks(p, expr.valueCounter) /\ RawsBound(p) /\ RawsApart(p)
        /\ Demands(p, p.guard, DemandLinks, expr.valueCounter)
        /\ Demands(p, p.demand, <<>>, expr.valueCounter)
    <3>. HIDE DEF b
    <3>. QED  BY <1>2, <1>3, <2>1, CompiledByOne DEF b
  <2>. HIDE DEF p, refused, b
  <2>3. /\ Outcome(Updated(row, Called), DemandLinks, <<>>)
        /\ updateResult' = "nil" => IsSealed(row')
    BY <1>2, <1>3, <2>1, <2>2, UpdateDone
  <2>4. Stands(guards, row) /\ Stands(<<>>, row)
    BY <1>1, NothingStands
  <2>5. Stands(DemandLinks, row) <=> Met(DemandLinks, row)
    BY <1>3, StandsOfAnd
  <2>. QED  BY <1>1, <2>3, <2>4, <2>5, WriteKeeps
<1>. QED  BY <1>4, <1>5

\* The item of a put.
LEMMA PutSealed ==
    ASSUME UpdateTypeOK, Struct
    PROVE  IsSealed(PutItemOf)
<1>. SUFFICES ASSUME NEW f \in Sealed, f \in DOMAIN PutItemOf
              PROVE  PutItemOf[f] > SealBase
  BY DEF IsSealed
<1>. DEFINE w == CHOOSE i \in DOMAIN changes : changes[i].field = f
<1>1. \E i \in DOMAIN changes : changes[i].field = f
  BY DEF PutItemOf
<1>2. w \in DOMAIN changes /\ changes[w].field = f
  BY <1>1
<1>3. PutItemOf[f] = Seal(changes[w].value)
  BY DEF PutItemOf
<1>. HIDE DEF w
<1>4. changes[w] \in UpdateCalls /\ changes[w].form = "set"
  BY <1>2 DEF UpdateTypeOK, Struct
<1>5. changes[w].value \in Nat \ {0}
  BY <1>2, <1>4, UpdateAssumption
<1>. QED  BY <1>3, <1>5 DEF Seal, SealBase

\* BuildPut, BuildDelete and BuildConditionCheck.
LEMMA PlainKeeps ==
    ASSUME UpdateInv, BuildPut \/ BuildDelete \/ BuildConditionCheck
    PROVE  UpdateInv'
<1>. DEFINE p == Conditioned(NewBuilder)
<1>1. UpdateTypeOK /\ IsSealed(row)
  BY DEF UpdateInv, UpdatesAreSealed, IsSealed
<1>2. PICK kind \in {"put", "delete", "check"} :
        /\ Sending(kind) /\ guards = <<>>
        /\ Refuse \/ (~p.clash /\ Write(p, IF kind = "put" THEN PutItemOf ELSE IF kind = "delete" THEN Empty ELSE row))
        /\ kind = "put" => Struct
  <2>. HIDE DEF p
  <2>1. CASE BuildPut
    BY <2>1 DEF BuildPut, p
  <2>2. CASE BuildDelete
    BY <2>2 DEF BuildDelete, p
  <2>3. CASE BuildConditionCheck
    BY <2>3 DEF BuildConditionCheck, p
  <2>. QED  BY <2>1, <2>2, <2>3
<1>. DEFINE m == IF kind = "put" THEN PutItemOf ELSE IF kind = "delete" THEN Empty ELSE row
<1>3. CASE Refuse
  BY <1>2, <1>3, RefusalKeeps
<1>4. CASE ~p.clash /\ Write(p, m)
  <2>1. RawsBound(p) /\ Demands(p, p.guard, DemandLinks, 0) /\ Demands(p, p.demand, <<>>, 0)
    BY <1>1, <1>4, CompiledPlain
  <2>2. Len(DemandLinks) \in Nat /\ Len(<<>>) \in Nat /\ 0 \in Nat /\ AllAnd(DemandLinks)
    BY <1>1, DemandLinksAre, DemandLinksAnd
  <2>3. /\ kind = "put" => m = PutItemOf /\ Struct
        /\ kind = "delete" => m = Empty
        /\ kind = "check" => m = row
    BY <1>2
  <2>. HIDE DEF p, m
  <2>4. Outcome(m, DemandLinks, <<>>)
    BY <1>1, <1>4, <2>1, <2>2, Written
  <2>5. IsSealed(Empty)
    BY DEF IsSealed, Empty
  <2>6. IsSealed(m)
    BY <1>1, <1>2, <2>3, <2>5, PutSealed
  <2>7. updateResult' = "nil" => IsSealed(row')
    BY <2>4, <2>6 DEF Outcome
  <2>8. Stands(guards, row) /\ Stands(<<>>, row)
    BY <1>2, NothingStands
  <2>9. Stands(DemandLinks, row) <=> Met(DemandLinks, row)
    BY <2>2, StandsOfAnd
  <2>. QED  BY <1>2, <2>3, <2>4, <2>7, <2>8, <2>9, WriteKeeps
<1>. QED  BY <1>2, <1>3, <1>4

\* Nothing has been asked and nothing written.
LEMMA UpdateInvInit == UpdateInit => UpdateInv
<1>. SUFFICES ASSUME UpdateInit
              PROVE  UpdateInv
  OBVIOUS
<1>1. UpdateTypeOK
  <2>. DEFINE L == [link : {"AND", "OR"}, conds : UpdateConds]
  <2>1. /\ changes = <<>> /\ demands = <<>> /\ raws = <<>> /\ guards = <<>> /\ updateResult = "building"
        /\ given = <<>>
    BY DEF UpdateInit
  <2>2. guards \in Seq(L)
    <3>. HIDE DEF L
    <3>. QED  BY <2>1
  <2>3. changes \in Seq(UpdateCalls) /\ demands \in Seq(WriteConds) /\ raws \in Seq(RawConds)
    BY <2>1
  <2>4. GivenOK
    <3>1. queryErr = FALSE
      BY DEF UpdateInit
    <3>2. queryErr \in BOOLEAN
      BY <3>1
    <3>. QED  BY <2>1, <2>3, <3>2 DEF GivenOK
  <2>. QED  BY <2>1, <2>2, <2>3, <2>4 DEF UpdateTypeOK
<1>2. ExprInv
  <2>1. DoesAll(NewBuilder, <<>>)
    BY DEF DoesAll, NewBuilder
  <2>2. NewBuilder.condition = <<>>
    BY DEF NewBuilder
  <2>. QED  BY <2>1, <2>2, NewBuilderOK DEF UpdateInit, ExprInv
<1>3. UpdatesAreSealed
  BY UpdateAssumption DEF UpdateInit, UpdatesAreSealed
<1>4. UpdateMeansItsCalls
  BY DEF UpdateInit, UpdateMeansItsCalls
<1>. QED  BY <1>1, <1>2, <1>3, <1>4 DEF UpdateInv

\* Every step keeps the invariant.
LEMMA UpdateInvStep == UpdateInv /\ [UpdateNext]_updateVars => UpdateInv'
<1>. SUFFICES ASSUME UpdateInv, [UpdateNext]_updateVars
              PROVE  UpdateInv'
  OBVIOUS
<1>1. CASE UNCHANGED updateVars
  <2>1. /\ row' = row /\ before' = before /\ expr' = expr /\ changes' = changes /\ guards' = guards
        /\ demands' = demands /\ raws' = raws /\ wrote' = wrote /\ updateResult' = updateResult
        /\ given' = given /\ queryErr' = queryErr
    BY <1>1 DEF updateVars
  <2>2. UpdateTypeOK' /\ ExprInv' /\ UpdatesAreSealed'
    BY <2>1 DEF UpdateInv, UpdateTypeOK, GivenOK, ExprInv, UpdatesAreSealed
  <2>3. GuardsHold(before)' = GuardsHold(before) /\ Meant(before)' = Meant(before) /\ OnlyAnd' = OnlyAnd
    BY <2>1 DEF GuardsHold, Joined, Meant, PutItemOf, Called, OnlyAnd
  <2>4. UpdateMeansItsCalls'
    BY <2>1, <2>3 DEF UpdateInv, UpdateMeansItsCalls, Heard
  <2>. QED  BY <2>2, <2>4 DEF UpdateInv
<1>2. CASE \E u \in UpdateCalls : Change(u)
  BY <1>2, ChangeKeeps
<1>3. CASE \/ \E logicOp \in {"AND", "OR"}, c \in UpdateConds : Condition(logicOp, c)
           \/ \E c \in WriteConds : WithCondition(c) \/ TransactCondition(c)
           \/ \E raw \in RawConds : WithConditionExpression(raw)
  BY <1>3, BuildingKeeps
<1>4. CASE \E how \in {"Execute", "ExecuteWithResult"} : Execute(how) \/ BuildBuilderUpdate(how)
  BY <1>4, ExecuteKeeps, BuilderUpdateKeeps
<1>5. CASE BuildPut \/ BuildDelete \/ BuildConditionCheck
  BY <1>5, PlainKeeps
<1>6. CASE BuildFieldUpdate
  BY <1>6, FieldUpdateKeeps
<1>. QED  BY <1>1, <1>2, <1>3, <1>4, <1>5, <1>6 DEF UpdateNext

\* update_builder.go and transaction/builder.go: whatever calls and conditions a caller
\* gives, in any number, a write that succeeds has done each call with its own value to its
\* own field, and any other write changes nothing.  It succeeds just if its conditions
\* hold, where they are joined by AND, or by AND and OR in ExecuteWithResult, and the query
\* has not left one out for its encrypted field.
THEOREM UpdatesMeanTheirCalls == UpdateSpec => []UpdateMeansItsCalls
<1>1. UpdateInv => UpdateMeansItsCalls
  BY DEF UpdateInv
<1>. QED  BY <1>1, UpdateInvInit, UpdateInvStep, PTL DEF UpdateSpec

\* encryption/update_expression.go: no update of any form writes the plain value of an
\* encrypted field.
THEOREM UpdatesStaySealed == UpdateSpec => []UpdatesAreSealed
<1>1. UpdateInv => UpdatesAreSealed
  BY DEF UpdateInv
<1>. QED  BY <1>1, UpdateInvInit, UpdateInvStep, PTL DEF UpdateSpec

-----------------------------------------------------------------------------
(* Queries: key conditions and filters.                                    *)

\* AddKeyCondition: as ConditionAdded.
LEMMA KeyAdded ==
    ASSUME NEW b, BuilderOK(b), NEW c, NEW d, d = AddKeyCondition(b, c)
    PROVE  /\ BuilderOK(d) /\ Extends(d, b) /\ d.filter = b.filter
           /\ d.key = Append(b.key, BuildCondition(b, c))
           /\ Refers(d, BuildCondition(b, c), c, b.valueCounter)
<1>. DEFINE r == Referring(b, c)
            e == BuildCondition(b, c)
<1>1. /\ BuilderOK(r) /\ Extends(r, b) /\ r.key = b.key /\ r.filter = b.filter
      /\ Refers(r, e, c, b.valueCounter)
  BY ReferringIs
<1>. HIDE DEF r, e
<1>2. d = [r EXCEPT !.key = Append(r.key, e)]
  BY DEF AddKeyCondition, r, e
<1>3. d = [names |-> r.names, values |-> r.values, key |-> Append(r.key, e), filter |-> r.filter,
           condition |-> r.condition, update |-> r.update,
           nameCounter |-> r.nameCounter, valueCounter |-> r.valueCounter]
  BY <1>1, <1>2 DEF BuilderOK, IsBuilder
<1>4. IsSeq(Append(r.key, e))
  BY <1>1, AppendIs DEF BuilderOK, IsBuilder
<1>5. BuilderOK(d)
  BY <1>1, <1>3, <1>4 DEF BuilderOK, IsBuilder, Numbered
<1>6. d.names = r.names /\ d.values = r.values
  BY <1>3
<1>7. Extends(d, b) /\ Extends(d, r)
  BY <1>1, <1>6 DEF Extends
<1>8. Refers(d, e, c, b.valueCounter)
  BY <1>1, <1>7, ReferenceStays
<1>9. d.key = Append(b.key, e) /\ d.filter = b.filter
  BY <1>1, <1>3
<1>. QED  BY <1>5, <1>7, <1>8, <1>9 DEF e

\* AddFilterCondition: as ConditionAdded.
LEMMA FilterAdded ==
    ASSUME NEW b, BuilderOK(b), NEW link, NEW c, NEW d, d = AddFilterCondition(b, link, c)
    PROVE  /\ BuilderOK(d) /\ Extends(d, b) /\ d.key = b.key
           /\ d.filter = Append(b.filter, Link(link, <<Link("AND", BuildCondition(b, c))>>))
           /\ Refers(d, BuildCondition(b, c), c, b.valueCounter)
<1>. DEFINE r == Referring(b, c)
            e == BuildCondition(b, c)
            entry == Link(link, <<Link("AND", e)>>)
<1>1. /\ BuilderOK(r) /\ Extends(r, b) /\ r.key = b.key /\ r.filter = b.filter
      /\ Refers(r, e, c, b.valueCounter)
  BY ReferringIs
<1>. HIDE DEF r, e
<1>2. d = [r EXCEPT !.filter = Append(r.filter, entry)]
  BY DEF AddFilterCondition, r, e
<1>. HIDE DEF entry
<1>3. d = [names |-> r.names, values |-> r.values, key |-> r.key, filter |-> Append(r.filter, entry),
           condition |-> r.condition, update |-> r.update,
           nameCounter |-> r.nameCounter, valueCounter |-> r.valueCounter]
  BY <1>1, <1>2 DEF BuilderOK, IsBuilder
<1>4. IsSeq(Append(r.filter, entry))
  BY <1>1, AppendIs DEF BuilderOK, IsBuilder
<1>5. BuilderOK(d)
  BY <1>1, <1>3, <1>4 DEF BuilderOK, IsBuilder, Numbered
<1>6. d.names = r.names /\ d.values = r.values
  BY <1>3
<1>7. Extends(d, b) /\ Extends(d, r)
  BY <1>1, <1>6 DEF Extends
<1>8. Refers(d, e, c, b.valueCounter)
  BY <1>1, <1>7, ReferenceStays
<1>9. d.filter = Append(b.filter, entry) /\ d.key = b.key
  BY <1>1, <1>3
<1>. QED  BY <1>5, <1>7, <1>8, <1>9 DEF e, entry

\* The builders after 0, 1, ... n conditions of the query.
Parted(g, part, b, keys, n) ==
    g = [k \in 0 .. n |-> IF k = 0 THEN b ELSE AddTo(part, g[k - 1], where[k], keys)]

\* One more condition can be put into its part.
LEMMA PartedLonger ==
    ASSUME NEW n \in Nat, NEW part, NEW b, NEW keys, NEW g, Parted(g, part, b, keys, n)
    PROVE  \E h : Parted(h, part, b, keys, n + 1)
<1>. DEFINE last == AddTo(part, g[n], where[n + 1], keys)
            h == [k \in 0 .. n + 1 |-> IF k = n + 1 THEN last ELSE g[k]]
<1>1. \A k \in 0 .. n : g[k] = IF k = 0 THEN b ELSE AddTo(part, g[k - 1], where[k], keys)
  BY DEF Parted
<1>2. \A k \in 0 .. n + 1 : h[k] = IF k = 0 THEN b ELSE AddTo(part, h[k - 1], where[k], keys)
  <2>. TAKE k \in 0 .. n + 1
  <2>1. CASE k = n + 1
    <3>1. k # 0 /\ k - 1 = n /\ n \in 0 .. n + 1 /\ n # n + 1
      BY <2>1
    <3>2. h[k - 1] = g[n]
      BY <3>1
    <3>3. h[k] = last
      BY <2>1
    <3>. QED  BY <2>1, <3>1, <3>2, <3>3
  <2>2. CASE k # n + 1
    <3>1. k \in 0 .. n /\ h[k] = g[k]
      BY <2>2
    <3>2. k # 0 => k - 1 \in 0 .. n + 1 /\ k - 1 # n + 1
      BY <3>1
    <3>3. k # 0 => h[k - 1] = g[k - 1]
      BY <3>2
    <3>. HIDE DEF h
    <3>. QED  BY <1>1, <3>1, <3>3
  <2>. QED  BY <2>1, <2>2
<1>3. h = [k \in 0 .. n + 1 |-> h[k]]
  OBVIOUS
<1>4. Parted(h, part, b, keys, n + 1)
  <2>. HIDE DEF h
  <2>. QED  BY <1>2, <1>3 DEF Parted
<1>. QED  BY <1>4

\* AddPart goes through the conditions one after the other.
LEMMA PartOneByOne ==
    ASSUME NEW part, NEW b, NEW keys, Len(where) \in Nat
    PROVE  \E g : /\ AddPart(part, b, keys) = g[Len(where)] /\ g[0] = b
                  /\ \A n \in Nat : n + 1 <= Len(where) => g[n + 1] = AddTo(part, g[n], where[n + 1], keys)
<1>. DEFINE T == {n \in Nat : \E g : Parted(g, part, b, keys, n)}
            L == Len(where)
<1>1. 0 \in T
  <2>. DEFINE g == [k \in 0 .. 0 |-> b]
  <2>1. Parted(g, part, b, keys, 0)
    BY DEF Parted
  <2>. QED  BY <2>1
<1>2. \A n \in Nat : n \in T => n + 1 \in T
  BY PartedLonger
<1>3. Nat \subseteq T
  <2>. HIDE DEF T
  <2>. QED  BY <1>1, <1>2, CountUp
<1>4. \E g : Parted(g, part, b, keys, Len(where))
  BY <1>3
<1>. DEFINE h == CHOOSE g : Parted(g, part, b, keys, Len(where))
<1>5. Parted(h, part, b, keys, Len(where))
  BY <1>4
<1>6. AddPart(part, b, keys) = h[Len(where)]
  BY DEF AddPart, Parted
<1>. HIDE DEF h
<1>7. \A k \in 0 .. L : h[k] = IF k = 0 THEN b ELSE AddTo(part, h[k - 1], where[k], keys)
  BY <1>5 DEF Parted
<1>8. h[0] = b
  BY <1>7
<1>9. \A n \in Nat : n + 1 <= L => h[n + 1] = AddTo(part, h[n], where[n + 1], keys)
  <2>. TAKE n \in Nat
  <2>. HAVE n + 1 <= L
  <2>1. n + 1 \in 0 .. L /\ n + 1 # 0 /\ n + 1 - 1 = n
    OBVIOUS
  <2>. QED  BY <1>7, <2>1
<1>. QED  BY <1>6, <1>8, <1>9

-----------------------------------------------------------------------------
(* What the entries of a query mean.                                       *)

\* The entry x of a filter is the condition c, linked to what is before it.
FilterSays(b, x, link, c) == \E e : x = Link(link, <<Link("AND", e)>>) /\ Refers(b, e, c, 0)

\* A filter keeps its meaning in a builder that says more.
LEMMA FilterSaysStill ==
    ASSUME NEW b, NEW d, Extends(d, b), NEW x, NEW link, NEW c, FilterSays(b, x, link, c)
    PROVE  FilterSays(d, x, link, c)
<1>1. PICK e : x = Link(link, <<Link("AND", e)>>) /\ Refers(b, e, c, 0)
  BY Zenon DEF FilterSays
<1>2. Refers(d, e, c, 0)
  BY <1>1, ReferenceStays
<1>. QED  BY <1>1, <1>2, Zenon DEF FilterSays

\* A group of one condition.
LEMMA OneMet ==
    ASSUME NEW c, NEW r
    PROVE  GroupMet(<<Link("AND", c)>>, r) <=> Meets(r, c)
<1>. DEFINE one == <<Link("AND", c)>>
<1>1. DOMAIN one = {1} /\ Len(one) = 1 /\ one[1].conds = c /\ one[1].link = "AND"
  BY DEF Link
<1>. HIDE DEF one
<1>2. GroupMet(one, r) <=>
        \E a, z \in DOMAIN one :
            /\ a <= z
            /\ a = 1 \/ one[a].link = "OR"
            /\ z = Len(one) \/ one[z + 1].link = "OR"
            /\ \A k \in a .. z : Meets(r, one[k].conds) /\ (k > a => one[k].link = "AND")
  BY DEF GroupMet, Joined
<1>3. 1 .. 1 = {1}
  OBVIOUS
<1>. QED  BY <1>1, <1>2, <1>3 DEF one

\* A filter holds just if its condition does.
LEMMA EntryHolds ==
    ASSUME NEW b, NEW x, NEW link, NEW c, FilterSays(b, x, link, c), NEW r
    PROVE  x.link = link /\ (GroupHolds(b, x.conds, r) <=> Meets(r, c))
<1>1. PICK e : x = Link(link, <<Link("AND", e)>>) /\ Refers(b, e, c, 0)
  BY Zenon DEF FilterSays
<1>2. x.link = link /\ x.conds = <<Link("AND", e)>>
  BY <1>1 DEF Link
<1>3. GroupHolds(b, x.conds, r) <=> CondHolds(b, e, r)
  BY <1>2, OneHolds
<1>4. CondHolds(b, e, r) <=> Meets(r, c)
  BY <1>1, ReferenceHolds
<1>. QED  BY <1>2, <1>3, <1>4

\* Joined, for the positions H of a list that hold.
RunHolds(list, H) ==
    \E a, z \in DOMAIN list :
        /\ a <= z
        /\ a = 1 \/ list[a].link = "OR"
        /\ z = Len(list) \/ list[z + 1].link = "OR"
        /\ \A k \in a .. z : k \in H /\ (k > a => list[k].link = "AND")

\* A filter expression in terms of the set of entries that hold.
LEMMA RunsOfFilter ==
    ASSUME NEW b, NEW list, IsSeq(list), NEW r
    PROVE  LinksHold(b, list, r) <=>
             list = <<>> \/ RunHolds(list, {k \in DOMAIN list : GroupHolds(b, list[k].conds, r)})
<1>1. Len(list) \in Nat /\ DOMAIN list = 1 .. Len(list)
  BY AppendIs
<1>2. \A a, z \in DOMAIN list : \A k \in a .. z : k \in DOMAIN list
  BY <1>1
<1>. QED  BY <1>2 DEF LinksHold, Joined, RunHolds

\* What was asked for in the same terms.
LEMMA RunsOfAsked ==
    ASSUME NEW list, IsSeq(list), NEW r
    PROVE  Joined(list, LAMBDA group : GroupMet(group, r)) <=>
             RunHolds(list, {k \in DOMAIN list : GroupMet(list[k].conds, r)})
<1>1. Len(list) \in Nat /\ DOMAIN list = 1 .. Len(list)
  BY AppendIs
<1>2. \A a, z \in DOMAIN list : \A k \in a .. z : k \in DOMAIN list
  BY <1>1
<1>. QED  BY <1>2 DEF Joined, RunHolds

\* Joined by AND, all hold.
LEMMA RunsOfAnd ==
    ASSUME NEW list, IsSeq(list), list # <<>>, \A k \in DOMAIN list : list[k].link = "AND", NEW H
    PROVE  RunHolds(list, H) <=> \A k \in DOMAIN list : k \in H
<1>. DEFINE n == Len(list)
<1>1. n \in Nat /\ DOMAIN list = 1 .. n
  BY AppendIs
<1>2. n # 0
  <2>1. PICK E : list \in Seq(E)
    BY DEF IsSeq
  <2>. QED  BY <2>1
<1>3. ASSUME RunHolds(list, H)
      PROVE  \A k \in DOMAIN list : k \in H
  <2>1. PICK a, z \in DOMAIN list :
            /\ a <= z
            /\ a = 1 \/ list[a].link = "OR"
            /\ z = Len(list) \/ list[z + 1].link = "OR"
            /\ \A k \in a .. z : k \in H
    BY <1>3 DEF RunHolds
  <2>2. a = 1
    BY <2>1
  <2>3. z = n
    BY <1>1, <2>1
  <2>. QED  BY <1>1, <2>1, <2>2, <2>3
<1>4. ASSUME \A k \in DOMAIN list : k \in H
      PROVE  RunHolds(list, H)
  <2>1. 1 \in DOMAIN list /\ n \in DOMAIN list /\ 1 <= n
    BY <1>1, <1>2
  <2>2. \A k \in 1 .. n : k \in H /\ (k > 1 => list[k].link = "AND")
    BY <1>1, <1>4
  <2>. QED  BY <2>1, <2>2 DEF RunHolds
<1>. QED  BY <1>3, <1>4

\* Whether a run holds depends on the operators and on which entries hold.
LEMMA SameRun ==
    ASSUME NEW s, NEW t, IsSeq(s), IsSeq(t), Len(s) = Len(t), \A k \in DOMAIN s : s[k].link = t[k].link,
           NEW H, RunHolds(s, H)
    PROVE  RunHolds(t, H)
<1>1. Len(s) \in Nat /\ DOMAIN s = 1 .. Len(s) /\ DOMAIN t = DOMAIN s
  BY AppendIs
<1>2. PICK a, z \in DOMAIN s :
          /\ a <= z
          /\ a = 1 \/ s[a].link = "OR"
          /\ z = Len(s) \/ s[z + 1].link = "OR"
          /\ \A k \in a .. z : k \in H /\ (k > a => s[k].link = "AND")
  BY DEF RunHolds
<1>3. a \in DOMAIN t /\ z \in DOMAIN t /\ (a = 1 \/ t[a].link = "OR")
  BY <1>1, <1>2
<1>4. z = Len(t) \/ t[z + 1].link = "OR"
  <2>1. z # Len(s) => z + 1 \in DOMAIN s
    BY <1>1
  <2>. QED  BY <1>2, <2>1
<1>5. \A k \in a .. z : k \in H /\ (k > a => t[k].link = "AND")
  <2>1. \A k \in a .. z : k \in DOMAIN s
    BY <1>1
  <2>. QED  BY <1>2, <2>1
<1>. QED  BY <1>2, <1>3, <1>4, <1>5 DEF RunHolds

\* ... in both directions.
LEMMA SameRuns ==
    ASSUME NEW s, NEW t, IsSeq(s), IsSeq(t), Len(s) = Len(t), \A k \in DOMAIN s : s[k].link = t[k].link, NEW H
    PROVE  RunHolds(s, H) <=> RunHolds(t, H)
<1>1. DOMAIN s = DOMAIN t
  BY AppendIs
<1>. QED  BY <1>1, SameRun

-----------------------------------------------------------------------------
(* Compiling a query: key conditions and filters.                          *)

\* d is b with the first n conditions that are in keys as key conditions.
KeysIn(d, b, keys, n) ==
    /\ BuilderOK(d) /\ Extends(d, b) /\ d.filter = b.filter
    /\ \A k \in DOMAIN d.key : \E i \in 1 .. n : where[i] \in keys /\ Refers(d, d.key[k], where[i], 0)
    /\ \A i \in 1 .. n : where[i] \in keys => \E k \in DOMAIN d.key : Refers(d, d.key[k], where[i], 0)

\* One more condition, which is a key condition or is not.
LEMMA OneMoreKey ==
    ASSUME NEW n \in Nat, NEW b, BuilderOK(b), NEW keys, NEW c, KeysIn(c, b, keys, n),
           NEW d, d = AddTo("key", c, where[n + 1], keys)
    PROVE  KeysIn(d, b, keys, n + 1)
<1>. DEFINE w == where[n + 1]
            e == BuildCondition(c, w)
<1>1. BuilderOK(c) /\ Extends(c, b) /\ c.filter = b.filter
  BY DEF KeysIn
<1>2. CASE w \notin keys
  <2>1. d = c
    BY <1>2 DEF AddTo
  <2>2. \A i \in 1 .. n + 1 : where[i] \in keys => i \in 1 .. n
    BY <1>2
  <2>3. \A i \in 1 .. n : i \in 1 .. n + 1
    OBVIOUS
  <2>. QED  BY <2>1, <2>2, <2>3 DEF KeysIn
<1>3. CASE w \in keys
  <2>1. d = AddKeyCondition(c, w)
    BY <1>3 DEF AddTo
  <2>2. Refers(d, e, w, c.valueCounter) /\ d.key = Append(c.key, e)
    BY <1>1, <2>1, KeyAdded
  <2>3. BuilderOK(d) /\ Extends(d, c) /\ d.filter = c.filter
    BY <1>1, <2>1, <2>2, KeyAdded
  <2>4. Extends(d, b)
    BY <1>1, <2>3, ExtendsFurther
  <2>. HIDE DEF e
  <2>5. /\ DOMAIN d.key = 1 .. Len(c.key) + 1 /\ d.key[Len(c.key) + 1] = e /\ DOMAIN c.key = 1 .. Len(c.key)
        /\ \A k \in DOMAIN c.key : d.key[k] = c.key[k]
        /\ Len(c.key) \in Nat
    <3>1. IsSeq(c.key)
      BY <1>1 DEF BuilderOK, IsBuilder
    <3>. QED  BY <2>2, <3>1, AppendIs
  <2>6. Refers(d, e, w, 0)
    <3>1. c.valueCounter \in Nat
      BY <1>1 DEF BuilderOK, Numbered
    <3>. QED  BY <2>2, <3>1, LowerReference
  <2>. HIDE DEF w
  <2>7. \A k \in DOMAIN d.key : \E i \in 1 .. n + 1 : where[i] \in keys /\ Refers(d, d.key[k], where[i], 0)
    <3>. TAKE k \in DOMAIN d.key
    <3>1. CASE k = Len(c.key) + 1
      <4>1. n + 1 \in 1 .. n + 1
        OBVIOUS
      <4>. QED  BY <1>3, <2>5, <2>6, <3>1, <4>1 DEF w
    <3>2. CASE k # Len(c.key) + 1
      <4>1. k \in DOMAIN c.key
        BY <2>5, <3>2
      <4>2. PICK i \in 1 .. n : where[i] \in keys /\ Refers(c, c.key[k], where[i], 0)
        BY <4>1 DEF KeysIn
      <4>3. Refers(d, d.key[k], where[i], 0)
        BY <2>3, <2>5, <4>1, <4>2, ReferenceStays
      <4>4. i \in 1 .. n + 1
        OBVIOUS
      <4>. QED  BY <4>2, <4>3, <4>4
    <3>. QED  BY <3>1, <3>2
  <2>8. \A i \in 1 .. n + 1 : where[i] \in keys => \E k \in DOMAIN d.key : Refers(d, d.key[k], where[i], 0)
    <3>. TAKE i \in 1 .. n + 1
    <3>. HAVE where[i] \in keys
    <3>1. CASE i = n + 1
      <4>1. Len(c.key) + 1 \in DOMAIN d.key
        BY <2>5
      <4>. QED  BY <2>5, <2>6, <3>1, <4>1 DEF w
    <3>2. CASE i # n + 1
      <4>1. i \in 1 .. n
        BY <3>2
      <4>2. PICK k \in DOMAIN c.key : Refers(c, c.key[k], where[i], 0)
        BY <4>1 DEF KeysIn
      <4>3. Refers(d, d.key[k], where[i], 0) /\ k \in DOMAIN d.key
        BY <2>3, <2>5, <4>2, ReferenceStays
      <4>. QED  BY <4>3
    <3>. QED  BY <3>1, <3>2
  <2>. QED  BY <1>1, <2>3, <2>4, <2>7, <2>8 DEF KeysIn
<1>. QED  BY <1>2, <1>3

\* The first pass over the conditions adds the key conditions and nothing else.
LEMMA KeysAdded ==
    ASSUME NEW b, BuilderOK(b), b.key = <<>>, NEW keys, Len(where) \in Nat
    PROVE  KeysIn(AddPart("key", b, keys), b, keys, Len(where))
<1>1. PICK g : /\ AddPart("key", b, keys) = g[Len(where)] /\ g[0] = b
               /\ \A n \in Nat : n + 1 <= Len(where) => g[n + 1] = AddTo("key", g[n], where[n + 1], keys)
  BY PartOneByOne
<1>. DEFINE T == {n \in Nat : n <= Len(where) => KeysIn(g[n], b, keys, n)}
<1>2. 0 \in T
  <2>1. Extends(b, b)
    BY DEF Extends, BuilderOK, Numbered
  <2>2. KeysIn(b, b, keys, 0)
    BY <2>1 DEF KeysIn
  <2>. QED  BY <1>1, <2>2
<1>3. \A n \in Nat : n \in T => n + 1 \in T
  <2>. SUFFICES ASSUME NEW n \in Nat, n \in T, n + 1 <= Len(where)
                PROVE  KeysIn(g[n + 1], b, keys, n + 1)
    OBVIOUS
  <2>1. KeysIn(g[n], b, keys, n)
    OBVIOUS
  <2>2. g[n + 1] = AddTo("key", g[n], where[n + 1], keys)
    BY <1>1
  <2>. QED  BY <2>1, <2>2, OneMoreKey
<1>4. Nat \subseteq T
  <2>. HIDE DEF T
  <2>. QED  BY <1>2, <1>3, CountUp
<1>. QED  BY <1>1, <1>4

\* d is b with the first n conditions that are not in keys as filters.
FiltersIn(d, b, keys, n) ==
    /\ BuilderOK(d) /\ Extends(d, b) /\ d.key = b.key /\ Len(d.filter) >= Len(b.filter)
    /\ \A k \in 1 .. Len(b.filter) : d.filter[k] = b.filter[k]
    /\ \A k \in Len(b.filter) + 1 .. Len(d.filter) :
          \E i \in 1 .. n : where[i] \notin keys /\ FilterSays(d, d.filter[k], "AND", where[i])
    /\ \A i \in 1 .. n : where[i] \notin keys =>
          \E k \in Len(b.filter) + 1 .. Len(d.filter) : FilterSays(d, d.filter[k], "AND", where[i])

\* One more condition, which is a filter or is not.
LEMMA OneMoreFilter ==
    ASSUME NEW n \in Nat, NEW b, BuilderOK(b), NEW keys, NEW c, FiltersIn(c, b, keys, n),
           NEW d, d = AddTo("filter", c, where[n + 1], keys)
    PROVE  FiltersIn(d, b, keys, n + 1)
<1>. DEFINE w == where[n + 1]
            e == BuildCondition(c, w)
            x == Link("AND", <<Link("AND", e)>>)
            m == Len(b.filter)
            l == Len(c.filter)
<1>1. /\ BuilderOK(c) /\ Extends(c, b) /\ c.key = b.key /\ l >= m
      /\ \A k \in 1 .. m : c.filter[k] = b.filter[k]
  BY DEF FiltersIn
<1>2. CASE w \in keys
  <2>1. d = c
    BY <1>2 DEF AddTo
  <2>2. \A i \in 1 .. n + 1 : where[i] \notin keys => i \in 1 .. n
    BY <1>2
  <2>3. \A i \in 1 .. n : i \in 1 .. n + 1
    OBVIOUS
  <2>. QED  BY <2>1, <2>2, <2>3 DEF FiltersIn
<1>3. CASE w \notin keys
  <2>1. d = AddFilterCondition(c, "AND", w)
    BY <1>3 DEF AddTo
  <2>2. Refers(d, e, w, c.valueCounter) /\ d.filter = Append(c.filter, x)
    <3>. DEFINE link == "AND"
    <3>1. d = AddFilterCondition(c, link, w)
      BY <2>1
    <3>. HIDE DEF w, link
    <3>2. /\ Refers(d, BuildCondition(c, w), w, c.valueCounter)
          /\ d.filter = Append(c.filter, Link(link, <<Link("AND", BuildCondition(c, w))>>))
      <4>1. BuilderOK(c)
        BY <1>1
      <4>. QED  BY <3>1, <4>1, FilterAdded
    <3>. QED  BY <3>2 DEF link
  <2>3. BuilderOK(d) /\ Extends(d, c) /\ d.key = c.key
    BY <1>1, <2>1, <2>2, FilterAdded
  <2>4. Extends(d, b)
    BY <1>1, <2>3, ExtendsFurther
  <2>. HIDE DEF e
  <2>5. Refers(d, e, w, 0)
    <3>1. c.valueCounter \in Nat
      BY <1>1 DEF BuilderOK, Numbered
    <3>. QED  BY <2>2, <3>1, LowerReference
  <2>6. FilterSays(d, x, "AND", w)
    BY <2>5, Zenon DEF FilterSays
  <2>. HIDE DEF x
  <2>7. /\ Len(d.filter) = l + 1 /\ l \in Nat /\ m \in Nat
        /\ d.filter[l + 1] = x /\ \A k \in 1 .. l : d.filter[k] = c.filter[k]
    <3>1. IsSeq(c.filter) /\ IsSeq(b.filter)
      BY <1>1 DEF BuilderOK, IsBuilder
    <3>. QED  BY <2>2, <3>1, AppendIs
  <2>. HIDE DEF w
  <2>8. \A k \in m + 1 .. Len(d.filter) :
          \E i \in 1 .. n + 1 : where[i] \notin keys /\ FilterSays(d, d.filter[k], "AND", where[i])
    <3>. TAKE k \in m + 1 .. Len(d.filter)
    <3>1. CASE k = l + 1
      <4>1. n + 1 \in 1 .. n + 1
        OBVIOUS
      <4>. QED  BY <1>3, <2>6, <2>7, <3>1, <4>1 DEF w
    <3>2. CASE k # l + 1
      <4>1. k \in m + 1 .. l /\ k \in 1 .. l
        BY <2>7, <3>2
      <4>2. PICK i \in 1 .. n : where[i] \notin keys /\ FilterSays(c, c.filter[k], "AND", where[i])
        BY <4>1 DEF FiltersIn
      <4>3. FilterSays(d, d.filter[k], "AND", where[i])
        BY <2>3, <2>7, <4>1, <4>2, FilterSaysStill
      <4>4. i \in 1 .. n + 1
        OBVIOUS
      <4>. QED  BY <4>2, <4>3, <4>4
    <3>. QED  BY <3>1, <3>2
  <2>9. \A i \in 1 .. n + 1 : where[i] \notin keys =>
          \E k \in m + 1 .. Len(d.filter) : FilterSays(d, d.filter[k], "AND", where[i])
    <3>. TAKE i \in 1 .. n + 1
    <3>. HAVE where[i] \notin keys
    <3>1. CASE i = n + 1
      <4>1. l + 1 \in m + 1 .. Len(d.filter)
        BY <1>1, <2>7
      <4>. QED  BY <2>6, <2>7, <3>1, <4>1 DEF w
    <3>2. CASE i # n + 1
      <4>1. i \in 1 .. n
        BY <3>2
      <4>2. PICK k \in m + 1 .. l : FilterSays(c, c.filter[k], "AND", where[i])
        BY <4>1 DEF FiltersIn
      <4>3. k \in m + 1 .. Len(d.filter) /\ k \in 1 .. l
        BY <2>7
      <4>4. FilterSays(d, d.filter[k], "AND", where[i])
        BY <2>3, <2>7, <4>2, <4>3, FilterSaysStill
      <4>. QED  BY <4>3, <4>4
    <3>. QED  BY <3>1, <3>2
  <2>10. Len(d.filter) >= m /\ \A k \in 1 .. m : d.filter[k] = b.filter[k]
    <3>1. \A k \in 1 .. m : k \in 1 .. l
      BY <1>1, <2>7
    <3>2. Len(d.filter) >= m
      BY <1>1, <2>7
    <3>. QED  BY <1>1, <2>7, <3>1, <3>2
  <2>. QED  BY <1>1, <2>3, <2>4, <2>8, <2>9, <2>10 DEF FiltersIn
<1>. QED  BY <1>2, <1>3

\* The second pass adds the other conditions as filters.
LEMMA FiltersAdded ==
    ASSUME NEW b, BuilderOK(b), NEW keys, Len(where) \in Nat
    PROVE  FiltersIn(AddPart("filter", b, keys), b, keys, Len(where))
<1>1. PICK g : /\ AddPart("filter", b, keys) = g[Len(where)] /\ g[0] = b
               /\ \A n \in Nat : n + 1 <= Len(where) => g[n + 1] = AddTo("filter", g[n], where[n + 1], keys)
  <2>. DEFINE part == "filter"
  <2>. HIDE DEF part
  <2>1. \E g : /\ AddPart(part, b, keys) = g[Len(where)] /\ g[0] = b
               /\ \A n \in Nat : n + 1 <= Len(where) => g[n + 1] = AddTo(part, g[n], where[n + 1], keys)
    BY PartOneByOne
  <2>. QED  BY <2>1 DEF part
<1>. DEFINE T == {n \in Nat : n <= Len(where) => FiltersIn(g[n], b, keys, n)}
<1>2. 0 \in T
  <2>1. Extends(b, b)
    BY DEF Extends, BuilderOK, Numbered
  <2>2. Len(b.filter) \in Nat
    BY AppendIs DEF BuilderOK, IsBuilder
  <2>3. FiltersIn(b, b, keys, 0)
    BY <2>1, <2>2 DEF FiltersIn
  <2>. QED  BY <1>1, <2>3
<1>3. \A n \in Nat : n \in T => n + 1 \in T
  <2>. SUFFICES ASSUME NEW n \in Nat, n \in T, n + 1 <= Len(where)
                PROVE  FiltersIn(g[n + 1], b, keys, n + 1)
    OBVIOUS
  <2>1. FiltersIn(g[n], b, keys, n)
    OBVIOUS
  <2>2. g[n + 1] = AddTo("filter", g[n], where[n + 1], keys)
    BY <1>1
  <2>. QED  BY <2>1, <2>2, OneMoreFilter
<1>4. Nat \subseteq T
  <2>. HIDE DEF T
  <2>. QED  BY <1>2, <1>3, CountUp
<1>. QED  BY <1>1, <1>4

-----------------------------------------------------------------------------
(* What a compiled query selects.                                          *)

\* The builder holds what was asked of it, filter by filter.
FiltersKept ==
    /\ BuilderOK(builder) /\ builder.key = <<>> /\ Len(builder.filter) = Len(asked)
    /\ \A i \in 1 .. Len(asked) : \E c :
          asked[i].conds = <<Link("AND", c)>> /\ FilterSays(builder, builder.filter[i], asked[i].link, c)

NoGroups == \A i \in DOMAIN asked : ~asked[i].group

QueryBuilt ==
    /\ table \in Tables /\ where \in Seq(Wheres) /\ IsSeq(asked)
    /\ ~filtered => asked = <<>>
    /\ NoGroups => FiltersKept

\* A compiled builder is that of the caller after both passes.
LEMMA CompiledParts ==
    ASSUME QueryBuilt, FiltersKept, NEW keys, NEW b, b = Compiled(keys)
    PROVE  \E k : KeysIn(k, builder, keys, Len(where)) /\ FiltersIn(b, k, keys, Len(where))
<1>. DEFINE k == AddPart("key", builder, keys)
<1>1. Len(where) \in Nat
  BY DEF QueryBuilt
<1>2. BuilderOK(builder) /\ builder.key = <<>>
  BY DEF FiltersKept
<1>3. KeysIn(k, builder, keys, Len(where))
  BY <1>1, <1>2, KeysAdded
<1>4. b = AddPart("filter", k, keys)
  BY DEF Compiled, Clone
<1>. HIDE DEF k
<1>5. BuilderOK(k)
  BY <1>3 DEF KeysIn
<1>6. FiltersIn(b, k, keys, Len(where))
  BY <1>1, <1>4, <1>5, FiltersAdded
<1>. QED  BY <1>3, <1>6

\* Every asked filter is in the compiled query, at its place.
LEMMA AskedEntries ==
    ASSUME QueryBuilt, FiltersKept, NEW keys, NEW b, NEW k,
           KeysIn(k, builder, keys, Len(where)), FiltersIn(b, k, keys, Len(where)),
           NEW i \in 1 .. Len(asked), NEW r
    PROVE  /\ b.filter[i].link = asked[i].link
           /\ GroupHolds(b, b.filter[i].conds, r) <=> GroupMet(asked[i].conds, r)
<1>1. PICK c : asked[i].conds = <<Link("AND", c)>> /\ FilterSays(builder, builder.filter[i], asked[i].link, c)
  BY Zenon DEF FiltersKept
<1>2. b.filter[i] = builder.filter[i]
  <2>1. k.filter = builder.filter /\ Len(builder.filter) = Len(asked)
    BY DEF KeysIn, FiltersKept
  <2>. QED  BY <2>1 DEF FiltersIn
<1>3. Extends(b, builder)
  BY ExtendsFurther DEF FiltersKept, KeysIn, FiltersIn
<1>4. FilterSays(b, b.filter[i], asked[i].link, c)
  BY <1>1, <1>2, <1>3, FilterSaysStill
<1>5. b.filter[i].link = asked[i].link /\ (GroupHolds(b, b.filter[i].conds, r) <=> Meets(r, c))
  BY <1>4, EntryHolds
<1>6. GroupMet(asked[i].conds, r) <=> Meets(r, c)
  BY <1>1, OneMet
<1>. QED  BY <1>5, <1>6

\* The key conditions hold when the conditions they come from do.
LEMMA KeysMean ==
    ASSUME NEW keys, NEW b, NEW k, NEW n,
           KeysIn(k, builder, keys, n), FiltersIn(b, k, keys, n), NEW r
    PROVE  (\A j \in DOMAIN b.key : CondHolds(b, b.key[j], r)) <=>
             \A i \in 1 .. n : where[i] \in keys => Meets(r, where[i])
<1>1. b.key = k.key /\ Extends(b, k)
  BY DEF FiltersIn
<1>2. ASSUME NEW i \in 1 .. n, where[i] \in keys, \A j \in DOMAIN b.key : CondHolds(b, b.key[j], r)
      PROVE  Meets(r, where[i])
  <2>1. PICK j \in DOMAIN k.key : Refers(k, k.key[j], where[i], 0)
    BY <1>2 DEF KeysIn
  <2>2. Refers(b, b.key[j], where[i], 0)
    BY <1>1, <2>1, ReferenceStays
  <2>3. CondHolds(b, b.key[j], r) <=> Meets(r, where[i])
    BY <2>2, ReferenceHolds
  <2>. QED  BY <1>1, <1>2, <2>1, <2>3
<1>3. ASSUME NEW j \in DOMAIN b.key, \A i \in 1 .. n : where[i] \in keys => Meets(r, where[i])
      PROVE  CondHolds(b, b.key[j], r)
  <2>1. PICK i \in 1 .. n : where[i] \in keys /\ Refers(k, k.key[j], where[i], 0)
    BY <1>1, <1>3 DEF KeysIn
  <2>2. Refers(b, b.key[j], where[i], 0)
    BY <1>1, <2>1, ReferenceStays
  <2>3. CondHolds(b, b.key[j], r) <=> Meets(r, where[i])
    BY <2>2, ReferenceHolds
  <2>. QED  BY <1>3, <2>1, <2>3
<1>. QED  BY <1>2, <1>3

\* Every filter of a compiled query with conditions is joined by AND.
LEMMA FiltersMean ==
    ASSUME QueryBuilt, FiltersKept, \A i \in DOMAIN asked : asked[i].link = "AND",
           NEW keys, NEW b, NEW k, NEW n, n = Len(where),
           KeysIn(k, builder, keys, n), FiltersIn(b, k, keys, n), NEW r
    PROVE  FilterHolds(b, r) <=>
             /\ \A i \in 1 .. n : where[i] \notin keys => Meets(r, where[i])
             /\ \A i \in DOMAIN asked : GroupMet(asked[i].conds, r)
<1>. DEFINE m == Len(asked)
            l == Len(b.filter)
            H == {j \in DOMAIN b.filter : GroupHolds(b, b.filter[j].conds, r)}
<1>1. /\ m \in Nat /\ l \in Nat /\ DOMAIN asked = 1 .. m /\ IsSeq(b.filter) /\ DOMAIN b.filter = 1 .. l
      /\ Len(k.filter) = m /\ l >= m
  <2>1. IsSeq(asked) /\ IsSeq(b.filter)
    BY DEF QueryBuilt, FiltersIn, BuilderOK, IsBuilder
  <2>2. k.filter = builder.filter /\ Len(builder.filter) = m
    BY DEF KeysIn, FiltersKept
  <2>3. l >= Len(k.filter)
    BY DEF FiltersIn
  <2>. QED  BY <2>1, <2>2, <2>3, AppendIs
<1>2. ASSUME NEW i \in 1 .. m
      PROVE  /\ b.filter[i].link = "AND" 
             /\ i \in H <=> GroupMet(asked[i].conds, r)
  <2>1. i \in DOMAIN b.filter
    BY <1>1
  <2>2. /\ b.filter[i].link = asked[i].link
        /\ GroupHolds(b, b.filter[i].conds, r) <=> GroupMet(asked[i].conds, r)
    BY AskedEntries
  <2>. QED  BY <1>1, <2>1, <2>2
<1>3. ASSUME NEW j \in m + 1 .. l
      PROVE  b.filter[j].link = "AND" /\ \E i \in 1 .. n : where[i] \notin keys /\ (j \in H <=> Meets(r, where[i]))
  <2>1. PICK i \in 1 .. n : where[i] \notin keys /\ FilterSays(b, b.filter[j], "AND", where[i])
    BY <1>1 DEF FiltersIn
  <2>2. b.filter[j].link = "AND" /\ (GroupHolds(b, b.filter[j].conds, r) <=> Meets(r, where[i]))
    BY <2>1, EntryHolds
  <2>3. j \in DOMAIN b.filter
    BY <1>1
  <2>. QED  BY <2>1, <2>2, <2>3
<1>4. ASSUME NEW i \in 1 .. n, where[i] \notin keys
      PROVE  \E j \in m + 1 .. l : j \in H <=> Meets(r, where[i])
  <2>1. PICK j \in m + 1 .. l : FilterSays(b, b.filter[j], "AND", where[i])
    BY <1>1, <1>4 DEF FiltersIn
  <2>2. GroupHolds(b, b.filter[j].conds, r) <=> Meets(r, where[i])
    BY <2>1, EntryHolds
  <2>3. j \in DOMAIN b.filter
    BY <1>1
  <2>. QED  BY <2>1, <2>2, <2>3
<1>5. FilterHolds(b, r) <=> b.filter = <<>> \/ RunHolds(b.filter, H)
  BY <1>1, RunsOfFilter DEF FilterHolds
<1>. HIDE DEF H
<1>6. \A j \in DOMAIN b.filter : b.filter[j].link = "AND"
  <2>. TAKE j \in DOMAIN b.filter
  <2>1. j \in 1 .. m \/ j \in m + 1 .. l
    BY <1>1
  <2>. QED  BY <1>2, <1>3, <2>1
<1>7. FilterHolds(b, r) <=> \A j \in DOMAIN b.filter : j \in H
  <2>1. CASE b.filter = <<>>
    BY <1>5, <2>1
  <2>2. CASE b.filter # <<>>
    BY <1>1, <1>5, <1>6, <2>2, RunsOfAnd
  <2>. QED  BY <2>1, <2>2
<1>8. (\A j \in DOMAIN b.filter : j \in H) <=>
        (\A j \in 1 .. m : j \in H) /\ \A j \in m + 1 .. l : j \in H
  BY <1>1
<1>9. (\A j \in 1 .. m : j \in H) <=> \A i \in DOMAIN asked : GroupMet(asked[i].conds, r)
  BY <1>1, <1>2
<1>10. (\A j \in m + 1 .. l : j \in H) <=> \A i \in 1 .. n : where[i] \notin keys => Meets(r, where[i])
  BY <1>3, <1>4
<1>. QED  BY <1>7, <1>8, <1>9, <1>10

\* compileOperation: however the conditions are split, the rows that are selected are the
\* ones the caller wants.
LEMMA PlanMeans ==
    ASSUME QueryBuilt, PlainFilters, NEW keys, NEW b, b = Compiled(keys), NEW r
    PROVE  FilterHolds(b, r) /\ (\A j \in DOMAIN b.key : CondHolds(b, b.key[j], r)) <=> Wanted(r)
<1>. DEFINE n == Len(where)
            m == Len(asked)
<1>1. FiltersKept
  BY DEF QueryBuilt, PlainFilters, NoGroups
<1>2. PICK k : KeysIn(k, builder, keys, n) /\ FiltersIn(b, k, keys, n)
  BY <1>1, CompiledParts
<1>3. (\A j \in DOMAIN b.key : CondHolds(b, b.key[j], r)) <=>
        \A i \in 1 .. n : where[i] \in keys => Meets(r, where[i])
  <2>. HIDE DEF n
  <2>. QED  BY <1>2, KeysMean
<1>4. n \in Nat /\ DOMAIN where = 1 .. n /\ IsSeq(asked) /\ m \in Nat /\ DOMAIN asked = 1 .. m
  BY AppendIs DEF QueryBuilt
<1>5. CASE where # <<>>
  <2>1. \A i \in DOMAIN asked : asked[i].link = "AND"
    BY <1>5 DEF PlainFilters
  <2>2. FilterHolds(b, r) <=>
             /\ \A i \in 1 .. n : where[i] \notin keys => Meets(r, where[i])
             /\ \A i \in DOMAIN asked : GroupMet(asked[i].conds, r)
    <3>1. n = Len(where)
      OBVIOUS
    <3>. HIDE DEF n
    <3>. QED  BY <1>1, <1>2, <2>1, <3>1, FiltersMean
  <2>3. (asked = <<>> \/ Joined(asked, LAMBDA group : GroupMet(group, r))) <=>
             \A i \in DOMAIN asked : GroupMet(asked[i].conds, r)
    <3>. DEFINE H == {i \in DOMAIN asked : GroupMet(asked[i].conds, r)}
    <3>1. CASE asked = <<>>
      BY <3>1
    <3>2. CASE asked # <<>>
      <4>1. Joined(asked, LAMBDA group : GroupMet(group, r)) <=> RunHolds(asked, H)
        BY <1>4, RunsOfAsked
      <4>2. RunHolds(asked, H) <=> \A i \in DOMAIN asked : i \in H
        BY <1>4, <2>1, <3>2, RunsOfAnd
      <4>. QED  BY <3>2, <4>1, <4>2
    <3>. QED  BY <3>1, <3>2
  <2>. QED  BY <1>3, <1>4, <2>2, <2>3 DEF Wanted
<1>6. CASE where = <<>>
  <2>1. n = 0 /\ DOMAIN where = {}
    BY <1>4, <1>6
  <2>2. IsSeq(b.filter) /\ Len(b.filter) = m
    <3>1. IsSeq(b.filter) /\ Len(b.filter) \in Nat
      BY <1>2, AppendIs DEF FiltersIn, BuilderOK, IsBuilder
    <3>2. Len(k.filter) = m
      BY <1>1, <1>2 DEF KeysIn, FiltersKept
    <3>3. Len(b.filter) >= m /\ \A j \in m + 1 .. Len(b.filter) : FALSE
      BY <1>2, <2>1, <3>2 DEF FiltersIn
    <3>4. Len(b.filter) # m => m + 1 \in m + 1 .. Len(b.filter)
      BY <1>4, <3>1, <3>3
    <3>. QED  BY <3>1, <3>3, <3>4
  <2>3. \A i \in 1 .. m : /\ b.filter[i].link = asked[i].link
                          /\ GroupHolds(b, b.filter[i].conds, r) <=> GroupMet(asked[i].conds, r)
    BY <1>1, <1>2, AskedEntries
  <2>. DEFINE H == {i \in DOMAIN asked : GroupMet(asked[i].conds, r)}
              G == {i \in DOMAIN b.filter : GroupHolds(b, b.filter[i].conds, r)}
  <2>4. DOMAIN b.filter = 1 .. m
    BY <2>2, AppendIs
  <2>5. G = H
    BY <1>4, <2>3, <2>4
  <2>6. FilterHolds(b, r) <=> b.filter = <<>> \/ RunHolds(b.filter, G)
    BY <2>2, RunsOfFilter DEF FilterHolds
  <2>7. Joined(asked, LAMBDA group : GroupMet(group, r)) <=> RunHolds(asked, H)
    BY <1>4, RunsOfAsked
  <2>. HIDE DEF G, H
  <2>8. RunHolds(b.filter, H) <=> RunHolds(asked, H)
    BY <1>4, <2>2, <2>3, <2>4, SameRuns
  <2>9. b.filter = <<>> <=> asked = <<>>
    <3>1. PICK E : asked \in Seq(E)
      BY <1>4 DEF IsSeq
    <3>2. PICK F : b.filter \in Seq(F)
      BY <2>2 DEF IsSeq
    <3>. QED  BY <2>2, <3>1, <3>2
  <2>. QED  BY <1>3, <2>1, <2>5, <2>6, <2>7, <2>8, <2>9 DEF Wanted
<1>. QED  BY <1>5, <1>6

-----------------------------------------------------------------------------
(* The index of a compiled query is the one its name says.                 *)

\* An index is found by its name.
LEMMA NamedIndex ==
    ASSUME NEW name
    PROVE  IndexByName(IndexByName(name).name) = IndexByName(name)
<1>1. CASE \E k \in DOMAIN Indexes : Indexes[k].name = name
  <2>1. PICK k \in DOMAIN Indexes : Indexes[k].name = name
    BY <1>1
  <2>2. Indexes[k] \in ToSet(Indexes)
    BY DEF ToSet
  <2>3. (CHOOSE i \in ToSet(Indexes) : i.name = name).name = name
    BY <2>1, <2>2
  <2>4. IndexByName(name).name = name
    BY <1>1, <2>3 DEF IndexByName
  <2>. QED  BY <2>4
<1>2. CASE ~\E k \in DOMAIN Indexes : Indexes[k].name = name
  <2>1. IndexByName(name) = [Primary EXCEPT !.name = name]
    BY <1>2 DEF IndexByName
  <2>2. IndexByName(name).name = name
    BY <2>1 DEF Primary
  <2>. QED  BY <2>2
<1>. QED  BY <1>1, <1>2

\* SelectOptimal chooses the table or one of its indexes.
LEMMA ChosenIndex ==
    ASSUME NEW i \in SelectOptimal
    PROVE  IndexByName(i.name) = i
<1>1. PICK k \in DOMAIN AllIndexes : i = AllIndexes[k]
  BY DEF SelectOptimal
<1>. DEFINE R == [name : STRING \ {""}, pk : STRING, sk : STRING, type : STRING, projection : STRING]
<1>2. Indexes \in Seq(R)
  BY QueryAssumption
<1>3. \A j \in DOMAIN Indexes : Indexes[j].name # ""
  <2>. TAKE j \in DOMAIN Indexes
  <2>1. Indexes[j] \in R
    <3>. HIDE DEF R
    <3>. QED  BY <1>2
  <2>. QED  BY <2>1
<1>. HIDE DEF R
<1>4. Len(Indexes) \in Nat /\ DOMAIN Indexes = 1 .. Len(Indexes)
  BY <1>2
<1>. DEFINE P == Primary
<1>. HIDE DEF P
<1>5. /\ Len(AllIndexes) = Len(Indexes) + 1 /\ DOMAIN AllIndexes = 1 .. Len(Indexes) + 1
      /\ AllIndexes[1] = P /\ \A j \in 2 .. Len(Indexes) + 1 : AllIndexes[j] = Indexes[j - 1]
  <2>1. AllIndexes = <<P>> \o Indexes
    BY DEF AllIndexes, P
  <2>2. <<P>> \in Seq(R \union {P}) /\ Indexes \in Seq(R \union {P}) /\ Len(<<P>>) = 1
    BY <1>2
  <2>. QED  BY <1>4, <2>1, <2>2
<1>6. CASE k = 1
  <2>1. i = Primary
    BY <1>1, <1>5, <1>6 DEF P
  <2>2. i.name = "" /\ [Primary EXCEPT !.name = ""] = Primary
    <3>1. Primary.name = ""
      BY DEF Primary
    <3>2. [Primary EXCEPT !.name = ""] = Primary
      <4>1. /\ P = [name |-> P.name, pk |-> P.pk, sk |-> P.sk, type |-> P.type, projection |-> P.projection]
            /\ P.name = ""
        BY DEF P, Primary
      <4>2. [P EXCEPT !.name = ""] = P
        BY <4>1
      <4>. QED  BY <4>2 DEF P
    <3>. QED  BY <2>1, <3>1, <3>2
  <2>3. IndexByName("") = [Primary EXCEPT !.name = ""]
    BY <1>3 DEF IndexByName
  <2>. QED  BY <2>1, <2>2, <2>3
<1>7. CASE k # 1
  <2>1. k \in 2 .. Len(Indexes) + 1
    BY <1>1, <1>4, <1>5, <1>7
  <2>2. k - 1 \in DOMAIN Indexes /\ i = Indexes[k - 1]
    <3>1. k - 1 \in DOMAIN Indexes
      BY <1>4, <2>1
    <3>2. AllIndexes[k] = Indexes[k - 1]
      BY <1>5, <2>1
    <3>. QED  BY <1>1, <3>1, <3>2
  <2>3. \A x \in ToSet(Indexes) : x.name = i.name => x = i
    BY <2>2, QueryAssumption DEF ToSet
  <2>4. i \in ToSet(Indexes)
    BY <2>2 DEF ToSet
  <2>5. (CHOOSE x \in ToSet(Indexes) : x.name = i.name) = i
    BY <2>3, <2>4
  <2>. QED  BY <2>2, <2>5 DEF IndexByName
<1>. QED  BY <1>6, <1>7

\* A plan runs against the index it names, with every condition in it.
IsPlan(p) == IndexByName(p.index.name) = p.index /\ \E keys : p.b = Compiled(keys)

\* compileScan makes a plan.
LEMMA ScanIsPlan ==
    ASSUME NEW name
    PROVE  IsPlan(ScanOf(name))
<1>1. ScanOf(name).index = IndexByName(name) /\ ScanOf(name).b = Compiled({})
  BY DEF ScanOf
<1>. QED  BY <1>1, NamedIndex DEF IsPlan

\* compileQuery makes a plan.
LEMMA QueryIsPlan ==
    ASSUME NEW i, IndexByName(i.name) = i, NEW keys
    PROVE  IsPlan(QueryOf(i, Compiled(keys)))
<1>1. QueryOf(i, Compiled(keys)).index = i /\ QueryOf(i, Compiled(keys)).b = Compiled(keys)
  BY DEF QueryOf
<1>. QED  BY <1>1 DEF IsPlan

\* Compile makes a plan, whether the caller named an index or not.
LEMMA CompileIsPlan == IsPlan(Compile)
<1>1. CASE index # ""
  <2>1. Compile = CompileWithExplicitIndex
    BY <1>1 DEF Compile
  <2>2. IsPlan(CompileWithExplicitIndex)
    <3>. DEFINE i == IndexByName(index)
                keyConds == {c \in ToSet(where) : IsKeyByOperator(KeyNames(i), c)}
    <3>1. \/ CompileWithExplicitIndex = QueryOf(i, Compiled(keyConds))
          \/ CompileWithExplicitIndex = ScanOf(index)
      BY DEF CompileWithExplicitIndex
    <3>2. IndexByName(i.name) = i
      BY NamedIndex
    <3>. HIDE DEF i, keyConds
    <3>. QED  BY <3>1, <3>2, QueryIsPlan, ScanIsPlan
  <2>. QED  BY <2>1, <2>2
<1>2. CASE ~(index # "")
  <2>1. Compile = CompileWithBestIndex
    BY <1>2 DEF Compile
  <2>2. CASE SelectOptimal = {}
    <3>1. Compile = ScanOf("")
      BY <2>1, <2>2 DEF CompileWithBestIndex
    <3>. QED  BY <3>1, ScanIsPlan
  <2>3. CASE SelectOptimal # {}
    <3>. DEFINE i == CHOOSE x \in SelectOptimal : TRUE
                keyConds == {c \in ToSet(where) : IsKeyByField(KeyNames(i), c)}
    <3>1. Compile = QueryOf(i, Compiled(keyConds))
      BY <2>1, <2>3 DEF CompileWithBestIndex
    <3>2. i \in SelectOptimal
      BY <2>3
    <3>. HIDE DEF i, keyConds
    <3>3. IndexByName(i.name) = i
      BY <3>2, ChosenIndex
    <3>. QED  BY <3>1, <3>3, QueryIsPlan
  <2>. QED  BY <2>2, <2>3
<1>. QED  BY <1>1, <1>2

\* What a plan answers.
LEMMA PlanAnswers ==
    ASSUME QueryBuilt, PlainFilters, NEW p, IsPlan(p), NEW a, a = Answer(p), a.kind # "error"
    PROVE  a.kind = "rows" /\ a.rows = {r \in InIndex(IndexByName(a.via)) : Wanted(r)}
<1>1. PICK keys : p.b = Compiled(keys)
  BY DEF IsPlan
<1>2. IndexByName(p.index.name) = p.index
  BY DEF IsPlan
<1>3. a = [kind |-> "rows", rows |-> Selected(p), via |-> p.index.name]
  BY DEF Answer
<1>4. a.kind = "rows" /\ a.rows = Selected(p) /\ a.via = p.index.name
  BY <1>3
<1>5. \A r : (FilterHolds(p.b, r) /\ \A k \in DOMAIN p.b.key : CondHolds(p.b, p.b.key[k], r)) <=> Wanted(r)
  BY <1>1, PlanMeans
<1>6. Selected(p) = {r \in InIndex(p.index) : Wanted(r)}
  BY <1>5 DEF Selected
<1>. QED  BY <1>2, <1>4, <1>6

-----------------------------------------------------------------------------
(* The GetItem of First.                                                   *)

\* A set of positions that is not empty has a last one.
LEMMA LastOf ==
    ASSUME NEW n \in Nat, NEW S, S \subseteq 1 .. n, S # {}
    PROVE  Max(S) \in S
<1>. DEFINE T == {k \in Nat : \A V \in SUBSET (1 .. k) : V # {} => \E x \in V : \A y \in V : x >= y}
<1>1. 0 \in T
  <2>1. 1 .. 0 = {}
    OBVIOUS
  <2>. QED  BY <2>1
<1>2. \A k \in Nat : k \in T => k + 1 \in T
  <2>. SUFFICES ASSUME NEW k \in Nat, k \in T, NEW V \in SUBSET (1 .. k + 1), V # {}
                PROVE  \E x \in V : \A y \in V : x >= y
    OBVIOUS
  <2>1. CASE k + 1 \in V
    BY <2>1
  <2>2. CASE k + 1 \notin V
    <3>1. V \in SUBSET (1 .. k)
      BY <2>2
    <3>. QED  BY <3>1
  <2>. QED  BY <2>1, <2>2
<1>3. Nat \subseteq T
  <2>. HIDE DEF T
  <2>. QED  BY <1>1, <1>2, CountUp
<1>4. \E x \in S : \A y \in S : x >= y
  BY <1>3
<1>. QED  BY <1>4 DEF Max

\* compileGetItem: the row of the key satisfies every condition, since they are equalities
\* on the key fields and no two of them differ.
LEMMA GetItemMatches ==
    ASSUME QueryBuilt, IsGetItem, ~Contradictory,
           NEW r \in table, r[PK] = GetItemKey[PK], r[SK] = GetItemKey[SK]
    PROVE  Wanted(r)
<1>. DEFINE n == Len(where)
<1>1. n \in Nat /\ DOMAIN where = 1 .. n
  BY DEF QueryBuilt
<1>2. PK \in DOMAIN r /\ SK \in DOMAIN r
  BY QueryAssumption DEF QueryBuilt
<1>3. ASSUME NEW i \in DOMAIN where
      PROVE  Meets(r, where[i])
  <2>. DEFINE f == where[i].field
              S == {j \in DOMAIN where : where[j].field = f}
  <2>1. f \in {PK, SK} /\ where[i].op = "="
    BY <1>3 DEF IsGetItem
  <2>2. f \in DOMAIN Given /\ Given[f] = where[Max(S)].value
    BY <1>3 DEF Given
  <2>3. GetItemKey[f] = Given[f]
    BY <2>2 DEF GetItemKey, Overlay
  <2>4. Max(S) \in S
    <3>1. S \subseteq 1 .. n /\ S # {}
      BY <1>1, <1>3
    <3>. HIDE DEF S, n
    <3>. QED  BY <1>1, <3>1, LastOf
  <2>5. where[Max(S)].value = where[i].value
    <3>. DEFINE j == Max(S)
    <3>1. j \in DOMAIN where /\ where[j].field = where[i].field
      BY <2>4
    <3>. HIDE DEF j
    <3>2. where[j].value = where[i].value
      BY <1>3, <3>1 DEF Contradictory
    <3>. QED  BY <3>2 DEF j
  <2>6. r[f] = where[i].value /\ f \in DOMAIN r
    BY <1>2, <2>1, <2>2, <2>3, <2>5
  <2>. QED  BY <2>1, <2>6 DEF Meets, Compare
<1>4. asked = <<>>
  BY DEF IsGetItem, QueryBuilt
<1>. QED  BY <1>3, <1>4 DEF Wanted

-----------------------------------------------------------------------------
(* Queries return what was asked for.                                      *)

QueryInv == QueryBuilt /\ ReturnsMatching

\* Nothing has been asked.
LEMMA QueryInvInit == QueryInit => QueryInv
<1>. SUFFICES ASSUME QueryInit
              PROVE  QueryInv
  OBVIOUS
<1>1. IsSeq(<<>>)
  BY DEF IsSeq
<1>2. asked = <<>> /\ builder = NewBuilder /\ where = <<>> /\ table \in Tables /\ answer = NoAnswer
  BY DEF QueryInit
<1>3. NewBuilder.key = <<>> /\ NewBuilder.filter = <<>>
  BY DEF NewBuilder
<1>4. FiltersKept
  BY <1>2, <1>3, NewBuilderOK DEF FiltersKept
<1>5. QueryBuilt
  BY <1>1, <1>2, <1>4 DEF QueryBuilt
<1>6. answer.kind = "none"
  BY <1>2 DEF NoAnswer
<1>. QED  BY <1>5, <1>6 DEF QueryInv, ReturnsMatching, AnswerMatches

\* While the query is built there is no answer to speak of.
LEMMA NoAnswerYet ==
    ASSUME answer.kind = "none", answer' = answer, QueryBuilt'
    PROVE  QueryInv'
BY DEF QueryInv, ReturnsMatching, AnswerMatches

\* Where.
LEMMA WhereKeeps ==
    ASSUME QueryInv, NEW c \in Wheres, Where(c)
    PROVE  QueryInv'
<1>1. /\ answer.kind = "none" /\ answer' = answer /\ table' = table /\ asked' = asked /\ builder' = builder
      /\ filtered' = filtered /\ where' \in {where, Append(where, c)}
  BY DEF Where, Building
<1>2. where' \in Seq(Wheres)
  BY <1>1 DEF QueryInv, QueryBuilt
<1>3. NoGroups' = NoGroups /\ FiltersKept' = FiltersKept
  BY <1>1 DEF NoGroups, FiltersKept
<1>4. QueryBuilt'
  BY <1>1, <1>2, <1>3 DEF QueryInv, QueryBuilt
<1>. QED  BY <1>1, <1>4, NoAnswerYet

\* Index.
LEMMA IndexKeeps ==
    ASSUME QueryInv, NEW name, Index(name)
    PROVE  QueryInv'
<1>1. /\ answer.kind = "none" /\ answer' = answer /\ table' = table /\ asked' = asked /\ builder' = builder
      /\ filtered' = filtered /\ where' = where
  BY DEF Index, Building
<1>2. NoGroups' = NoGroups /\ FiltersKept' = FiltersKept
  BY <1>1 DEF NoGroups, FiltersKept
<1>3. QueryBuilt'
  BY <1>1, <1>2 DEF QueryInv, QueryBuilt
<1>. QED  BY <1>1, <1>3, NoAnswerYet

\* Filter and OrFilter.
LEMMA FilterKeeps ==
    ASSUME QueryInv, NEW link, NEW c, FilterWith(link, c)
    PROVE  QueryInv'
<1>1. /\ answer.kind = "none" /\ answer' = answer /\ table' = table /\ where' = where
  BY DEF FilterWith, Building
<1>2. CASE Rejected(c)
  <2>1. asked' = asked /\ builder' = builder /\ filtered' = filtered
    BY <1>2 DEF FilterWith
  <2>2. NoGroups' = NoGroups /\ FiltersKept' = FiltersKept
    BY <2>1 DEF NoGroups, FiltersKept
  <2>3. QueryBuilt'
    BY <1>1, <2>1, <2>2 DEF QueryInv, QueryBuilt
  <2>. QED  BY <1>1, <2>3, NoAnswerYet
<1>3. CASE ~Rejected(c)
  <2>. DEFINE q == Asked(link, <<Link("AND", c)>>, FALSE)
              e == BuildCondition(builder, c)
              x == Link(link, <<Link("AND", e)>>)
              m == Len(asked)
  <2>1. builder' = AddFilterCondition(builder, link, c) /\ asked' = Append(asked, q) /\ filtered' = TRUE
    BY <1>3 DEF FilterWith
  <2>2. q.link = link /\ q.conds = <<Link("AND", c)>>
    BY DEF Asked
  <2>. HIDE DEF q
  <2>3. /\ IsSeq(asked') /\ m \in Nat /\ Len(asked') = m + 1 /\ asked'[m + 1] = q /\ DOMAIN asked = 1 .. m
        /\ DOMAIN asked' = 1 .. m + 1 /\ \A i \in 1 .. m : asked'[i] = asked[i]
    BY <2>1, AppendIs DEF QueryInv, QueryBuilt
  <2>4. ASSUME NoGroups'
        PROVE  FiltersKept'
    <3>1. NoGroups
      BY <2>3, <2>4 DEF NoGroups
    <3>2. FiltersKept
      BY <3>1 DEF QueryInv, QueryBuilt
    <3>3. BuilderOK(builder) /\ builder.key = <<>> /\ Len(builder.filter) = m
      BY <3>2 DEF FiltersKept
    <3>. DEFINE d == builder'
    <3>. HIDE DEF d
    <3>4. d = AddFilterCondition(builder, link, c)
      BY <2>1 DEF d
    <3>5. Refers(d, e, c, builder.valueCounter) /\ d.filter = Append(builder.filter, x)
      <4>1. BuilderOK(builder)
        BY <3>3
      <4>. QED  BY <3>4, <4>1, FilterAdded
    <3>6. BuilderOK(d) /\ Extends(d, builder) /\ d.key = builder.key
      <4>1. BuilderOK(builder)
        BY <3>3
      <4>. QED  BY <3>4, <3>5, <4>1, FilterAdded
    <3>. HIDE DEF e
    <3>7. Refers(d, e, c, 0)
      <4>1. builder.valueCounter \in Nat
        BY <3>3 DEF BuilderOK, Numbered
      <4>. QED  BY <3>5, <4>1, LowerReference
    <3>8. FilterSays(d, x, link, c)
      BY <3>7, Zenon DEF FilterSays
    <3>. HIDE DEF x
    <3>9. Len(d.filter) = m + 1 /\ d.filter[m + 1] = x /\ \A i \in 1 .. m : d.filter[i] = builder.filter[i]
      <4>1. IsSeq(builder.filter)
        BY <3>3 DEF BuilderOK, IsBuilder
      <4>. QED  BY <3>3, <3>5, <4>1, AppendIs
    <3>10. \A i \in 1 .. Len(asked') : \E w :
            asked'[i].conds = <<Link("AND", w)>> /\ FilterSays(d, d.filter[i], asked'[i].link, w)
      <4>. TAKE i \in 1 .. Len(asked')
      <4>1. CASE i = m + 1
        BY <2>2, <2>3, <3>8, <3>9, <4>1
      <4>2. CASE i # m + 1
        <5>1. i \in 1 .. m
          BY <2>3, <4>2
        <5>2. PICK w : asked[i].conds = <<Link("AND", w)>> /\ FilterSays(builder, builder.filter[i], asked[i].link, w)
          BY <3>2, <5>1, Zenon DEF FiltersKept
        <5>3. FilterSays(d, d.filter[i], asked[i].link, w)
          BY <3>6, <3>9, <5>1, <5>2, FilterSaysStill
        <5>. QED  BY <2>3, <5>1, <5>2, <5>3
      <4>. QED  BY <4>1, <4>2
    <3>11. BuilderOK(d) /\ d.key = <<>> /\ Len(d.filter) = Len(asked')
      BY <2>3, <3>3, <3>6, <3>9
    <3>. QED  BY <3>10, <3>11, Zenon DEF FiltersKept, d
  <2>5. QueryBuilt'
    BY <1>1, <2>1, <2>3, <2>4 DEF QueryInv, QueryBuilt
  <2>. QED  BY <1>1, <2>5, NoAnswerYet
<1>. QED  BY <1>2, <1>3

\* FilterGroup and OrFilterGroup.
LEMMA GroupKeeps ==
    ASSUME QueryInv, NEW link, NEW group, FilterGroup(link, group)
    PROVE  QueryInv'
<1>. DEFINE q == Asked(link, group, TRUE)
            m == Len(asked)
<1>1. /\ answer.kind = "none" /\ answer' = answer /\ table' = table /\ where' = where
      /\ asked' = Append(asked, q) /\ filtered' = TRUE
  BY DEF FilterGroup, Building
<1>2. q.group
  BY DEF Asked
<1>. HIDE DEF q
<1>3. IsSeq(asked') /\ m \in Nat /\ asked'[m + 1] = q /\ DOMAIN asked' = 1 .. m + 1
  BY <1>1, AppendIs DEF QueryInv, QueryBuilt
<1>4. ~NoGroups'
  BY <1>2, <1>3 DEF NoGroups
<1>5. QueryBuilt'
  BY <1>1, <1>3, <1>4 DEF QueryInv, QueryBuilt
<1>. QED  BY <1>1, <1>5, NoAnswerYet

\* A read changes nothing but the answer.
LEMMA AnswerKeeps ==
    ASSUME QueryInv, UNCHANGED <<table, model, where, builder, filtered, asked, index, builderErr>>,
           PlainFilters => (answer'.kind = "row" => Contradictory \/ \A r \in answer'.rows : Wanted(r)),
           PlainFilters => (answer'.kind = "rows" =>
               answer'.rows = {r \in InIndex(IndexByName(answer'.via)) : Wanted(r)})
    PROVE  QueryInv'
<1>1. QueryBuilt'
  <2>1. NoGroups' = NoGroups /\ FiltersKept' = FiltersKept
    BY DEF NoGroups, FiltersKept
  <2>. QED  BY <2>1 DEF QueryInv, QueryBuilt
<1>2. PlainFilters' = PlainFilters
  BY DEF PlainFilters
<1>3. Contradictory' = Contradictory
  <2>1. GetItemKey' = GetItemKey
    BY DEF GetItemKey, Given
  <2>2. IsGetItem' = IsGetItem
    BY <2>1 DEF IsGetItem
  <2>. QED  BY <2>2 DEF Contradictory
<1>4. \A r : Wanted(r)' = Wanted(r)
  BY DEF Wanted, Joined
<1>5. \A i : InIndex(i)' = InIndex(i)
  BY DEF InIndex
<1>6. ReturnsMatching'
  BY <1>2, <1>3, <1>4, <1>5 DEF ReturnsMatching, AnswerMatches
<1>. QED  BY <1>1, <1>6 DEF QueryInv

\* A plan that is run.
LEMMA PlanKeeps ==
    ASSUME QueryInv, UNCHANGED <<table, model, where, builder, filtered, asked, index, builderErr>>,
           NEW p, IsPlan(p), answer' = IF builderErr THEN [NoAnswer EXCEPT !.kind = "error"] ELSE Answer(p)
    PROVE  QueryInv'
<1>1. CASE answer'.kind = "error"
  BY <1>1, AnswerKeeps
<1>2. CASE answer'.kind # "error"
  <2>1. answer' = Answer(p)
    <3>1. CASE builderErr
      BY <1>2, <3>1 DEF NoAnswer
    <3>. QED  BY <3>1
  <2>2. QueryBuilt
    BY DEF QueryInv
  <2>. DEFINE a == answer'
  <2>3. a = Answer(p) /\ a.kind # "error"
    BY <1>2, <2>1
  <2>. HIDE DEF a
  <2>4. a.kind = "rows"
    BY <2>3 DEF Answer
  <2>5. PlainFilters => a.rows = {r \in InIndex(IndexByName(a.via)) : Wanted(r)}
    BY <2>2, <2>3, PlanAnswers
  <2>. QED  BY <2>4, <2>5, AnswerKeeps DEF a
<1>. QED  BY <1>1, <1>2

\* All and Count.
LEMMA AllKeeps ==
    ASSUME QueryInv, All
    PROVE  QueryInv'
<1>. DEFINE p == Compile
<1>1. /\ UNCHANGED <<table, model, where, builder, filtered, asked, index, builderErr>>
      /\ answer' = IF builderErr THEN [NoAnswer EXCEPT !.kind = "error"] ELSE Answer(p)
  BY DEF All
<1>2. IsPlan(p)
  BY CompileIsPlan
<1>. HIDE DEF p
<1>. QED  BY <1>1, <1>2, PlanKeeps

\* Scan.
LEMMA ScanKeeps ==
    ASSUME QueryInv, Scan
    PROVE  QueryInv'
<1>. DEFINE p == ScanOf(index)
<1>1. /\ UNCHANGED <<table, model, where, builder, filtered, asked, index, builderErr>>
      /\ answer' = IF builderErr THEN [NoAnswer EXCEPT !.kind = "error"] ELSE Answer(p)
  BY DEF Scan
<1>2. IsPlan(p)
  BY ScanIsPlan
<1>. HIDE DEF p
<1>. QED  BY <1>1, <1>2, PlanKeeps

\* First, by GetItem or by a plan.
LEMMA FirstKeeps ==
    ASSUME QueryInv, First
    PROVE  QueryInv'
<1>. DEFINE found == {r \in table : r[PK] = GetItemKey[PK] /\ r[SK] = GetItemKey[SK]}
            p == Compile
            all == Answer(p)
            One(rows) == \/ rows = {} /\ answer' = [NoAnswer EXCEPT !.kind = "notFound"]
                         \/ \E r \in rows : answer' = [NoAnswer EXCEPT !.kind = "row", !.rows = {r}]
<1>1. UNCHANGED <<table, model, where, builder, filtered, asked, index, builderErr>>
  BY DEF First
<1>2. \/ answer' = [NoAnswer EXCEPT !.kind = "error"]
      \/ IsGetItem /\ One(found)
      \/ all.kind = "error" /\ answer' = all
      \/ all.kind # "error" /\ One(all.rows)
  BY DEF First
<1>3. QueryBuilt
  BY DEF QueryInv
<1>4. IsPlan(p)
  BY CompileIsPlan
<1>5. ASSUME NEW r, answer' = [NoAnswer EXCEPT !.kind = "row", !.rows = {r}],
             PlainFilters => Contradictory \/ Wanted(r)
      PROVE  QueryInv'
  <2>1. answer'.kind = "row" /\ answer'.rows = {r}
    BY <1>5 DEF NoAnswer
  <2>. QED  BY <1>1, <1>5, <2>1, AnswerKeeps
<1>6. ASSUME answer'.kind \in {"error", "notFound"}
      PROVE  QueryInv'
  BY <1>1, <1>6, AnswerKeeps
<1>7. CASE answer' = [NoAnswer EXCEPT !.kind = "error"]
  BY <1>6, <1>7 DEF NoAnswer
<1>8. CASE IsGetItem /\ One(found)
  <2>1. CASE answer' = [NoAnswer EXCEPT !.kind = "notFound"]
    BY <1>6, <2>1 DEF NoAnswer
  <2>2. CASE \E r \in found : answer' = [NoAnswer EXCEPT !.kind = "row", !.rows = {r}]
    <3>1. PICK r \in found : answer' = [NoAnswer EXCEPT !.kind = "row", !.rows = {r}]
      BY <2>2
    <3>2. r \in table /\ r[PK] = GetItemKey[PK] /\ r[SK] = GetItemKey[SK]
      OBVIOUS
    <3>. HIDE DEF found
    <3>3. Contradictory \/ Wanted(r)
      BY <1>3, <1>8, <3>2, GetItemMatches
    <3>. QED  BY <1>5, <3>1, <3>3
  <2>. QED  BY <1>8, <2>1, <2>2
<1>. HIDE DEF found, p
<1>9. CASE all.kind = "error" /\ answer' = all
  BY <1>6, <1>9
<1>10. CASE all.kind # "error" /\ One(all.rows)
  <2>1. CASE answer' = [NoAnswer EXCEPT !.kind = "notFound"]
    BY <1>6, <2>1 DEF NoAnswer
  <2>2. CASE \E r \in all.rows : answer' = [NoAnswer EXCEPT !.kind = "row", !.rows = {r}]
    <3>. DEFINE a == all
    <3>1. a = Answer(p) /\ a.kind # "error"
      BY <1>10
    <3>. HIDE DEF all, a
    <3>2. PICK r \in a.rows : answer' = [NoAnswer EXCEPT !.kind = "row", !.rows = {r}]
      BY <2>2 DEF a
    <3>3. PlainFilters => a.rows = {s \in InIndex(IndexByName(a.via)) : Wanted(s)}
      BY <1>3, <1>4, <3>1, PlanAnswers
    <3>4. PlainFilters => Wanted(r)
      BY <3>2, <3>3
    <3>. QED  BY <1>5, <3>2, <3>4
  <2>. QED  BY <1>10, <2>1, <2>2
<1>. QED  BY <1>2, <1>7, <1>8, <1>9, <1>10

\* Every step keeps the invariant.
LEMMA QueryInvStep == QueryInv /\ [QueryNext]_queryVars => QueryInv'
<1>. SUFFICES ASSUME QueryInv, [QueryNext]_queryVars
              PROVE  QueryInv'
  OBVIOUS
<1>1. CASE \E c \in Wheres : Where(c)
  BY <1>1, WhereKeeps
<1>2. CASE \E c \in Filters : Filter(c) \/ OrFilter(c)
  BY <1>2, FilterKeeps DEF Filter, OrFilter
<1>3. CASE \E logicalOp \in {"AND", "OR"}, group \in FilterGroups : FilterGroup(logicalOp, group)
  BY <1>3, GroupKeeps
<1>4. CASE \E name \in Names : Index(name)
  BY <1>4, IndexKeeps
<1>5. CASE All
  BY <1>5, AllKeeps
<1>6. CASE Scan
  BY <1>6, ScanKeeps
<1>7. CASE First
  BY <1>7, FirstKeeps
<1>8. CASE UNCHANGED queryVars
  <2>1. UNCHANGED <<table, model, where, builder, filtered, asked, index, builderErr>> /\ answer' = answer
    BY <1>8 DEF queryVars
  <2>2. ReturnsMatching
    BY DEF QueryInv
  <2>. QED  BY <2>1, <2>2, AnswerKeeps DEF ReturnsMatching, AnswerMatches
<1>. QED  BY <1>1, <1>2, <1>3, <1>4, <1>5, <1>6, <1>7, <1>8 DEF QueryNext

\* query.go, compileOperation: whatever conditions, filters and index a query is built
\* from, for every table, every set of indexes and every choice of one, a read that
\* succeeds returns exactly the rows of its index that were asked for.
THEOREM QueriesReturnMatching == QuerySpec => []ReturnsMatching
<1>1. QueryInv => ReturnsMatching
  BY DEF QueryInv
<1>. QED  BY <1>1, QueryInvInit, QueryInvStep, PTL DEF QuerySpec
=============================================================================
