--------------------------- MODULE DocumentProofs ---------------------------
(***************************************************************************)
(* What is generated for a test case reads back as what was submitted, for *)
(* any documents, thread groups, writers, faults and interleavings of the  *)
(* calls that write a document's file, form rows and row.                  *)
(*                                                                         *)
(* The invariant says of each call what it has left to do, as a set whose  *)
(* order is that of the ranks of its steps; and of each document that was  *)
(* not spoiled by two calls at once, or by a failure between two commits,  *)
(* that it is whole or has one lone writer, whose steps make it whole.     *)
(***************************************************************************)
EXTENDS JmxDocument, FiniteSetTheorems, TLAPS
-----------------------------------------------------------------------------
(* The document of a test case *)

\* What a call has left to do, as a set.  Its order is that of the ranks.
Left(q) == {q[i] : i \in DOMAIN q}

Rank(s) ==
    CASE s.do = "row" -> 0
      [] s.do = "delete" -> 1
      [] s.do \in {"remove", "edit"} -> 2
      [] s.do = "wipe" -> 3
      [] s.do = "insert" -> 4
      [] s.do = "write" -> 5
      [] OTHER -> 6

Ordered(q) ==
    \A i, j \in DOMAIN q : i < j =>
        /\ Rank(q[i]) <= Rank(q[j])
        /\ q[i] = q[j] => q[i].do = "delete"

BusyWrite ==
    [doc: Doc \cup {0}, todo: Seq(Step) \ {<<>>}, row: DocRow, version: Versions,
     shared: BOOLEAN]

\* What may be left of a call of each kind: of a form, of an upload, of an edit
\* as text, of a deletion.
Forming(M, group) ==
    /\ Do("debug") \in M
    /\ \A s \in M :
        /\ s.do \in {"row", "wipe", "delete", "edit", "insert", "write", "debug"}
        /\ s.do # "debug" => Do("write") \in M
        /\ s.do = "insert" => s.part \in Part \cup {group}
        /\ s.do = "delete" =>
            /\ Insert(s.part) \in M \/ s.part \in GroupType \ {group}
            /\ Do("edit") \in M
        /\ s.do \in {"row", "wipe", "edit"} =>
            \A p \in Part \cup {group} : Insert(p) \in M

Uploading(M) ==
    /\ Do("debug") \in M
    /\ M \subseteq {Do("row"), Do("write"), Do("debug")}
    /\ Do("row") \in M => Do("write") \in M

Editing(M) == Do("refresh") \in M /\ M \subseteq {Do("write"), Do("refresh")}

Removing(M) ==
    /\ Do("remove") \in M /\ Do("wipe") \in M
    /\ \A s \in M : s.do \in {"delete", "remove", "wipe"}

Known(M, row) ==
    \/ M = {Do("wipe")}
    \/ M = {Do("use")}
    \/ Editing(M)
    \/ Removing(M)
    \/ row.kind = "upload" /\ Uploading(M)
    \/ row.kind = "online" /\ Forming(M, row.group)

\* One row of each part and no thread group of another type, of the call that
\* made the file; an uploaded document has no form.
FormWhole(d) ==
    LET g == docs[d].group IN
    IF docs[d].kind = "online"
    THEN \E v \in Versions :
            /\ \A p \in Part : RowsOfPart(d, p) = {RowOf(d, p, v)}
            /\ RowOf(d, g, v) \in RowsOfPart(d, g)
            /\ d \notin kept => RowsOfPart(d, g) = {RowOf(d, g, v)}
            /\ \A h \in GroupType \ {g} : RowsOfPart(d, h) = {}
            /\ d \notin sourced => v = file[docs[d].name]
    ELSE \A r \in formRows : r.doc # d

Good(d) ==
    /\ file[docs[d].name] # 0
    /\ debugCopy[docs[d].name] = file[docs[d].name]
    /\ FormWhole(d)

\* What holds of document d while a call with M left to do is at work on it:
\* an edit as text, a deletion, an upload, a form.
TextUnderWay(d, M, row, v) ==
    /\ row = docs[d]
    /\ \A r \in formRows : r.doc = d => r.version # v
    /\ debugCopy[row.name] # 0
    /\ FormWhole(d)
    /\ Do("write") \notin M => d \in sourced /\ file[row.name] = v

RemovalUnderWay(d, M) == \A r \in formRows : r.doc = d => Delete(r.part) \in M

UploadUnderWay(d, M, row, v) ==
    /\ row = docs[d]
    /\ \A r \in formRows : r.doc # d
    /\ Do("write") \notin M => file[row.name] = v

\* A row of the thread group is the call's own, unless the call keeps the type.
GroupUnderWay(d, M, row, v) ==
    \A r \in formRows : r.doc = d /\ r.part = row.group =>
        \/ r.version = v
        \/ Do("edit") \in M /\ docs[d].group = row.group
        \/ Do("edit") \notin M /\ d \in kept

FormUnderWay(d, M, row, v) ==
    /\ GroupUnderWay(d, M, row, v)
    /\ Do("edit") \notin M => row = docs[d]
    /\ \A r \in formRows : r.doc = d =>
        \/ Delete(r.part) \in M
        \/ r.part \in Part /\ Insert(r.part) \notin M /\ r.version = v
        \/ r.part = row.group
    /\ \A p \in Part \cup {row.group} : Insert(p) \in M \/ RowOf(d, p, v) \in formRows
    /\ Do("write") \notin M => d \notin sourced /\ file[row.name] = v

UnderWay(d, M, row, v) ==
    /\ M # {Do("wipe")}
    /\ M = {Do("use")} => Good(d)
    /\ Do("refresh") \in M => TextUnderWay(d, M, row, v)
    /\ Do("remove") \in M => RemovalUnderWay(d, M)
    /\ Do("debug") \in M /\ row.kind = "upload" => UploadUnderWay(d, M, row, v)
    /\ Do("debug") \in M /\ row.kind = "online" => FormUnderWay(d, M, row, v)

CallOK(w) ==
    LET c == writer[w] IN
    /\ c.version \in 1..docCalls
    /\ Ordered(c.todo) /\ Known(Left(c.todo), c.row)
    /\ Do("row") \in Left(c.todo) <=> c.doc = 0
    /\ ~c.shared => Busy = {w}
    /\ c.shared => Live \subseteq spoiled
    /\ c.doc = 0 /\ ~c.shared => Live = {}
    /\ c.doc # 0 => c.doc \in Live \cup spoiled \/ Left(c.todo) = {Do("wipe")}
    /\ c.doc # 0 => docs[c.doc] # NoDoc

\* A document that nothing spoiled is the only one; it is whole, or one call is
\* at work on it.
DocumentOK(d) ==
    /\ Live = {d}
    /\ Busy = {} => Good(d)
    /\ \A w \in Busy :
        /\ writer[w].doc = d
        /\ UnderWay(d, Left(writer[w].todo), writer[w].row, writer[w].version)

RowsOK ==
    \A r \in formRows :
        /\ r.doc \in Live \cup spoiled /\ r.version \in 1..docCalls
        /\ r = RowOf(r.doc, r.part, r.version)

RestTyped ==
    /\ docs \in [Doc -> DocRow \cup {NoDoc, GoneDoc}]
    /\ formRows \subseteq FormRow
    /\ file \in [FileName -> Versions] /\ debugCopy \in [FileName -> Versions]
    /\ uses \subseteq {"jar", "binding"}
    /\ spoiled \subseteq Doc /\ kept \subseteq Doc /\ sourced \subseteq Doc
    /\ docCalls \in 1..MaxDocCall /\ docFaults \in 0..MaxDocFault

WritersTyped == writer \in [Writer -> BusyWrite \cup {NoWrite}]

DocInv ==
    /\ RestTyped
    /\ WritersTyped
    /\ RowsOK
    /\ \A d \in spoiled : docs[d] # NoDoc
    /\ \A w \in Busy : CallOK(w)
    /\ \A d \in Live \ spoiled : DocumentOK(d)

-----------------------------------------------------------------------------
LEMMA StepsAre ==
  /\ \A s \in Step : s.do \in Steps \cup {"delete", "insert"}
  /\ \A s \in Step : s.do \in Steps => s = Do(s.do)
  /\ \A s \in Step : s.do = "delete" => s = Delete(s.part) /\ s.part \in Part \cup GroupType
  /\ \A s \in Step : s.do = "insert" => s = Insert(s.part) /\ s.part \in Part \cup GroupType
<1>1. ASSUME NEW s \in [do: Steps, part: {""}]
      PROVE  s.do \in Steps /\ s = Do(s.do)
  BY DEF Do
<1>2. ASSUME NEW s \in [do: {"delete", "insert"}, part: Part \cup GroupType]
      PROVE  /\ s.do \in {"delete", "insert"} /\ s.part \in Part \cup GroupType
             /\ s.do = "delete" => s = Delete(s.part)
             /\ s.do = "insert" => s = Insert(s.part)
  BY DEF Delete, Insert
<1>3. "delete" \notin Steps /\ "insert" \notin Steps
  BY DEF Steps
<1> QED
  BY <1>1, <1>2, <1>3 DEF Step

LEMMA StepsAreSteps ==
  /\ \A what \in Steps : Do(what) \in Step
  /\ \A p \in Part \cup GroupType : Delete(p) \in Step /\ Insert(p) \in Step
  BY DEF Step, Do, Delete, Insert

LEMMA StepsDo ==
  /\ \A what : Do(what).do = what
  /\ \A p : Delete(p).do = "delete" /\ Delete(p).part = p
  /\ \A p : Insert(p).do = "insert" /\ Insert(p).part = p
  BY DEF Do, Delete, Insert

LEMMA RowsAre ==
  ASSUME NEW d, NEW p, NEW v
  PROVE  RowOf(d, p, v).doc = d /\ RowOf(d, p, v).part = p /\ RowOf(d, p, v).version = v
  BY DEF RowOf

LEMMA Ranks ==
  ASSUME NEW s \in Step
  PROVE  /\ Rank(s) \in 0..6
         /\ s.do = "row" => Rank(s) = 0
         /\ s.do = "delete" => Rank(s) = 1
         /\ s.do \in {"remove", "edit"} => Rank(s) = 2
         /\ s.do = "wipe" => Rank(s) = 3
         /\ s.do = "insert" => Rank(s) = 4
         /\ s.do = "write" => Rank(s) = 5
         /\ s.do \in {"debug", "refresh", "use"} => Rank(s) = 6
  BY DEF Rank

LEMMA LeftOfRest ==
  ASSUME NEW q \in Seq(Step), q # <<>>
  PROVE  /\ Tail(q) \in Seq(Step) /\ Head(q) \in Step /\ Left(Tail(q)) \subseteq Step
         /\ Left(q) = {Head(q)} \cup Left(Tail(q))
         /\ Len(q) = 1 <=> Left(Tail(q)) = {}
         /\ Tail(q) = <<>> <=> Left(Tail(q)) = {}
<1>1. /\ Tail(q) \in Seq(Step) /\ Len(q) \in Nat /\ Len(q) >= 1
      /\ Len(Tail(q)) = Len(q) - 1 /\ Head(q) = q[1]
      /\ \A k \in 1..Len(q) - 1 : Tail(q)[k] = q[k + 1]
      /\ DOMAIN q = 1..Len(q) /\ DOMAIN Tail(q) = 1..Len(q) - 1
      /\ \A k \in 1..Len(q) : q[k] \in Step
  OBVIOUS
<1>2. ASSUME NEW x \in Left(q) PROVE x = Head(q) \/ x \in Left(Tail(q))
  <2>1. PICK k \in 1..Len(q) : x = q[k]
    BY <1>1, <1>2 DEF Left
  <2>2. CASE k # 1
    <3>1. k - 1 \in 1..Len(q) - 1 /\ x = Tail(q)[k - 1]
      BY <1>1, <2>1, <2>2
    <3> QED
      BY <1>1, <3>1 DEF Left
  <2> QED
    BY <1>1, <2>1, <2>2
<1>3. ASSUME NEW x \in Left(Tail(q)) PROVE x \in Left(q) /\ x \in Step
  <2>1. PICK k \in 1..Len(q) - 1 : x = Tail(q)[k]
    BY <1>1, <1>3 DEF Left
  <2>2. k + 1 \in 1..Len(q) /\ x = q[k + 1]
    BY <1>1, <2>1
  <2> QED
    BY <1>1, <2>2 DEF Left
<1>4. 1 \in 1..Len(q) /\ Head(q) \in Left(q) /\ Head(q) \in Step
  BY <1>1 DEF Left
<1>5. ASSUME Len(q) # 1 PROVE Left(Tail(q)) # {} /\ Tail(q) # <<>>
  <2>1. 1 \in 1..Len(q) - 1
    BY <1>1, <1>5
  <2>2. Tail(q)[1] \in Left(Tail(q))
    BY <1>1, <2>1 DEF Left
  <2>3. Len(Tail(q)) # 0 /\ Len(<<>>) = 0
    BY <1>1, <1>5
  <2>4. Tail(q) # <<>>
    BY <2>3, Zenon
  <2> QED
    BY <2>2, <2>4, Zenon
<1>6. ASSUME Len(q) = 1 PROVE Left(Tail(q)) = {} /\ Tail(q) = <<>>
  <2>1. 1..Len(q) - 1 = {}
    BY <1>6
  <2> QED
    BY <1>1, <1>6, <2>1 DEF Left
<1> QED
  BY <1>1, <1>2, <1>3, <1>4, <1>5, <1>6

LEMMA OrderedRest ==
  ASSUME NEW q \in Seq(Step), q # <<>>, Ordered(q)
  PROVE  /\ Ordered(Tail(q))
         /\ \A s \in Left(Tail(q)) : Rank(Head(q)) <= Rank(s)
         /\ Head(q) \in Left(Tail(q)) => Head(q).do = "delete"
<1>1. /\ Tail(q) \in Seq(Step) /\ Len(q) \in Nat /\ Len(q) >= 1
      /\ Len(Tail(q)) = Len(q) - 1 /\ Head(q) = q[1]
      /\ \A k \in 1..Len(q) - 1 : Tail(q)[k] = q[k + 1]
      /\ DOMAIN q = 1..Len(q) /\ DOMAIN Tail(q) = 1..Len(q) - 1
  OBVIOUS
<1>2. \A i, j \in 1..Len(q) : i < j =>
        /\ Rank(q[i]) <= Rank(q[j])
        /\ q[i] = q[j] => q[i].do = "delete"
  BY <1>1 DEF Ordered
<1>3. Ordered(Tail(q))
  <2> SUFFICES ASSUME NEW i \in 1..Len(q) - 1, NEW j \in 1..Len(q) - 1, i < j
               PROVE  /\ Rank(Tail(q)[i]) <= Rank(Tail(q)[j])
                      /\ Tail(q)[i] = Tail(q)[j] => Tail(q)[i].do = "delete"
    BY <1>1 DEF Ordered
  <2>1. i + 1 \in 1..Len(q) /\ j + 1 \in 1..Len(q) /\ i + 1 < j + 1
    BY <1>1
  <2>2. Tail(q)[i] = q[i + 1] /\ Tail(q)[j] = q[j + 1]
    BY <1>1
  <2> QED
    BY <1>2, <2>1, <2>2
<1>4. ASSUME NEW s \in Left(Tail(q))
      PROVE  Rank(Head(q)) <= Rank(s) /\ (Head(q) = s => Head(q).do = "delete")
  <2>1. PICK k \in 1..Len(q) - 1 : s = Tail(q)[k]
    BY <1>1, <1>4 DEF Left
  <2>2. k + 1 \in 1..Len(q) /\ 1 \in 1..Len(q) /\ 1 < k + 1 /\ s = q[k + 1]
    BY <1>1, <2>1
  <2> QED
    BY <1>1, <1>2, <2>2
<1> QED
  BY <1>3, <1>4

LEMMA LeftOfBoth ==
  ASSUME NEW p \in Seq(Step), NEW q \in Seq(Step)
  PROVE  p \o q \in Seq(Step) /\ Left(p \o q) = Left(p) \cup Left(q)
<1>1. /\ p \o q \in Seq(Step) /\ Len(p) \in Nat /\ Len(q) \in Nat
      /\ Len(p \o q) = Len(p) + Len(q)
      /\ \A k \in 1..Len(p) : (p \o q)[k] = p[k]
      /\ \A k \in 1..Len(q) : (p \o q)[Len(p) + k] = q[k]
      /\ DOMAIN p = 1..Len(p) /\ DOMAIN q = 1..Len(q)
      /\ DOMAIN (p \o q) = 1..Len(p) + Len(q)
      /\ \A k \in 1..Len(p) : p[k] \in Step
      /\ \A k \in 1..Len(q) : q[k] \in Step
  OBVIOUS
<1>2. ASSUME NEW k \in 1..Len(p) + Len(q)
      PROVE  \/ k \in 1..Len(p) /\ (p \o q)[k] = p[k]
             \/ k > Len(p) /\ k - Len(p) \in 1..Len(q) /\ (p \o q)[k] = q[k - Len(p)]
  <2>1. CASE k <= Len(p)
    BY <1>1, <2>1
  <2>2. CASE ~(k <= Len(p))
    <3>1. k - Len(p) \in 1..Len(q) /\ Len(p) + (k - Len(p)) = k /\ k > Len(p)
      BY <1>1, <2>2
    <3>2. (p \o q)[k] = q[k - Len(p)]
      BY <1>1, <3>1
    <3> QED
      BY <3>1, <3>2
  <2> QED
    BY <2>1, <2>2
<1>3. ASSUME NEW k \in 1..Len(q) PROVE Len(p) + k \in 1..Len(p) + Len(q)
  BY <1>1
<1>4. ASSUME NEW k \in 1..Len(p) PROVE k \in 1..Len(p) + Len(q)
  BY <1>1
<1>5. Left(p \o q) = Left(p) \cup Left(q)
  <2>1. ASSUME NEW x \in Left(p \o q) PROVE x \in Left(p) \cup Left(q)
    <3>1. PICK k \in 1..Len(p) + Len(q) : x = (p \o q)[k]
      BY <1>1, <2>1 DEF Left
    <3> QED
      BY <1>1, <1>2, <3>1 DEF Left
  <2>2. ASSUME NEW x \in Left(p) PROVE x \in Left(p \o q)
    <3>1. PICK k \in 1..Len(p) : x = p[k]
      BY <1>1, <2>2 DEF Left
    <3>2. x = (p \o q)[k] /\ k \in 1..Len(p) + Len(q)
      BY <1>1, <1>4, <3>1
    <3> QED
      BY <1>1, <3>2 DEF Left
  <2>3. ASSUME NEW x \in Left(q) PROVE x \in Left(p \o q)
    <3>1. PICK k \in 1..Len(q) : x = q[k]
      BY <1>1, <2>3 DEF Left
    <3>2. x = (p \o q)[Len(p) + k] /\ Len(p) + k \in 1..Len(p) + Len(q)
      BY <1>1, <1>3, <3>1
    <3> QED
      BY <1>1, <3>2 DEF Left
  <2> QED
    BY <2>1, <2>2, <2>3
<1> QED
  BY <1>1, <1>5

(* What is done before what: by rank, and two deletes in either order.      *)
Before(s, t) ==
  \/ Rank(s) < Rank(t)
  \/ /\ s.do = "delete"
     /\ t.do = "delete"

\* One list after another whose steps come later.
LEMMA OrderedBoth ==
  ASSUME NEW p \in Seq(Step), NEW q \in Seq(Step), Ordered(p), Ordered(q),
         \A s \in Left(p), t \in Left(q) : Before(s, t)
  PROVE  /\ p \o q \in Seq(Step) /\ Ordered(p \o q)
         /\ Left(p \o q) = Left(p) \cup Left(q)
<1>1. /\ p \o q \in Seq(Step) /\ Len(p) \in Nat /\ Len(q) \in Nat
      /\ Len(p \o q) = Len(p) + Len(q)
      /\ \A k \in 1..Len(p) : (p \o q)[k] = p[k]
      /\ \A k \in 1..Len(q) : (p \o q)[Len(p) + k] = q[k]
      /\ DOMAIN p = 1..Len(p) /\ DOMAIN q = 1..Len(q)
      /\ DOMAIN (p \o q) = 1..Len(p) + Len(q)
      /\ \A k \in 1..Len(p) : p[k] \in Step
      /\ \A k \in 1..Len(q) : q[k] \in Step
  OBVIOUS
<1>2. ASSUME NEW k \in 1..Len(p) + Len(q)
      PROVE  \/ k \in 1..Len(p) /\ (p \o q)[k] = p[k]
             \/ k > Len(p) /\ k - Len(p) \in 1..Len(q) /\ (p \o q)[k] = q[k - Len(p)]
  <2>1. CASE k <= Len(p)
    BY <1>1, <2>1
  <2>2. CASE ~(k <= Len(p))
    <3>1. k - Len(p) \in 1..Len(q) /\ Len(p) + (k - Len(p)) = k /\ k > Len(p)
      BY <1>1, <2>2
    <3>2. (p \o q)[k] = q[k - Len(p)]
      BY <1>1, <3>1
    <3> QED
      BY <3>1, <3>2
  <2> QED
    BY <2>1, <2>2
<1>6. Ordered(p \o q)
  <2> DEFINE u == p \o q
  <2> SUFFICES ASSUME NEW i \in 1..Len(p) + Len(q), NEW j \in 1..Len(p) + Len(q), i < j
               PROVE  /\ Rank(u[i]) <= Rank(u[j])
                      /\ u[i] = u[j] => u[i].do = "delete"
    BY <1>1 DEF Ordered
  <2>1. CASE i \in 1..Len(p) /\ u[i] = p[i] /\ j \in 1..Len(p) /\ u[j] = p[j]
    BY <1>1, <2>1 DEF Ordered
  <2>2. CASE /\ i \in 1..Len(p) /\ u[i] = p[i]
             /\ j > Len(p) /\ j - Len(p) \in 1..Len(q) /\ u[j] = q[j - Len(p)]
    <3>1. u[i] \in Left(p) /\ u[j] \in Left(q) /\ u[i] \in Step /\ u[j] \in Step
      BY <1>1, <2>2 DEF Left
    <3>2. Before(u[i], u[j])
      BY <3>1
    <3>3. ASSUME NEW a \in Step, NEW b \in Step, Before(a, b)
          PROVE  Rank(a) <= Rank(b) /\ (a = b => a.do = "delete")
      BY <3>3, Ranks DEF Before
    <3> QED
      BY <3>1, <3>2, <3>3
  <2>3. CASE /\ i > Len(p) /\ i - Len(p) \in 1..Len(q) /\ u[i] = q[i - Len(p)]
             /\ j > Len(p) /\ j - Len(p) \in 1..Len(q) /\ u[j] = q[j - Len(p)]
    <3>1. i - Len(p) < j - Len(p)
      BY <1>1
    <3>2. \A m, n \in 1..Len(q) : m < n =>
            /\ Rank(q[m]) <= Rank(q[n])
            /\ q[m] = q[n] => q[m].do = "delete"
      BY <1>1 DEF Ordered
    <3> QED
      BY <2>3, <3>1, <3>2
  <2>4. ~(i > Len(p) /\ j \in 1..Len(p))
    BY <1>1
  <2> QED
    BY <1>2, <2>1, <2>2, <2>3, <2>4
<1> QED
  BY <1>6, LeftOfBoth

LEMMA OrderedThen ==
  ASSUME NEW p \in Seq(Step), NEW q \in Seq(Step), Ordered(p), Ordered(q),
         \A s \in Left(p), t \in Left(q) : Rank(s) < Rank(t)
  PROVE  /\ p \o q \in Seq(Step) /\ Ordered(p \o q)
         /\ Left(p \o q) = Left(p) \cup Left(q)
<1>1. \A s \in Left(p), t \in Left(q) : Before(s, t)
  BY DEF Before
<1> QED
  BY <1>1, OrderedBoth

LEMMA OrderedOne ==
  ASSUME NEW a \in Step
  PROVE  <<a>> \in Seq(Step) /\ Ordered(<<a>>) /\ Left(<<a>>) = {a}
<1>1. DOMAIN <<a>> = {1} /\ <<a>>[1] = a /\ <<a>> \in Seq(Step)
  OBVIOUS
<1> QED
  BY <1>1 DEF Ordered, Left

LEMMA OrderedTwo ==
  ASSUME NEW a \in Step, NEW b \in Step, Rank(a) < Rank(b)
  PROVE  <<a, b>> \in Seq(Step) /\ Ordered(<<a, b>>) /\ Left(<<a, b>>) = {a, b}
<1>1. /\ DOMAIN <<a, b>> = {1, 2} /\ <<a, b>>[1] = a /\ <<a, b>>[2] = b
      /\ <<a, b>> \in Seq(Step)
  OBVIOUS
<1>2. Rank(a) <= Rank(b) /\ a # b
  BY Ranks
<1> QED
  BY <1>1, <1>2 DEF Ordered, Left

LEMMA DeletesAreOrdered ==
  ASSUME NEW q \in Seq(Step), \A i \in DOMAIN q : q[i].do = "delete"
  PROVE  Ordered(q)
<1>1. \A i \in DOMAIN q : Rank(q[i]) = 1
  BY DEF Rank
<1> QED
  BY <1>1 DEF Ordered

LEMMA FormStepsLeft ==
  ASSUME NEW g \in GroupType
  PROVE  /\ FormSteps(g) \in Seq(Step) /\ FormSteps(g) # <<>>
         /\ Ordered(FormSteps(g))
         /\ Left(FormSteps(g)) =
              {Insert(p) : p \in Part \cup {g}} \cup {Do("write"), Do("debug")}
<1> DEFINE a == Insert(g) b == Insert("sample") c == Insert("assertion") d == Insert("csv")
           u == Do("write") v == Do("debug")
           q == <<a, b, c, d>>
<1>1. /\ a \in Step /\ b \in Step /\ c \in Step /\ d \in Step /\ u \in Step /\ v \in Step
      /\ a.do = "insert" /\ b.do = "insert" /\ c.do = "insert" /\ d.do = "insert"
      /\ a.part = g /\ b.part = "sample" /\ c.part = "assertion" /\ d.part = "csv"
      /\ u.do = "write" /\ v.do = "debug"
  BY StepsAreSteps, StepsDo DEF Part, Steps
<1>2. a # b /\ a # c /\ a # d
  BY <1>1, DocAssumption DEF Part
<1>3. b # c /\ b # d /\ c # d
  BY <1>1
<1>4. /\ Rank(a) = 4 /\ Rank(b) = 4 /\ Rank(c) = 4 /\ Rank(d) = 4
      /\ Rank(u) = 5 /\ Rank(v) = 6
  BY <1>1, Ranks
<1>5. {Insert(p) : p \in Part \cup {g}} = {a, b, c, d}
  BY DEF Part
<1>6. FormSteps(g) = q \o <<u, v>>
  BY DEF FormSteps
<1>7. FormSteps(g) # <<>>
  BY DEF FormSteps
<1> HIDE DEF a, b, c, d, u, v
<1>8. /\ DOMAIN q = 1..4 /\ q[1] = a /\ q[2] = b /\ q[3] = c /\ q[4] = d
      /\ q \in Seq(Step)
  BY <1>1
<1> HIDE DEF q
<1>9. Left(q) = {a, b, c, d}
  BY <1>8 DEF Left
<1>10. Ordered(q)
  BY <1>2, <1>3, <1>4, <1>8 DEF Ordered
<1>11. /\ <<u, v>> \in Seq(Step) /\ Ordered(<<u, v>>) /\ Left(<<u, v>>) = {u, v}
  BY <1>1, <1>4, OrderedTwo
<1>12. \A s \in Left(q), t \in Left(<<u, v>>) : Rank(s) < Rank(t)
  BY <1>4, <1>9, <1>11
<1>13. /\ q \o <<u, v>> \in Seq(Step) /\ Ordered(q \o <<u, v>>)
       /\ Left(q \o <<u, v>>) = Left(q) \cup Left(<<u, v>>)
  BY <1>8, <1>10, <1>11, <1>12, OrderedThen
<1> QED
  BY <1>5, <1>6, <1>7, <1>9, <1>11, <1>13 DEF a, b, c, d, u, v

\* The types of thread group can be listed, so a deletion reaches every table.
LEMMA CascadeLeft ==
  /\ CascadeDelete \in Seq(Step) /\ Ordered(CascadeDelete)
  /\ Left(CascadeDelete) = {Delete(p) : p \in Part \cup GroupType}
<1> DEFINE n == Cardinality(GroupType)
           Lists(s) == s \in [1..n -> GroupType] /\ {s[i] : i \in DOMAIN s} = GroupType
           Groups == CHOOSE s \in [1..n -> GroupType] : {s[i] : i \in DOMAIN s} = GroupType
           p == [i \in DOMAIN Groups |-> Delete(Groups[i])]
           q == <<Delete("sample"), Delete("assertion"), Delete("csv")>>
<1>1. n \in Nat /\ ExistsBijection(1..n, GroupType)
  BY DocAssumption, FS_CardinalityType
<1>2. PICK f : f \in Bijection(1..n, GroupType)
  BY <1>1 DEF ExistsBijection
<1>3. /\ f \in [1..n -> GroupType]
      /\ \A g \in GroupType : \E i \in 1..n : f[i] = g
  BY <1>2 DEF Bijection, Injection, Surjection
<1>4. {f[i] : i \in DOMAIN f} = GroupType
  BY <1>3
<1>5. Groups \in [1..n -> GroupType] /\ {Groups[i] : i \in DOMAIN Groups} = GroupType
  BY <1>3, <1>4, ZenonT(40)
<1>6. CascadeDelete = p \o q
  BY DEF CascadeDelete
<1> HIDE DEF Groups, n
<1>7. /\ DOMAIN p = 1..n /\ \A i \in 1..n : p[i] = Delete(Groups[i]) /\ p[i] \in Step
  BY <1>5, StepsAreSteps
<1>8. p \in Seq(Step)
  BY <1>1, <1>7
<1>9. Left(p) = {Delete(g) : g \in GroupType}
  <2>1. Left(p) = {Delete(Groups[i]) : i \in 1..n}
    BY <1>7 DEF Left
  <2>2. DOMAIN Groups = 1..n
    BY <1>5
  <2> QED
    BY <1>5, <2>1, <2>2
<1>10. /\ q \in Seq(Step) /\ DOMAIN q = 1..3
       /\ q[1] = Delete("sample") /\ q[2] = Delete("assertion") /\ q[3] = Delete("csv")
  BY StepsAreSteps DEF Part
<1>11. Left(q) = {Delete(x) : x \in Part}
  BY <1>10 DEF Left, Part
<1> HIDE DEF p, q
<1>12. p \o q \in Seq(Step) /\ Left(p \o q) = Left(p) \cup Left(q)
  BY <1>8, <1>10, LeftOfBoth
<1>13. \A i \in DOMAIN (p \o q) : (p \o q)[i].do = "delete"
  <2> SUFFICES ASSUME NEW i \in DOMAIN (p \o q) PROVE (p \o q)[i].do = "delete"
    OBVIOUS
  <2>1. (p \o q)[i] \in Left(p \o q)
    BY DEF Left
  <2>2. PICK x \in Part \cup GroupType : (p \o q)[i] = Delete(x)
    BY <1>9, <1>11, <1>12, <2>1
  <2> QED
    BY <2>2, StepsDo
<1>14. Ordered(p \o q)
  BY <1>12, <1>13, DeletesAreOrdered
<1> QED
  BY <1>6, <1>9, <1>11, <1>12, <1>14

-----------------------------------------------------------------------------
\* The first step of M and those after it.
Takes(M, h, N) ==
    /\ h \in Step /\ N \subseteq Step
    /\ M = {h} \cup N
    /\ \A s \in N : Rank(h) <= Rank(s)
    /\ h \in N => h.do = "delete"

LEMMA Taken ==
  ASSUME NEW q \in Seq(Step), q # <<>>, Ordered(q)
  PROVE  Takes(Left(q), Head(q), Left(Tail(q))) /\ Ordered(Tail(q))
  BY LeftOfRest, OrderedRest DEF Takes

\* The steps after one of a given kind.
LEMMA After ==
  ASSUME NEW M, NEW h, NEW N, Takes(M, h, N), NEW s \in N
  PROVE  /\ s \in Step /\ s \in M
         /\ s.do \in Steps \cup {"delete", "insert"}
         /\ h.do # "delete" => s # h
         /\ h.do \in {"remove", "edit"} => s.do \notin {"row", "delete"}
         /\ h.do = "wipe" => s.do \notin {"row", "delete", "remove", "edit"}
         /\ h.do = "insert" => s.do \notin {"row", "delete", "remove", "edit", "wipe"}
         /\ h.do = "write" => s.do \in {"write", "debug", "refresh", "use"}
         /\ h.do \in {"debug", "refresh", "use"} => s.do \in {"debug", "refresh", "use"}
<1>1. /\ s \in Step /\ h \in Step /\ Rank(h) <= Rank(s) /\ s \in M
      /\ s = h => h.do = "delete"
  BY DEF Takes
<1>2. s.do \in Steps \cup {"delete", "insert"}
  BY <1>1, StepsAre
<1>3. Rank(s) \in 0..6 /\ Rank(h) \in 0..6
  BY <1>1, Ranks
<1>4. ASSUME h.do \in {"remove", "edit"} PROVE s.do \notin {"row", "delete"}
  BY <1>1, <1>3, <1>4, Ranks
<1>5. ASSUME h.do = "wipe" PROVE s.do \notin {"row", "delete", "remove", "edit"}
  BY <1>1, <1>3, <1>5, Ranks
<1>6. ASSUME h.do = "insert"
      PROVE  s.do \notin {"row", "delete", "remove", "edit", "wipe"}
  BY <1>1, <1>3, <1>6, Ranks
<1>7. ASSUME h.do = "write" PROVE s.do \in {"write", "debug", "refresh", "use"}
  BY <1>1, <1>2, <1>3, <1>7, Ranks DEF Steps
<1>8. ASSUME h.do \in {"debug", "refresh", "use"}
      PROVE  s.do \in {"debug", "refresh", "use"}
  BY <1>1, <1>2, <1>3, <1>8, Ranks DEF Steps
<1> QED
  BY <1>1, <1>2, <1>4, <1>5, <1>6, <1>7, <1>8

LEMMA FormingRest ==
  ASSUME NEW M, NEW h, NEW N, NEW g, Takes(M, h, N), N # {}, Forming(M, g)
  PROVE  Forming(N, g)
<1>1. /\ h \in Step /\ h \in M /\ N \subseteq M /\ N \subseteq Step
      /\ \A x \in M : x = h \/ x \in N
  BY DEF Takes
<1>2. PICK s \in N : TRUE
  OBVIOUS
<1>3. /\ Do("write").do = "write" /\ Do("debug").do = "debug" /\ Do("edit").do = "edit"
      /\ \A p : Insert(p).do = "insert"
  BY StepsDo
<1>4. h.do # "debug"
  <2>1. SUFFICES ASSUME h.do = "debug" PROVE FALSE
    OBVIOUS
  <2>2. s \in Step /\ s # h /\ s.do = "debug"
    BY <1>1, <1>2, <2>1, After DEF Forming
  <2> QED
    BY <1>1, <2>1, <2>2, StepsAre DEF Steps
<1>5. Do("debug") \in N
  BY <1>1, <1>3, <1>4 DEF Forming
<1>6. ASSUME NEW x \in N, x.do # "debug" PROVE Do("write") \in N
  <2>1. Do("write") \in M
    BY <1>1, <1>6 DEF Forming
  <2>2. ASSUME h = Do("write") PROVE FALSE
    <3>1. x.do = "write" /\ x \in Step /\ x # h
      BY <1>1, <1>3, <1>6, <2>2, After DEF Forming
    <3> QED
      BY <2>2, <3>1, StepsAre DEF Steps
  <2> QED
    BY <1>1, <2>1, <2>2
<1>7. ASSUME NEW x \in N, x.do = "delete"
      PROVE  /\ Insert(x.part) \in N \/ x.part \in GroupType \ {g}
             /\ Do("edit") \in N
  <2>1. h.do \notin {"insert", "edit"}
    BY <1>7, After
  <2> QED
    BY <1>1, <1>3, <1>7, <2>1 DEF Forming
<1>8. ASSUME NEW x \in N, x.do \in {"row", "wipe", "edit"},
             NEW p \in Part \cup {g}
      PROVE  Insert(p) \in N
  <2>1. h.do # "insert"
    BY <1>8, After
  <2> QED
    BY <1>1, <1>3, <1>8, <2>1 DEF Forming
<1>9. \A x \in N :
        /\ x.do \in {"row", "wipe", "delete", "edit", "insert", "write", "debug"}
        /\ x.do = "insert" => x.part \in Part \cup {g}
  BY <1>1 DEF Forming
<1> QED
  BY <1>5, <1>6, <1>7, <1>8, <1>9 DEF Forming

LEMMA KnownRest ==
  ASSUME NEW M, NEW h, NEW N, NEW row, Takes(M, h, N), N # {}, Known(M, row)
  PROVE  Known(N, row)
<1>1. /\ h \in Step /\ h \in M /\ N \subseteq M /\ N \subseteq Step
      /\ \A x \in M : x = h \/ x \in N
  BY DEF Takes
<1>2. PICK s \in N : TRUE
  OBVIOUS
<1>3. /\ Do("wipe").do = "wipe" /\ Do("use").do = "use" /\ Do("refresh").do = "refresh"
      /\ Do("write").do = "write" /\ Do("debug").do = "debug"
      /\ Do("remove").do = "remove" /\ Do("row").do = "row" /\ Do("edit").do = "edit"
      /\ \A p : Insert(p).do = "insert"
  BY StepsDo
<1>4. ~(M = {Do("wipe")} \/ M = {Do("use")})
  BY <1>1, <1>2, <1>3, After
<1>5. CASE Editing(M)
  <2>1. h \in {Do("write"), Do("refresh")}
    BY <1>1, <1>5 DEF Editing
  <2>2. h # Do("refresh")
    BY <1>1, <1>2, <1>3, <1>5, After DEF Editing
  <2>3. Do("refresh") \in N
    BY <1>1, <1>5, <2>2 DEF Editing
  <2> QED
    BY <1>1, <1>5, <2>3 DEF Editing, Known
<1>6. CASE Removing(M)
  <2>1. ASSUME h.do = "wipe" PROVE FALSE
    <3>1. s.do \in {"delete", "remove", "wipe"} /\ s \in Step /\ s # h
      BY <1>1, <1>2, <1>3, <1>6, <2>1, After DEF Removing
    <3>2. s.do = "wipe"
      BY <1>2, <2>1, <3>1, After
    <3>3. s = Do("wipe") /\ h = Do("wipe")
      BY <1>1, <2>1, <3>1, <3>2, StepsAre DEF Steps
    <3> QED
      BY <3>1, <3>3
  <2>2. Do("wipe") \in N
    BY <1>1, <1>3, <1>6, <2>1 DEF Removing
  <2>3. CASE h.do = "delete"
    BY <1>1, <1>3, <1>6, <2>2, <2>3 DEF Removing, Known
  <2>4. CASE h.do = "remove"
    <3>1. h = Do("remove")
      BY <1>1, <2>4, StepsAre DEF Steps
    <3>2. ASSUME NEW x \in N PROVE x = Do("wipe")
      <4>1. x \in Step /\ x # h /\ x.do \in {"delete", "remove", "wipe"} /\ x.do # "delete"
        BY <1>1, <1>6, <2>4, After DEF Removing
      <4>2. x.do # "remove"
        BY <3>1, <4>1, StepsAre DEF Steps
      <4> QED
        BY <4>1, <4>2, StepsAre DEF Steps
    <3> QED
      BY <2>2, <3>2 DEF Known
  <2> QED
    BY <1>1, <1>6, <2>1, <2>3, <2>4 DEF Removing
<1>7. CASE row.kind = "upload" /\ Uploading(M)
  <2>1. h # Do("debug")
    BY <1>1, <1>2, <1>3, <1>7, After DEF Uploading
  <2>2. Do("row") \notin N
    <3>1. SUFFICES ASSUME Do("row") \in N PROVE FALSE
      OBVIOUS
    <3>2. h # Do("row") /\ h # Do("write")
      BY <1>1, <1>3, <3>1, After
    <3> QED
      BY <1>1, <1>7, <2>1, <3>2 DEF Uploading
  <2> QED
    BY <1>1, <1>7, <2>1, <2>2 DEF Uploading, Known
<1>8. CASE row.kind = "online" /\ Forming(M, row.group)
  BY <1>8, FormingRest DEF Known
<1> QED
  BY <1>4, <1>5, <1>6, <1>7, <1>8 DEF Known

\* The kinds of call exclude one another.
LEMMA Kinds ==
  ASSUME NEW M
  PROVE  /\ Editing(M) =>
              /\ Do("refresh") \in M /\ Do("remove") \notin M /\ Do("debug") \notin M
              /\ M # {Do("wipe")} /\ M # {Do("use")}
         /\ Removing(M) =>
              /\ Do("remove") \in M /\ Do("refresh") \notin M /\ Do("debug") \notin M
              /\ M # {Do("wipe")} /\ M # {Do("use")}
         /\ Uploading(M) =>
              /\ Do("debug") \in M /\ Do("refresh") \notin M /\ Do("remove") \notin M
              /\ M # {Do("wipe")} /\ M # {Do("use")}
         /\ \A g : Forming(M, g) =>
              /\ Do("debug") \in M /\ Do("refresh") \notin M /\ Do("remove") \notin M
              /\ M # {Do("wipe")} /\ M # {Do("use")}
<1>1. /\ Do("wipe").do = "wipe" /\ Do("use").do = "use" /\ Do("refresh").do = "refresh"
      /\ Do("write").do = "write" /\ Do("debug").do = "debug"
      /\ Do("remove").do = "remove" /\ Do("row").do = "row"
  BY StepsDo
<1>2. Editing(M) =>
        /\ Do("refresh") \in M /\ Do("remove") \notin M /\ Do("debug") \notin M
        /\ M # {Do("wipe")} /\ M # {Do("use")}
  BY <1>1 DEF Editing
<1>3. Removing(M) =>
        /\ Do("remove") \in M /\ Do("refresh") \notin M /\ Do("debug") \notin M
        /\ M # {Do("wipe")} /\ M # {Do("use")}
  BY <1>1 DEF Removing
<1>4. Uploading(M) =>
        /\ Do("debug") \in M /\ Do("refresh") \notin M /\ Do("remove") \notin M
        /\ M # {Do("wipe")} /\ M # {Do("use")}
  BY <1>1 DEF Uploading
<1>5. ASSUME NEW g, Forming(M, g)
      PROVE  /\ Do("debug") \in M /\ Do("refresh") \notin M /\ Do("remove") \notin M
             /\ M # {Do("wipe")} /\ M # {Do("use")}
  BY <1>1, <1>5 DEF Forming
<1> QED
  BY <1>2, <1>3, <1>4, <1>5

\* Whose step a step is.
LEMMA StepsOf ==
  ASSUME NEW M, NEW row, Known(M, row), NEW h \in M, h \in Step
  PROVE  /\ h.do = "edit" => row.kind = "online" /\ Forming(M, row.group)
         /\ h.do = "insert" => row.kind = "online" /\ Forming(M, row.group)
         /\ h.do = "delete" =>
              \/ row.kind = "online" /\ Forming(M, row.group)
              \/ Removing(M)
         /\ h.do = "remove" => Removing(M)
         /\ h.do = "wipe" =>
              \/ row.kind = "online" /\ Forming(M, row.group)
              \/ Removing(M)
              \/ M = {Do("wipe")}
         /\ h.do = "row" =>
              \/ row.kind = "upload" /\ Uploading(M)
              \/ row.kind = "online" /\ Forming(M, row.group)
         /\ h.do = "write" =>
              \/ row.kind = "upload" /\ Uploading(M)
              \/ row.kind = "online" /\ Forming(M, row.group)
              \/ Editing(M)
         /\ h.do = "debug" =>
              \/ row.kind = "upload" /\ Uploading(M)
              \/ row.kind = "online" /\ Forming(M, row.group)
         /\ h.do = "refresh" => Editing(M)
         /\ h.do = "use" => M = {Do("use")}
<1>1. /\ Do("wipe").do = "wipe" /\ Do("use").do = "use" /\ Do("refresh").do = "refresh"
      /\ Do("write").do = "write" /\ Do("debug").do = "debug"
      /\ Do("remove").do = "remove" /\ Do("row").do = "row"
  BY StepsDo
<1>2. CASE M = {Do("wipe")} \/ M = {Do("use")}
  BY <1>1, <1>2
<1>3. CASE Editing(M)
  BY <1>1, <1>3 DEF Editing
<1>4. CASE Removing(M)
  BY <1>1, <1>4 DEF Removing
<1>5. CASE row.kind = "upload" /\ Uploading(M)
  BY <1>1, <1>5 DEF Uploading
<1>6. CASE row.kind = "online" /\ Forming(M, row.group)
  BY <1>1, <1>6 DEF Forming
<1> QED
  BY <1>2, <1>3, <1>4, <1>5, <1>6 DEF Known

-----------------------------------------------------------------------------
(* The steps of a call that nobody overlaps, on a document nothing spoiled *)

AtWork(d, M, h, N, row, v) ==
    /\ d \in Doc /\ docs[d] \in DocRow /\ row \in DocRow /\ v \in Versions \ {0}
    /\ Takes(M, h, N) /\ Known(M, row) /\ UnderWay(d, M, row, v)

Progress(d, N, row, v) == IF N = {} THEN Good(d) ELSE UnderWay(d, N, row, v)

\* What is left when h is taken, step by step.
Rest(M, h, N) ==
    /\ h \in Step /\ h \in M /\ N \subseteq M /\ N \subseteq Step
    /\ \A x \in M : x = h \/ x \in N
    /\ h.do # "delete" => h \notin N
    /\ h.do \in Steps => h = Do(h.do)
    /\ h.do # "delete" => \A p : Delete(p) \in M <=> Delete(p) \in N
    /\ h.do # "insert" => \A p : Insert(p) \in M <=> Insert(p) \in N
    /\ \A what : h.do # what => (Do(what) \in M <=> Do(what) \in N)

LEMMA AtWorkRest ==
  ASSUME NEW d, NEW M, NEW h, NEW N, NEW row, NEW v, AtWork(d, M, h, N, row, v)
  PROVE  Rest(M, h, N)
<1>1. /\ h \in Step /\ h \in M /\ N \subseteq M /\ N \subseteq Step
      /\ \A x \in M : x = h \/ x \in N
      /\ h.do # "delete" => h \notin N
      /\ h.do \in Steps => h = Do(h.do)
  BY StepsAre DEF AtWork, Takes
<1>2. ASSUME NEW x, x # h PROVE x \in M <=> x \in N
  BY <1>1, <1>2
<1>3. /\ h.do # "delete" => \A p : Delete(p) # h
      /\ h.do # "insert" => \A p : Insert(p) # h
      /\ \A what : h.do # what => Do(what) # h
  BY StepsDo
<1> QED
  BY <1>1, <1>2, <1>3 DEF Rest

LEMMA AtWorkMode ==
  ASSUME NEW d, NEW M, NEW h, NEW N, NEW row, NEW v, AtWork(d, M, h, N, row, v)
  PROVE  /\ Known(M, row) /\ UnderWay(d, M, row, v)
         /\ M # {Do("wipe")}
         /\ M = {Do("use")} => Good(d)
         /\ Editing(M) => TextUnderWay(d, M, row, v)
         /\ Removing(M) => RemovalUnderWay(d, M)
         /\ row.kind = "upload" /\ Uploading(M) => UploadUnderWay(d, M, row, v)
         /\ row.kind = "online" /\ Forming(M, row.group) => FormUnderWay(d, M, row, v)
<1>1. Known(M, row) /\ UnderWay(d, M, row, v)
  BY DEF AtWork
<1> QED
  BY <1>1, Kinds DEF UnderWay

LEMMA EditProgress ==
  ASSUME NEW d, NEW M, NEW h, NEW N, NEW row, NEW v, AtWork(d, M, h, N, row, v),
         h.do = "edit", docs \in [Doc -> DocRow \cup {NoDoc, GoneDoc}],
         docs' = [docs EXCEPT ![d] = row],
         kept' = IF docs[d].group = row.group THEN kept \cup {d} ELSE kept \ {d},
         UNCHANGED <<formRows, file, debugCopy, sourced>>
  PROVE  Progress(d, N, row, v)'
<1>1. Rest(M, h, N)
  BY AtWorkRest
<1>2. row.kind = "online" /\ Forming(M, row.group) /\ FormUnderWay(d, M, row, v)
  BY <1>1, AtWorkMode, StepsOf DEF Rest
<1>3. N # {}
  BY <1>1, <1>2, StepsDo DEF Rest, Forming
<1>4. Forming(N, row.group)
  BY <1>2, <1>3, FormingRest DEF AtWork
<1>5. docs'[d] = row
  BY DEF AtWork
<1>6. GroupUnderWay(d, N, row, v)'
  <2>1. Do("edit") \in M /\ Do("edit") \notin N
    BY <1>1 DEF Rest, Steps
  <2> QED
    BY <1>2, <2>1 DEF FormUnderWay, GroupUnderWay
<1>7. FormUnderWay(d, N, row, v)'
  BY <1>1, <1>2, <1>5, <1>6 DEF FormUnderWay, Rest, Steps
<1> QED
  BY <1>2, <1>3, <1>4, <1>7, Kinds DEF Progress, UnderWay

LEMMA DeleteProgress ==
  ASSUME NEW d, NEW M, NEW h, NEW N, NEW row, NEW v, AtWork(d, M, h, N, row, v),
         h.do = "delete",
         formRows' = {r \in formRows : r.doc # d \/ r.part # h.part},
         UNCHANGED <<docs, file, debugCopy, kept, sourced>>
  PROVE  Progress(d, N, row, v)'
<1>1. Rest(M, h, N) /\ h = Delete(h.part)
  BY AtWorkRest, StepsAre DEF Rest
<1>2. ASSUME NEW r \in formRows', r.doc = d, Delete(r.part) \in M
      PROVE  Delete(r.part) \in N
  <2>1. Delete(r.part) # h
    BY <1>2, StepsDo
  <2> QED
    BY <1>1, <1>2, <2>1 DEF Rest
<1>3. CASE row.kind = "online" /\ Forming(M, row.group)
  <2>1. FormUnderWay(d, M, row, v)
    BY <1>3, AtWorkMode
  <2>2. N # {}
    BY <1>1, <1>3, StepsDo DEF Rest, Forming
  <2>3. Forming(N, row.group)
    BY <1>3, <2>2, FormingRest DEF AtWork
  <2>4. \/ Insert(h.part) \in M
        \/ h.part \in GroupType \ {row.group}
    BY <1>1, <1>3 DEF Rest, Forming
  <2>5. ASSUME NEW p \in Part \cup {row.group}
        PROVE  Insert(p) \in N \/ RowOf(d, p, v) \in formRows'
    <3>1. RowOf(d, p, v).part = p
      BY DEF RowOf
    <3>2. CASE p = h.part
      <4>1. p \notin GroupType \ {row.group}
        BY DocAssumption
      <4> QED
        BY <1>1, <2>4, <3>2, <4>1 DEF Rest
    <3>3. CASE p # h.part
      BY <1>1, <2>1, <3>1, <3>3 DEF Rest, FormUnderWay
    <3> QED
      BY <3>2, <3>3
  <2>6. Do("edit") \notin N => row = docs'[d]
    BY <1>1, <2>1 DEF FormUnderWay, Rest
  <2>7. Do("write") \notin N => d \notin sourced' /\ file'[row.name] = v
    BY <1>1, <2>1 DEF FormUnderWay, Rest
  <2>8. ASSUME NEW r \in formRows', r.doc = d
        PROVE  \/ Delete(r.part) \in N
               \/ r.part \in Part /\ Insert(r.part) \notin N /\ r.version = v
               \/ r.part = row.group
    BY <1>1, <1>2, <2>1, <2>8 DEF FormUnderWay, Rest
  <2>9. GroupUnderWay(d, N, row, v)'
    <3>1. Do("edit") \in M <=> Do("edit") \in N
      BY <1>1 DEF Rest
    <3> QED
      BY <2>1, <3>1 DEF FormUnderWay, GroupUnderWay
  <2>10. FormUnderWay(d, N, row, v)'
    BY <2>5, <2>6, <2>7, <2>8, <2>9 DEF FormUnderWay
  <2> QED
    BY <1>3, <2>2, <2>3, <2>10, Kinds DEF Progress, UnderWay
<1>4. CASE Removing(M)
  <2>1. RemovalUnderWay(d, M)
    BY <1>4, AtWorkMode
  <2>2. Do("remove") \in N /\ N # {Do("use")} /\ N # {Do("wipe")}
        /\ Do("debug") \notin N /\ Do("refresh") \notin N
    BY <1>1, <1>4, Kinds, StepsDo DEF Rest
  <2>3. RemovalUnderWay(d, N)'
    BY <1>2, <2>1 DEF RemovalUnderWay
  <2> QED
    BY <2>2, <2>3 DEF Progress, UnderWay
<1> QED
  BY <1>1, <1>3, <1>4, AtWorkMode, StepsOf DEF Rest

LEMMA InsertProgress ==
  ASSUME NEW d, NEW M, NEW h, NEW N, NEW row, NEW v, AtWork(d, M, h, N, row, v),
         h.do = "insert",
         formRows' = formRows \cup {RowOf(d, h.part, v)},
         UNCHANGED <<docs, file, debugCopy, kept, sourced>>
  PROVE  Progress(d, N, row, v)'
<1>1. Rest(M, h, N) /\ h = Insert(h.part)
  BY AtWorkRest, StepsAre DEF Rest
<1>2. row.kind = "online" /\ Forming(M, row.group) /\ FormUnderWay(d, M, row, v)
  BY <1>1, AtWorkMode, StepsOf DEF Rest
<1>3. N # {}
  BY <1>1, <1>2, StepsDo DEF Rest, Forming
<1>4. Forming(N, row.group)
  BY <1>2, <1>3, FormingRest DEF AtWork
<1>5. h.part \in Part \cup {row.group}
  BY <1>1, <1>2 DEF Rest, Forming
<1>6. \A p : Delete(p) \notin M /\ Delete(p) \notin N
  <2>1. ASSUME NEW p, Delete(p) \in N PROVE FALSE
    BY <2>1, After, StepsDo DEF AtWork
  <2> QED
    BY <1>1, <2>1 DEF Rest
<1>7. ASSUME NEW p, p # h.part PROVE Insert(p) \in M <=> Insert(p) \in N
  <2>1. Insert(p) # h
    BY <1>7, StepsDo
  <2> QED
    BY <1>1, <2>1 DEF Rest
<1>8. Insert(h.part) \notin N
  BY <1>1 DEF Rest
<1>9. ASSUME NEW r \in formRows', r.doc = d
      PROVE  \/ r.part \in Part /\ Insert(r.part) \notin N /\ r.version = v
             \/ r.part = row.group
  <2>1. CASE r = RowOf(d, h.part, v)
    <3>1. r.part = h.part /\ r.version = v
      BY <2>1 DEF RowOf
    <3> QED
      BY <1>5, <1>8, <3>1
  <2>2. CASE r \in formRows
    <3>1. \/ r.part \in Part /\ Insert(r.part) \notin M /\ r.version = v
          \/ r.part = row.group
      BY <1>2, <1>6, <1>9, <2>2 DEF FormUnderWay
    <3> QED
      BY <1>1, <3>1 DEF Rest
  <2> QED
    BY <2>1, <2>2
<1>10. ASSUME NEW p \in Part \cup {row.group}
       PROVE  Insert(p) \in N \/ RowOf(d, p, v) \in formRows'
  BY <1>2, <1>7 DEF FormUnderWay
<1>11. Do("edit") \notin N => row = docs'[d]
  BY <1>1, <1>2 DEF FormUnderWay, Rest
<1>12. Do("write") \notin N => d \notin sourced' /\ file'[row.name] = v
  BY <1>1, <1>2 DEF FormUnderWay, Rest
<1>13. GroupUnderWay(d, N, row, v)'
  <2>1. Do("edit") \in M <=> Do("edit") \in N
    BY <1>1 DEF Rest
  <2>2. RowOf(d, h.part, v).version = v
    BY RowsAre
  <2> QED
    BY <1>2, <2>1, <2>2 DEF FormUnderWay, GroupUnderWay
<1>14. FormUnderWay(d, N, row, v)'
  BY <1>9, <1>10, <1>11, <1>12, <1>13 DEF FormUnderWay
<1> QED
  BY <1>2, <1>3, <1>4, <1>14, Kinds DEF Progress, UnderWay

\* The directory is wiped before the file of a new form, or after the document.
LEMMA WipeProgress ==
  ASSUME NEW d, NEW M, NEW h, NEW N, NEW row, NEW v, AtWork(d, M, h, N, row, v),
         h.do = "wipe",
         UNCHANGED <<docs, formRows, kept, sourced>>
  PROVE  Progress(d, N, row, v)'
<1>1. Rest(M, h, N)
  BY AtWorkRest
<1>2. ~Removing(M)
  <2>1. SUFFICES ASSUME Removing(M) PROVE FALSE
    OBVIOUS
  <2>2. Do("remove") \in N
    BY <1>1, <2>1 DEF Rest, Removing
  <2> QED
    BY <2>2, After, StepsDo DEF AtWork
<1>3. row.kind = "online" /\ Forming(M, row.group) /\ FormUnderWay(d, M, row, v)
  BY <1>1, <1>2, AtWorkMode, StepsOf DEF Rest
<1>4. N # {}
  BY <1>1, <1>3, StepsDo DEF Rest, Forming
<1>5. Forming(N, row.group)
  BY <1>3, <1>4, FormingRest DEF AtWork
<1>6. Do("write") \in N
  BY <1>1, <1>3 DEF Rest, Forming
<1>7. FormUnderWay(d, N, row, v)'
  BY <1>1, <1>3, <1>6 DEF FormUnderWay, GroupUnderWay, Rest
<1> QED
  BY <1>3, <1>4, <1>5, <1>7, Kinds DEF Progress, UnderWay

LEMMA UseProgress ==
  ASSUME NEW d, NEW M, NEW h, NEW N, NEW row, NEW v, AtWork(d, M, h, N, row, v),
         h.do = "use", docs[d] \in DocRow,
         UNCHANGED <<docs, formRows, file, debugCopy, kept, sourced>>
  PROVE  Progress(d, N, row, v)'
<1>1. Rest(M, h, N)
  BY AtWorkRest
<1>2. M = {Do("use")} /\ Good(d)
  BY <1>1, AtWorkMode, StepsOf DEF Rest
<1>3. N = {}
  BY <1>1, <1>2 DEF Rest
<1>4. Good(d)'
  BY <1>2 DEF Good, FormWhole, RowsOfPart
<1> QED
  BY <1>3, <1>4 DEF Progress

LEMMA WriteProgress ==
  ASSUME NEW d, NEW M, NEW h, NEW N, NEW row, NEW v, AtWork(d, M, h, N, row, v),
         h.do = "write", file \in [FileName -> Versions],
         file' = [file EXCEPT ![row.name] = v],
         sourced' = IF \E r \in formRows : r.doc = d /\ r.version = v
                    THEN sourced \ {d} ELSE sourced \cup {d},
         UNCHANGED <<docs, formRows, debugCopy, kept>>
  PROVE  Progress(d, N, row, v)'
<1>1. Rest(M, h, N)
  BY AtWorkRest
<1>2. row.name \in FileName
  BY DEF AtWork, DocRow, UploadRow, OnlineRow
<1>3. file'[row.name] = v
  BY <1>2
<1>4. ASSUME NEW s \in N PROVE s.do \in {"debug", "refresh", "use"} /\ s \in M
  <2>1. s \in Step /\ s # h /\ s.do \in {"write", "debug", "refresh", "use"} /\ s \in M
    BY <1>1, After DEF AtWork
  <2>2. s.do # "write"
    BY <1>1, <2>1, StepsAre DEF Rest, Steps
  <2> QED
    BY <2>1, <2>2
<1>5. CASE Editing(M)
  <2>1. TextUnderWay(d, M, row, v)
    BY <1>5, AtWorkMode
  <2>2. Do("refresh") \in N
    BY <1>1, <1>5, StepsDo DEF Rest, Editing
  <2>3. Editing(N)
    BY <1>1, <1>5, <2>2 DEF Rest, Editing
  <2>4. d \in sourced'
    BY <2>1 DEF TextUnderWay
  <2>5. FormWhole(d)'
    BY <2>1, <2>4 DEF TextUnderWay, FormWhole, RowsOfPart
  <2>6. TextUnderWay(d, N, row, v)'
    BY <1>3, <2>1, <2>4, <2>5 DEF TextUnderWay
  <2> QED
    BY <2>2, <2>3, <2>6, Kinds DEF Progress, UnderWay
<1>6. CASE row.kind = "upload" /\ Uploading(M)
  <2>1. UploadUnderWay(d, M, row, v)
    BY <1>6, AtWorkMode
  <2>2. Do("debug") \in N
    BY <1>1, <1>6, StepsDo DEF Rest, Uploading
  <2>3. Uploading(N)
    <3>1. Do("row") \notin N
      BY <1>4, StepsDo
    <3> QED
      BY <1>1, <1>6, <2>2, <3>1 DEF Rest, Uploading
  <2>4. UploadUnderWay(d, N, row, v)'
    BY <1>3, <2>1 DEF UploadUnderWay
  <2> QED
    BY <1>6, <2>2, <2>3, <2>4, Kinds DEF Progress, UnderWay
<1>7. CASE row.kind = "online" /\ Forming(M, row.group)
  <2>1. FormUnderWay(d, M, row, v)
    BY <1>7, AtWorkMode
  <2>2. N # {}
    BY <1>1, <1>7, StepsDo DEF Rest, Forming
  <2>3. Forming(N, row.group)
    BY <1>7, <2>2, FormingRest DEF AtWork
  <2>4. /\ \A p : Delete(p) \notin N /\ Insert(p) \notin N
        /\ \A p : Delete(p) \notin M /\ Insert(p) \notin M
        /\ Do("edit") \notin M
    <3>1. \A p : Delete(p) \notin N /\ Insert(p) \notin N
      BY <1>4, StepsDo
    <3>2. Do("edit") \notin N
      BY <1>4, StepsDo
    <3> QED
      BY <1>1, <3>1, <3>2 DEF Rest
  <2>5. row = docs[d]
    BY <2>1, <2>4 DEF FormUnderWay
  <2>6. \A p \in Part \cup {row.group} : RowOf(d, p, v) \in formRows
    BY <2>1, <2>4 DEF FormUnderWay
  <2>7. d \notin sourced'
    <3>1. RowOf(d, "sample", v) \in formRows
      BY <2>6 DEF Part
    <3>2. RowOf(d, "sample", v).doc = d /\ RowOf(d, "sample", v).version = v
      BY DEF RowOf
    <3> QED
      BY <3>1, <3>2
  <2>8. \A r \in formRows : r.doc = d =>
          \/ r.part \in Part /\ r.version = v
          \/ r.part = row.group
    BY <2>1, <2>4 DEF FormUnderWay
  <2>9. FormUnderWay(d, N, row, v)'
    <3>1. Do("edit") \notin N
      BY <1>4, StepsDo
    <3>2. GroupUnderWay(d, N, row, v)'
      BY <2>1, <2>4, <3>1 DEF FormUnderWay, GroupUnderWay
    <3>3. Do("write") \notin N => d \notin sourced' /\ file'[row.name] = v
      BY <1>3, <2>7
    <3> QED
      BY <2>4, <2>5, <2>6, <2>8, <3>2, <3>3 DEF FormUnderWay
  <2> QED
    BY <1>7, <2>2, <2>3, <2>9, Kinds DEF Progress, UnderWay
<1> QED
  BY <1>1, <1>5, <1>6, <1>7, AtWorkMode, StepsOf DEF Rest

\* The last step of an upload, of a form and of an edit as text.
LEMMA DebugProgress ==
  ASSUME NEW d, NEW M, NEW h, NEW N, NEW row, NEW v, AtWork(d, M, h, N, row, v),
         h.do \in {"debug", "refresh"},
         file \in [FileName -> Versions], debugCopy \in [FileName -> Versions],
         \A r \in formRows : r = RowOf(r.doc, r.part, r.version),
         debugCopy' =
           IF h.do = "refresh" /\ debugCopy[row.name] = 0 THEN debugCopy
           ELSE [debugCopy EXCEPT ![row.name] =
                   IF h.do = "debug" /\ row.kind = "online" THEN file[row.name] ELSE v],
         UNCHANGED <<docs, formRows, file, kept, sourced>>
  PROVE  Progress(d, N, row, v)'
<1>1. Rest(M, h, N)
  BY AtWorkRest
<1>2. row.name \in FileName /\ v # 0 /\ v \in Versions
  BY DEF AtWork, DocRow, UploadRow, OnlineRow
<1>3. ASSUME NEW s \in N
      PROVE s.do \in {"debug", "refresh", "use"} /\ s \in M /\ s \in Step /\ s # h
  BY <1>1, After DEF AtWork, Rest
<1>4. CASE Editing(M)
  <2>1. TextUnderWay(d, M, row, v) /\ h.do = "refresh"
    <3>1. h \in {Do("write"), Do("refresh")}
      BY <1>1, <1>4 DEF Rest, Editing
    <3> QED
      BY <1>4, <3>1, AtWorkMode, StepsDo
  <2>2. h = Do("refresh")
    BY <1>1, <2>1 DEF Rest, Steps
  <2>3. N = {} /\ Do("write") \notin M
    <3>1. Do("write") \notin N
      BY <1>3, StepsDo
    <3>2. Do("write") # h
      BY <2>2, StepsDo
    <3> QED
      BY <1>1, <1>4, <2>2, <3>1, <3>2 DEF Rest, Editing
  <2>4. docs[d] = row /\ file[row.name] = v /\ d \in sourced
    BY <2>1, <2>3 DEF TextUnderWay
  <2>5. debugCopy'[row.name] = v
    BY <1>2, <2>1 DEF TextUnderWay
  <2>6. FormWhole(d)'
    BY <2>1 DEF TextUnderWay, FormWhole, RowsOfPart
  <2> QED
    BY <1>2, <2>3, <2>4, <2>5, <2>6 DEF Progress, Good
<1>5. CASE row.kind = "upload" /\ Uploading(M)
  <2>1. UploadUnderWay(d, M, row, v)
    BY <1>5, AtWorkMode
  <2>2. h = Do("debug") /\ h.do = "debug"
    BY <1>1, <1>5, StepsDo DEF Rest, Uploading
  <2>3. N = {} /\ Do("write") \notin M
    <3>1. Do("write") \notin N /\ Do("row") \notin N
      BY <1>3, StepsDo
    <3>2. Do("write") # h
      BY <2>2, StepsDo
    <3> QED
      BY <1>1, <1>5, <2>2, <3>1, <3>2 DEF Rest, Uploading
  <2>4. docs[d] = row /\ file[row.name] = v
    BY <2>1, <2>3 DEF UploadUnderWay
  <2>5. debugCopy'[row.name] = v
    BY <1>2, <1>5, <2>2
  <2>6. FormWhole(d)'
    BY <1>5, <2>1, <2>4 DEF UploadUnderWay, FormWhole
  <2> QED
    BY <1>2, <2>3, <2>4, <2>5, <2>6 DEF Progress, Good
<1>6. CASE row.kind = "online" /\ Forming(M, row.group)
  <2>1. FormUnderWay(d, M, row, v)
    BY <1>6, AtWorkMode
  <2>2. h.do = "debug" /\ h = Do("debug")
    BY <1>1, <1>6 DEF Rest, Forming, Steps
  <2>3. N = {}
    <3>1. ASSUME NEW s \in N PROVE FALSE
      <4>1. s.do = "debug"
        BY <1>3, <1>6 DEF Forming
      <4>2. s = Do("debug")
        BY <1>3, <4>1, StepsAre DEF Steps
      <4> QED
        BY <1>3, <2>2, <4>2
    <3> QED
      BY <3>1
  <2>4. M = {Do("debug")}
    BY <1>1, <2>2, <2>3 DEF Rest
  <2>5. /\ \A p : Delete(p) \notin M /\ Insert(p) \notin M
        /\ Do("edit") \notin M /\ Do("write") \notin M
    BY <2>4, StepsDo
  <2>6. docs[d] = row /\ file[row.name] = v /\ d \notin sourced
    BY <2>1, <2>5 DEF FormUnderWay
  <2>7. debugCopy'[row.name] = v
    BY <1>2, <1>6, <2>2, <2>6
  <2>8. \A p \in Part \cup {row.group} : RowOf(d, p, v) \in formRows
    BY <2>1, <2>5 DEF FormUnderWay
  <2>9. \A r \in formRows : r.doc = d =>
          \/ r.part \in Part /\ r.version = v
          \/ r.part = row.group
    BY <2>1, <2>5 DEF FormUnderWay
  <2>10. row.group \in GroupType /\ row.group \notin Part
    BY <1>6, DocAssumption DEF AtWork, DocRow, UploadRow, OnlineRow
  <2>11. ASSUME NEW p \in Part
         PROVE  RowsOfPart(d, p) = {RowOf(d, p, v)}
    <3>1. ASSUME NEW r \in formRows, r.doc = d, r.part = p PROVE r = RowOf(d, p, v)
      BY <2>9, <2>10, <3>1
    <3> QED
      BY <2>8, <3>1, RowsAre DEF RowsOfPart
  <2>12. /\ RowOf(d, row.group, v) \in RowsOfPart(d, row.group)
         /\ d \notin kept => RowsOfPart(d, row.group) = {RowOf(d, row.group, v)}
         /\ \A g \in GroupType \ {row.group} : RowsOfPart(d, g) = {}
    <3>1. RowOf(d, row.group, v) \in RowsOfPart(d, row.group)
      BY <2>8, RowsAre DEF RowsOfPart
    <3>2. ASSUME d \notin kept, NEW r \in formRows, r.doc = d, r.part = row.group
          PROVE  r = RowOf(d, row.group, v)
      BY <2>1, <2>5, <3>2 DEF FormUnderWay, GroupUnderWay
    <3>3. ASSUME NEW g \in GroupType \ {row.group}, NEW r \in formRows, r.doc = d, r.part = g
          PROVE  FALSE
      BY <2>9, <3>3, DocAssumption
    <3> QED
      BY <3>1, <3>2, <3>3 DEF RowsOfPart
  <2>13. FormWhole(d)'
    BY <1>2, <1>6, <2>6, <2>11, <2>12 DEF FormWhole, RowsOfPart
  <2> QED
    BY <1>2, <2>3, <2>6, <2>7, <2>13 DEF Progress, Good
<1> QED
  BY <1>1, <1>4, <1>5, <1>6, AtWorkMode, StepsOf DEF Rest

\* A new row: the document has no form yet.
LEMMA RowProgress ==
  ASSUME NEW d \in Doc, NEW M, NEW h, NEW N, NEW row \in DocRow, NEW v,
         Takes(M, h, N), Known(M, row), h.do = "row",
         docs \in [Doc -> DocRow \cup {NoDoc, GoneDoc}],
         docs' = [docs EXCEPT ![d] = row],
         \A r \in formRows : r.doc # d,
         UNCHANGED formRows
  PROVE  N # {} /\ UnderWay(d, N, row, v)'
<1>1. /\ h \in Step /\ h \in M /\ N \subseteq M /\ N \subseteq Step
      /\ \A x \in M : x = h \/ x \in N
  BY DEF Takes
<1>2. docs'[d] = row
  OBVIOUS
<1>3. CASE row.kind = "upload" /\ Uploading(M)
  <2>1. Do("debug") \in N /\ Do("write") \in N
    <3>1. h = Do("row")
      BY <1>1, StepsAre DEF Steps
    <3> QED
      BY <1>1, <1>3, <3>1, StepsDo DEF Uploading
  <2>2. Uploading(N)
    BY <1>1, <1>3, <2>1 DEF Uploading
  <2>3. UploadUnderWay(d, N, row, v)'
    BY <1>2, <2>1 DEF UploadUnderWay
  <2> QED
    BY <1>3, <2>1, <2>2, <2>3, Kinds DEF UnderWay
<1>4. CASE row.kind = "online" /\ Forming(M, row.group)
  <2>1. Do("debug") \in N /\ Do("write") \in N
    BY <1>1, <1>4, StepsDo DEF Forming
  <2>2. Forming(N, row.group)
    BY <1>4, <2>1, FormingRest
  <2>3. ASSUME NEW p \in Part \cup {row.group} PROVE Insert(p) \in N
    BY <1>1, <1>4, StepsDo DEF Forming
  <2>4. FormUnderWay(d, N, row, v)'
    BY <1>2, <2>1, <2>3 DEF FormUnderWay, GroupUnderWay
  <2> QED
    BY <1>4, <2>1, <2>2, <2>4, Kinds DEF UnderWay
<1> QED
  BY <1>1, <1>3, <1>4, StepsOf

-----------------------------------------------------------------------------
(* The invariant is kept *)

LEMMA BusyAre ==
  ASSUME WritersTyped
  PROVE  /\ Busy = {w \in Writer : writer[w] \in BusyWrite}
         /\ \A w \in Writer : w \notin Busy => writer[w] = NoWrite
<1>1. \A c \in BusyWrite : c.todo # <<>>
  BY DEF BusyWrite
<1>2. NoWrite.todo = <<>>
  BY DEF NoWrite
<1> QED
  BY <1>1, <1>2 DEF WritersTyped, Busy

LEMMA DocTypes == DocInv => DocTypeOK
<1> SUFFICES ASSUME DocInv PROVE DocTypeOK
  OBVIOUS
<1>1. ASSUME NEW w \in Writer
      PROVE  /\ writer[w].doc \in Doc \cup {0}
             /\ writer[w].todo \in Seq(Step)
             /\ writer[w].todo # <<>> =>
                 /\ writer[w].row \in DocRow /\ writer[w].version \in Versions
                 /\ writer[w].shared \in BOOLEAN
  <2>1. CASE writer[w] \in BusyWrite
    BY <2>1 DEF BusyWrite
  <2>2. CASE writer[w] = NoWrite
    BY <2>2 DEF NoWrite
  <2> QED
    BY <2>1, <2>2 DEF DocInv, WritersTyped
<1>2. docCalls \in 0..MaxDocCall
  BY DocAssumption DEF DocInv, RestTyped
<1> QED
  BY <1>1, <1>2 DEF DocInv, RestTyped, DocTypeOK

\* Call w has taken its first step and goes on with the others, if any.
Stepped(w) ==
    LET N == Left(Tail(writer[w].todo)) IN
    /\ WritersTyped'
    /\ \A u \in Writer \ {w} : writer'[u] = writer[u]
    /\ N = {} => Busy' = Busy \ {w}
    /\ N # {} =>
        /\ Busy' = Busy
        /\ writer'[w].doc = writer[w].doc /\ writer'[w].row = writer[w].row
        /\ writer'[w].version = writer[w].version
        /\ writer'[w].shared = writer[w].shared
        /\ writer'[w].todo = Tail(writer[w].todo)

LEMMA AdvanceStepped ==
  ASSUME WritersTyped, NEW w \in Busy, Advance(w)
  PROVE  Stepped(w)
<1> DEFINE c == writer[w] N == Left(Tail(c.todo))
           e == [c EXCEPT !.todo = Tail(c.todo)]
<1>1. /\ w \in Writer /\ c \in BusyWrite
      /\ writer \in [Writer -> BusyWrite \cup {NoWrite}]
  BY BusyAre DEF WritersTyped
<1>2. c.todo \in Seq(Step) /\ c.todo # <<>>
  BY <1>1 DEF BusyWrite
<1>3. /\ Tail(c.todo) \in Seq(Step)
      /\ Len(c.todo) = 1 <=> N = {}
      /\ Tail(c.todo) = <<>> <=> N = {}
  BY <1>2, LeftOfRest
<1>4. writer' = [writer EXCEPT ![w] = IF Len(c.todo) = 1 THEN NoWrite ELSE e]
  BY DEF Advance
<1> HIDE DEF N
<1>5. CASE N = {}
  <2>1. writer' = [writer EXCEPT ![w] = NoWrite]
    BY <1>3, <1>4, <1>5
  <2>2. WritersTyped'
    BY <1>1, <2>1 DEF WritersTyped
  <2>3. /\ \A u \in Writer \ {w} : writer'[u] = writer[u]
        /\ writer'[w] = NoWrite
    BY <1>1, <2>1
  <2>4. Busy' = Busy \ {w}
    BY <1>1, <2>3 DEF Busy, NoWrite
  <2> QED
    BY <1>5, <2>2, <2>3, <2>4 DEF Stepped, N
<1>6. CASE N # {}
  <2>1. writer' = [writer EXCEPT ![w] = e]
    BY <1>3, <1>4, <1>6
  <2>2. /\ e \in BusyWrite /\ e.doc = c.doc /\ e.row = c.row /\ e.version = c.version
        /\ e.shared = c.shared /\ e.todo = Tail(c.todo)
    BY <1>1, <1>3, <1>6 DEF BusyWrite
  <2> HIDE DEF e
  <2>3. WritersTyped'
    BY <1>1, <2>1, <2>2 DEF WritersTyped
  <2>4. /\ \A u \in Writer \ {w} : writer'[u] = writer[u]
        /\ writer'[w] = e
    BY <1>1, <2>1
  <2>5. Busy' = Busy
    BY <1>1, <1>3, <1>6, <2>2, <2>4 DEF Busy
  <2> QED
    BY <1>6, <2>2, <2>3, <2>4, <2>5 DEF Stepped, N
<1> QED
  BY <1>5, <1>6

LEMMA BusyCall ==
  ASSUME DocInv, NEW w \in Busy
  PROVE  LET c == writer[w] M == Left(c.todo) h == Head(c.todo)
             N == Left(Tail(c.todo))
         IN  /\ w \in Writer /\ CallOK(w)
             /\ c.doc \in Doc \cup {0} /\ c.todo \in Seq(Step) /\ c.todo # <<>>
             /\ c.row \in DocRow /\ c.version \in Versions \ {0} /\ c.shared \in BOOLEAN
             /\ Takes(M, h, N) /\ Ordered(Tail(c.todo)) /\ Known(M, c.row)
             /\ h.do = "row" <=> c.doc = 0
             /\ Do("row") \notin N
<1> DEFINE c == writer[w] M == Left(c.todo) h == Head(c.todo) N == Left(Tail(c.todo))
<1>1. w \in Writer /\ CallOK(w) /\ c \in BusyWrite
  BY BusyAre DEF DocInv, Busy
<1>2. /\ c.doc \in Doc \cup {0} /\ c.todo \in Seq(Step) /\ c.todo # <<>>
      /\ c.row \in DocRow /\ c.version \in Versions /\ c.shared \in BOOLEAN
  BY <1>1 DEF BusyWrite
<1>3. Ordered(c.todo) /\ Known(M, c.row) /\ (Do("row") \in M <=> c.doc = 0)
  BY <1>1 DEF CallOK
<1>4. c.version # 0
  BY <1>1 DEF CallOK
<1>5. Takes(M, h, N) /\ Ordered(Tail(c.todo))
  BY <1>2, <1>3, Taken
<1>6. h \in Step /\ \A x \in M : x = h \/ x \in N
  BY <1>5 DEF Takes
<1>7. h.do = "row" => h = Do("row")
  BY <1>6, StepsAre DEF Steps
<1>8. Do("row") \notin N
  <2>1. SUFFICES ASSUME Do("row") \in N PROVE FALSE
    OBVIOUS
  <2>2. Do("row").do = "row" /\ Rank(Do("row")) = 0
    BY StepsDo DEF Rank
  <2>3. Rank(h) = 0 /\ h # Do("row")
    BY <1>5, <1>6, <2>1, <2>2, After, Ranks DEF Takes
  <2>4. h.do = "row"
    BY <1>6, <2>3, StepsAre, Ranks DEF Steps
  <2> QED
    BY <1>7, <2>3, <2>4
<1>9. Do("row") \in M => h = Do("row")
  BY <1>6, <1>8
<1>10. h.do = "row" <=> c.doc = 0
  BY <1>3, <1>5, <1>7, <1>9, StepsDo DEF Takes
<1> QED
  BY <1>1, <1>2, <1>3, <1>4, <1>5, <1>8, <1>10

\* An unspoiled document of a busy call is that call's, and the call is alone.
LEMMA AloneAtWork ==
  ASSUME DocInv, NEW w \in Busy, NEW d \in Live \ spoiled
  PROVE  LET c == writer[w] IN
         /\ Busy = {w} /\ Live = {d} /\ c.doc = d /\ ~c.shared
         /\ AtWork(d, Left(c.todo), Head(c.todo), Left(Tail(c.todo)), c.row, c.version)
<1> DEFINE c == writer[w]
<1>1. DocumentOK(d) /\ d \in Doc /\ docs[d] \in DocRow
  BY DEF DocInv, Live, RestTyped
<1>2. /\ CallOK(w) /\ c.row \in DocRow /\ c.version \in Versions \ {0}
      /\ Takes(Left(c.todo), Head(c.todo), Left(Tail(c.todo)))
      /\ Known(Left(c.todo), c.row) /\ c.shared \in BOOLEAN
  BY BusyCall
<1>3. ~c.shared /\ Busy = {w}
  BY <1>2 DEF CallOK
<1>4. Live = {d} /\ c.doc = d /\ UnderWay(d, Left(c.todo), c.row, c.version)
  BY <1>1 DEF DocumentOK
<1> QED
  BY <1>1, <1>2, <1>3, <1>4 DEF AtWork

\* The document of call w, what is left after its first step, its row and version.
Following(w, d, N, row, v) ==
    /\ d = writer[w].doc /\ N = Left(Tail(writer[w].todo))
    /\ row = writer[w].row /\ v = writer[w].version

\* A step that spoils no document and progresses on the one it is about.
LEMMA StepKeeps ==
  ASSUME DocInv, NEW w \in Busy, Stepped(w), Head(writer[w].todo).do # "row",
         Live' \subseteq Live, spoiled' = spoiled, docCalls' = docCalls,
         RestTyped', RowsOK',
         \A d \in Doc : docs[d] # NoDoc => docs'[d] # NoDoc,
         \/ writer[w].doc \notin Live
         \/ writer[w].doc \in Live'
         \/ Left(Tail(writer[w].todo)) \subseteq {Do("wipe")},
         \A d, N, row, v :
             /\ d \in Live' /\ Following(w, d, N, row, v)
             /\ AtWork(d, Left(writer[w].todo), Head(writer[w].todo), N, row, v)
             => Progress(d, N, row, v)'
  PROVE  DocInv'
<1> DEFINE c == writer[w] M == Left(c.todo) h == Head(c.todo) N == Left(Tail(c.todo))
<1>1. /\ w \in Writer /\ CallOK(w)
      /\ c.doc \in Doc \cup {0} /\ c.todo \in Seq(Step) /\ c.todo # <<>>
      /\ c.row \in DocRow /\ c.version \in Versions \ {0} /\ c.shared \in BOOLEAN
      /\ Takes(M, h, N) /\ Ordered(Tail(c.todo)) /\ Known(M, c.row)
      /\ h.do = "row" <=> c.doc = 0
      /\ Do("row") \notin N
  BY BusyCall
<1>2. /\ WritersTyped' /\ \A u \in Writer \ {w} : writer'[u] = writer[u]
      /\ N = {} => Busy' = Busy \ {w}
      /\ N # {} =>
           /\ Busy' = Busy /\ writer'[w].doc = c.doc /\ writer'[w].row = c.row
           /\ writer'[w].version = c.version /\ writer'[w].shared = c.shared
           /\ writer'[w].todo = Tail(c.todo)
  BY DEF Stepped
<1>3. c.doc # 0
  BY <1>1
<1>4. ASSUME NEW u \in Busy', u # w PROVE CallOK(u)'
  <2>1. u \in Busy /\ u \in Writer /\ writer'[u] = writer[u]
    BY <1>2, <1>4 DEF Busy
  <2>2. CallOK(u) /\ writer[u].shared \in BOOLEAN /\ writer[u].doc \in Doc \cup {0}
    BY <2>1, BusyCall
  <2>3. writer[u].shared
    BY <1>4, <2>2 DEF CallOK
  <2>4. Live \subseteq spoiled
    BY <2>2, <2>3 DEF CallOK
  <2>5. writer[u].doc # 0 => docs'[writer[u].doc] # NoDoc
    BY <2>2 DEF CallOK
  <2>6. writer[u].doc # 0 =>
          writer[u].doc \in Live' \cup spoiled' \/ Left(writer[u].todo) = {Do("wipe")}
    BY <2>2, <2>4 DEF CallOK
  <2>7. Live' \subseteq spoiled'
    BY <2>4
  <2> QED
    BY <2>1, <2>2, <2>3, <2>5, <2>6, <2>7 DEF CallOK
<1>5. ASSUME N # {} PROVE CallOK(w)'
  <2>1. Known(N, c.row)
    BY <1>1, <1>5, KnownRest
  <2>2. ~c.shared => Busy' = {w}
    BY <1>1, <1>2, <1>5 DEF CallOK
  <2>3. c.shared => Live' \subseteq spoiled'
    BY <1>1 DEF CallOK
  <2>4. docs'[c.doc] # NoDoc
    BY <1>1, <1>3 DEF CallOK
  <2>5. c.doc \in Live' \cup spoiled' \/ N = {Do("wipe")}
    <3>1. CASE c.doc \in Live \cup spoiled
      BY <1>5, <3>1
    <3>2. CASE M = {Do("wipe")}
      BY <1>1, <1>5, <3>2 DEF Takes
    <3> QED
      BY <1>1, <1>3, <3>1, <3>2 DEF CallOK
  <2>6. c.version \in 1..docCalls'
    BY <1>1 DEF CallOK
  <2> QED
    BY <1>1, <1>2, <1>3, <1>5, <2>1, <2>2, <2>3, <2>4, <2>5, <2>6 DEF CallOK
<1>6. \A u \in Busy' : CallOK(u)'
  BY <1>2, <1>4, <1>5
<1>7. ASSUME NEW d \in Live' \ spoiled' PROVE DocumentOK(d)'
  <2>1. d \in Live \ spoiled
    OBVIOUS
  <2>2. Busy = {w} /\ Live = {d} /\ c.doc = d
    BY <2>1, AloneAtWork
  <2>3. PICK K, row, v : Following(w, d, K, row, v)
    BY <2>2 DEF Following
  <2>4. K = N /\ row = c.row /\ v = c.version
    BY <2>3 DEF Following
  <2>5. AtWork(d, M, h, K, row, v)
    BY <2>1, <2>4, AloneAtWork
  <2>6. Progress(d, K, row, v)'
    BY <1>7, <2>3, <2>5
  <2>7. Live' = {d}
    BY <2>2
  <2>8. CASE K = {}
    <3>1. Good(d)' /\ Busy' = {}
      BY <1>2, <2>2, <2>4, <2>6, <2>8 DEF Progress
    <3> QED
      BY <2>7, <3>1 DEF DocumentOK
  <2>9. CASE K # {}
    <3>1. UnderWay(d, K, row, v)' /\ Busy' = {w}
      BY <1>2, <2>2, <2>4, <2>6, <2>9 DEF Progress
    <3>2. /\ writer'[w].doc = d /\ Left(writer'[w].todo) = K
          /\ writer'[w].row = row /\ writer'[w].version = v
      BY <1>2, <2>2, <2>4, <2>9
    <3> QED
      BY <2>7, <3>1, <3>2 DEF DocumentOK
  <2> QED
    BY <2>8, <2>9
<1>8. \A d \in spoiled' : docs'[d] # NoDoc
  BY DEF DocInv, RestTyped
<1> QED
  BY <1>2, <1>6, <1>7, <1>8 DEF DocInv

\* A call that ends before its last step: it met a row that is gone, or failed.
LEMMA EndKeeps ==
  ASSUME DocInv, NEW w \in Busy, writer' = [writer EXCEPT ![w] = NoWrite],
         spoiled' = spoiled \cup ({writer[w].doc} \cap Doc) \/
           (spoiled' = spoiled /\ writer[w].doc \notin Live),
         docFaults' \in 0..MaxDocFault,
         UNCHANGED <<docs, formRows, file, debugCopy, uses, kept, sourced, docCalls>>
  PROVE  DocInv'
<1>1. w \in Writer /\ CallOK(w) /\ writer[w].doc \in Doc \cup {0}
  BY BusyCall
<1>2. WritersTyped'
  BY <1>1 DEF DocInv, WritersTyped
<1>3. /\ \A u \in Writer \ {w} : writer'[u] = writer[u]
      /\ writer'[w] = NoWrite
  BY <1>1 DEF DocInv, WritersTyped
<1>4. Busy' = Busy \ {w}
  BY <1>3 DEF Busy, NoWrite
<1>5. RestTyped'
  BY DEF DocInv, RestTyped
<1>6. Live' = Live /\ spoiled \subseteq spoiled'
  BY DEF Live
<1>7. RowsOK'
  BY <1>6 DEF DocInv, RowsOK
<1>8. \A d \in spoiled' : docs'[d] # NoDoc
  <2>1. writer[w].doc # 0 => docs[writer[w].doc] # NoDoc
    BY <1>1 DEF CallOK
  <2>2. 0 \notin Doc
    BY DocAssumption
  <2> QED
    BY <2>1, <2>2 DEF DocInv
<1>9. ASSUME NEW u \in Busy' PROVE CallOK(u)'
  <2>1. u \in Busy /\ writer'[u] = writer[u] /\ u # w
    BY <1>3, <1>4 DEF Busy
  <2>2. CallOK(u) /\ writer[u].shared \in BOOLEAN
    BY <2>1, BusyCall
  <2>3. writer[u].shared
    BY <2>1, <2>2 DEF CallOK
  <2> QED
    BY <1>6, <2>1, <2>2, <2>3 DEF CallOK
<1>10. ASSUME NEW d \in Live' \ spoiled' PROVE DocumentOK(d)'
  <2>1. d \in Live \ spoiled /\ d \in Doc
    BY <1>6 DEF Live
  <2>2. writer[w].doc = d
    BY <2>1, AloneAtWork
  <2> QED
    BY <1>10, <2>1, <2>2
<1> QED
  BY <1>2, <1>5, <1>7, <1>8, <1>9, <1>10 DEF DocInv

LEMMA EditKeeps ==
  ASSUME DocInv, NEW w \in Writer, EditJmx(w)
  PROVE  DocInv'
<1>1. /\ w \in Busy /\ Head(writer[w].todo).do = "edit"
      /\ writer[w].row \in DocRow /\ writer[w].doc \in Doc \cup {0}
  BY BusyCall DEF EditJmx, Doing
<1>2. UNCHANGED <<formRows, file, debugCopy, uses, spoiled, sourced, docCalls, docFaults>>
  BY DEF EditJmx
<1>3. RestTyped /\ WritersTyped
  BY DEF DocInv
<1>4. CASE writer[w].doc \in Live
  <2>1. /\ docs' = [docs EXCEPT ![writer[w].doc] = writer[w].row]
        /\ kept' = IF docs[writer[w].doc].group = writer[w].row.group
                   THEN kept \cup {writer[w].doc} ELSE kept \ {writer[w].doc}
        /\ Stepped(w)
    BY <1>1, <1>3, <1>4, AdvanceStepped DEF EditJmx
  <2>2. writer[w].row \notin {NoDoc, GoneDoc}
    BY <1>1 DEF DocRow, UploadRow, OnlineRow, NoDoc, GoneDoc
  <2>3. RestTyped'
    <3>1. writer[w].doc \in Doc
      BY <1>4 DEF Live
    <3> QED
      BY <1>1, <1>2, <1>3, <2>1, <3>1 DEF RestTyped
  <2>4. Live' = Live
    BY <1>3, <1>4, <2>1, <2>2 DEF Live, RestTyped
  <2>5. \A d \in Doc : docs[d] # NoDoc => docs'[d] # NoDoc
    BY <1>3, <2>1, <2>2 DEF RestTyped
  <2>6. RowsOK'
    BY <1>2, <2>4 DEF DocInv, RowsOK
  <2>7. ASSUME NEW d, NEW N, NEW row, NEW v, Following(w, d, N, row, v),
               AtWork(d, Left(writer[w].todo), Head(writer[w].todo), N, row, v)
        PROVE  Progress(d, N, row, v)'
    <3>1. /\ docs' = [docs EXCEPT ![d] = row]
          /\ kept' = IF docs[d].group = row.group THEN kept \cup {d} ELSE kept \ {d}
      BY <2>1, <2>7 DEF Following
    <3>2. docs \in [Doc -> DocRow \cup {NoDoc, GoneDoc}]
      BY <1>3 DEF RestTyped
    <3> QED
      BY <1>1, <1>2, <2>7, <3>1, <3>2, EditProgress
  <2> QED
    BY <1>1, <1>2, <1>4, <2>1, <2>3, <2>4, <2>5, <2>6, <2>7, StepKeeps
<1>5. CASE writer[w].doc \notin Live
  <2>1. writer' = [writer EXCEPT ![w] = NoWrite] /\ UNCHANGED <<docs, kept>>
    BY <1>5 DEF EditJmx
  <2>2. docFaults' \in 0..MaxDocFault
    BY <1>2, <1>3 DEF RestTyped
  <2> QED
    BY <1>1, <1>2, <1>5, <2>1, <2>2, EndKeeps
<1> QED
  BY <1>4, <1>5

LEMMA DeleteKeeps ==
  ASSUME DocInv, NEW w \in Writer, DeletePart(w)
  PROVE  DocInv'
<1>1. w \in Busy /\ Head(writer[w].todo).do = "delete"
  BY DEF DeletePart, Doing
<1>2. /\ formRows' = {r \in formRows :
             r.doc # writer[w].doc \/ r.part # Head(writer[w].todo).part}
      /\ UNCHANGED <<docs, file, debugCopy, uses, spoiled, kept, sourced, docCalls, docFaults>>
  BY DEF DeletePart
<1>3. RestTyped /\ Stepped(w)
  BY <1>1, AdvanceStepped DEF DocInv, DeletePart
<1>4. RestTyped'
  BY <1>2, <1>3 DEF RestTyped
<1>5. Live' = Live
  BY <1>2 DEF Live
<1>6. RowsOK'
  BY <1>2, <1>5 DEF DocInv, RowsOK
<1>7. ASSUME NEW d, NEW N, NEW row, NEW v, Following(w, d, N, row, v),
             AtWork(d, Left(writer[w].todo), Head(writer[w].todo), N, row, v)
      PROVE  Progress(d, N, row, v)'
  <2>1. formRows' = {r \in formRows : r.doc # d \/ r.part # Head(writer[w].todo).part}
    BY <1>2, <1>7 DEF Following
  <2> QED
    BY <1>1, <1>2, <1>7, <2>1, DeleteProgress
<1> QED
  BY <1>1, <1>2, <1>3, <1>4, <1>5, <1>6, <1>7, StepKeeps

LEMMA InsertKeeps ==
  ASSUME DocInv, NEW w \in Writer, InsertPart(w)
  PROVE  DocInv'
<1> DEFINE c == writer[w]
<1>1. w \in Busy /\ Head(c.todo).do = "insert"
  BY DEF InsertPart, Doing
<1>2. /\ formRows' = formRows \cup {RowOf(c.doc, Head(c.todo).part, c.version)}
      /\ UNCHANGED <<docs, file, debugCopy, uses, spoiled, kept, sourced, docCalls, docFaults>>
  BY DEF InsertPart
<1>3. RestTyped /\ Stepped(w) /\ CallOK(w) /\ w \in Writer
  BY <1>1, AdvanceStepped, BusyCall DEF DocInv, InsertPart
<1>4. /\ c.doc \in Doc /\ c.doc # 0 /\ c.version \in Versions
      /\ Head(c.todo) \in Step /\ Head(c.todo) \in Left(c.todo)
  BY <1>1, BusyCall DEF Takes
<1>5. Head(c.todo).part \in Part \cup GroupType
  BY <1>1, <1>4, StepsAre
<1>6. RestTyped'
  <2>1. RowOf(c.doc, Head(c.todo).part, c.version) \in FormRow
    BY <1>4, <1>5 DEF RowOf, FormRow
  <2> QED
    BY <1>2, <1>3, <2>1 DEF RestTyped
<1>7. Live' = Live
  BY <1>2 DEF Live
<1>8. c.doc \in Live \cup spoiled /\ c.version \in 1..docCalls
  <2>1. Left(c.todo) # {Do("wipe")}
    BY <1>1, <1>4, StepsDo
  <2> QED
    BY <1>3, <1>4, <2>1 DEF CallOK
<1>9. RowsOK'
  BY <1>2, <1>7, <1>8, RowsAre DEF DocInv, RowsOK
<1>10. ASSUME NEW d, NEW N, NEW row, NEW v, Following(w, d, N, row, v),
              AtWork(d, Left(c.todo), Head(c.todo), N, row, v)
       PROVE  Progress(d, N, row, v)'
  <2>1. formRows' = formRows \cup {RowOf(d, Head(c.todo).part, v)}
    BY <1>2, <1>10 DEF Following
  <2> QED
    BY <1>1, <1>2, <1>10, <2>1, InsertProgress
<1> QED
  BY <1>1, <1>2, <1>3, <1>6, <1>7, <1>9, <1>10, StepKeeps

LEMMA RemoveKeeps ==
  ASSUME DocInv, NEW w \in Writer, RemoveJmx(w)
  PROVE  DocInv'
<1> DEFINE c == writer[w] M == Left(c.todo) h == Head(c.todo) N == Left(Tail(c.todo))
<1>1. w \in Busy /\ h.do = "remove"
  BY DEF RemoveJmx, Doing
<1>2. /\ docs' = [docs EXCEPT ![c.doc] = GoneDoc]
      /\ UNCHANGED <<formRows, file, debugCopy, uses, spoiled, kept, sourced, docCalls, docFaults>>
  BY DEF RemoveJmx
<1>3. RestTyped /\ RowsOK /\ Stepped(w)
  BY <1>1, AdvanceStepped DEF DocInv, RemoveJmx
<1>4. /\ c.doc \in Doc \cup {0} /\ c.doc # 0
      /\ Takes(M, h, N) /\ Known(M, c.row) /\ h \in Step /\ h \in M
  BY <1>1, BusyCall DEF Takes
<1>5. RestTyped'
  BY <1>2, <1>3 DEF RestTyped
<1>6. Live' = Live \ {c.doc} /\ \A d \in Doc : docs[d] # NoDoc => docs'[d] # NoDoc
  BY <1>2, <1>3 DEF Live, RestTyped, GoneDoc, NoDoc
<1>7. Removing(M)
  BY <1>1, <1>4, StepsOf
<1>8. N \subseteq {Do("wipe")}
  <2> SUFFICES ASSUME NEW s \in N PROVE s = Do("wipe")
    OBVIOUS
  <2>1. s \in Step /\ s # h /\ s.do \notin {"row", "delete"} /\ s \in M
    BY <1>1, <1>4, After
  <2>2. s.do \in {"delete", "remove", "wipe"}
    BY <1>7, <2>1 DEF Removing
  <2>3. s.do # "remove"
    BY <1>1, <1>4, <2>1, StepsAre DEF Steps
  <2> QED
    BY <2>1, <2>2, <2>3, StepsAre DEF Steps
<1>9. RowsOK'
  <2> SUFFICES ASSUME NEW r \in formRows, r.doc = c.doc, c.doc \notin spoiled
               PROVE  FALSE
    BY <1>2, <1>3, <1>6 DEF RowsOK
  <2>1. c.doc \in Live \ spoiled
    BY <1>3 DEF RowsOK
  <2>2. AtWork(c.doc, M, h, N, c.row, c.version)
    BY <1>1, <2>1, AloneAtWork
  <2>3. RemovalUnderWay(c.doc, M)
    BY <1>7, <2>2, AtWorkMode
  <2>4. Delete(r.part) \in M
    BY <2>3 DEF RemovalUnderWay
  <2>5. Delete(r.part) \in N
    BY <1>1, <1>4, <2>4, StepsDo DEF Takes
  <2> QED
    BY <1>1, <1>4, <2>5, After, StepsDo
<1>10. ASSUME NEW d, NEW K, NEW row, NEW v, d \in Live', Following(w, d, K, row, v)
       PROVE  FALSE
  BY <1>6, <1>10 DEF Following
<1> QED
  BY <1>1, <1>2, <1>3, <1>5, <1>6, <1>8, <1>9, <1>10, StepKeeps

LEMMA WipeKeeps ==
  ASSUME DocInv, NEW w \in Writer, WipeDirectory(w)
  PROVE  DocInv'
<1>1. w \in Busy /\ Head(writer[w].todo).do = "wipe"
  BY DEF WipeDirectory, Doing
<1>2. /\ file' = NoFiles /\ debugCopy' = NoFiles
      /\ UNCHANGED <<docs, formRows, uses, spoiled, kept, sourced, docCalls, docFaults>>
  BY DEF WipeDirectory
<1>3. RestTyped /\ Stepped(w)
  BY <1>1, AdvanceStepped DEF DocInv, WipeDirectory
<1>4. NoFiles \in [FileName -> Versions]
  BY DocAssumption DEF NoFiles, Versions
<1>5. RestTyped'
  BY <1>2, <1>3, <1>4 DEF RestTyped
<1>6. Live' = Live
  BY <1>2 DEF Live
<1>7. RowsOK'
  BY <1>2, <1>6 DEF DocInv, RowsOK
<1>8. ASSUME NEW d, NEW N, NEW row, NEW v, Following(w, d, N, row, v),
             AtWork(d, Left(writer[w].todo), Head(writer[w].todo), N, row, v)
      PROVE  Progress(d, N, row, v)'
  BY <1>1, <1>2, <1>8, WipeProgress
<1> QED
  BY <1>1, <1>2, <1>3, <1>5, <1>6, <1>7, <1>8, StepKeeps

LEMMA WriteKeeps ==
  ASSUME DocInv, NEW w \in Writer, WriteFile(w)
  PROVE  DocInv'
<1> DEFINE c == writer[w]
<1>1. w \in Busy /\ Head(c.todo).do = "write"
  BY DEF WriteFile, Doing
<1>2. /\ file' = [file EXCEPT ![c.row.name] = c.version]
      /\ sourced' = IF \E r \in formRows : r.doc = c.doc /\ r.version = c.version
                    THEN sourced \ {c.doc} ELSE sourced \cup {c.doc}
      /\ UNCHANGED <<docs, formRows, debugCopy, uses, spoiled, kept, docCalls, docFaults>>
  BY DEF WriteFile
<1>3. RestTyped /\ Stepped(w)
  BY <1>1, AdvanceStepped DEF DocInv, WriteFile
<1>4. c.doc \in Doc /\ c.version \in Versions
  BY <1>1, BusyCall
<1>5. RestTyped'
  BY <1>2, <1>3, <1>4 DEF RestTyped
<1>6. Live' = Live
  BY <1>2 DEF Live
<1>7. RowsOK'
  BY <1>2, <1>6 DEF DocInv, RowsOK
<1>8. ASSUME NEW d, NEW N, NEW row, NEW v, Following(w, d, N, row, v),
             AtWork(d, Left(c.todo), Head(c.todo), N, row, v)
      PROVE  Progress(d, N, row, v)'
  <2>1. d = c.doc /\ row = c.row /\ v = c.version
    BY <1>8 DEF Following
  <2>2. file \in [FileName -> Versions]
    BY <1>3 DEF RestTyped
  <2>3. /\ file' = [file EXCEPT ![row.name] = v]
        /\ sourced' = IF \E r \in formRows : r.doc = d /\ r.version = v
                      THEN sourced \ {d} ELSE sourced \cup {d}
    BY <1>2, <2>1
  <2> QED
    BY <1>1, <1>2, <1>8, <2>2, <2>3, WriteProgress
<1> QED
  BY <1>1, <1>2, <1>3, <1>5, <1>6, <1>7, <1>8, StepKeeps

LEMMA DebugKeeps ==
  ASSUME DocInv, NEW w \in Writer, WriteDebugCopy(w)
  PROVE  DocInv'
<1> DEFINE c == writer[w] h == Head(c.todo)
<1>1. w \in Busy /\ h.do \in {"debug", "refresh"}
  BY DEF WriteDebugCopy, Doing
<1>2. /\ debugCopy' =
           IF h.do = "refresh" /\ debugCopy[c.row.name] = 0 THEN debugCopy
           ELSE [debugCopy EXCEPT ![c.row.name] =
                   IF h.do = "debug" /\ c.row.kind = "online" THEN file[c.row.name]
                   ELSE c.version]
      /\ UNCHANGED <<docs, formRows, file, uses, spoiled, kept, sourced, docCalls, docFaults>>
  BY <1>1 DEF WriteDebugCopy, Doing
<1>3. RestTyped /\ Stepped(w)
  BY <1>1, AdvanceStepped DEF DocInv, WriteDebugCopy
<1>4. c.version \in Versions /\ c.row \in DocRow
  BY <1>1, BusyCall
<1>5. RestTyped'
  <2>1. c.row.name \in FileName
    BY <1>4 DEF DocRow, UploadRow, OnlineRow
  <2>2. file[c.row.name] \in Versions
    BY <1>3, <2>1 DEF RestTyped
  <2>3. debugCopy' \in [FileName -> Versions]
    BY <1>2, <1>3, <1>4, <2>2 DEF RestTyped
  <2> QED
    BY <1>2, <1>3, <2>3 DEF RestTyped
<1>6. Live' = Live
  BY <1>2 DEF Live
<1>7. RowsOK'
  BY <1>2, <1>6 DEF DocInv, RowsOK
<1>8. ASSUME NEW d, NEW N, NEW row, NEW v, Following(w, d, N, row, v),
             AtWork(d, Left(c.todo), h, N, row, v)
      PROVE  Progress(d, N, row, v)'
  <2>1. row = c.row /\ v = c.version
    BY <1>8 DEF Following
  <2>2. /\ file \in [FileName -> Versions] /\ debugCopy \in [FileName -> Versions]
        /\ \A r \in formRows : r = RowOf(r.doc, r.part, r.version)
    BY <1>3 DEF RestTyped, DocInv, RowsOK
  <2>3. debugCopy' =
          IF h.do = "refresh" /\ debugCopy[row.name] = 0 THEN debugCopy
          ELSE [debugCopy EXCEPT ![row.name] =
                  IF h.do = "debug" /\ row.kind = "online" THEN file[row.name] ELSE v]
    BY <1>2, <2>1
  <2> QED
    BY <1>1, <1>2, <1>8, <2>2, <2>3, DebugProgress
<1> QED
  BY <1>1, <1>2, <1>3, <1>5, <1>6, <1>7, <1>8, StepKeeps

LEMMA UseKeeps ==
  ASSUME DocInv, NEW w \in Writer, InsertUse(w)
  PROVE  DocInv'
<1>1. w \in Busy /\ Head(writer[w].todo).do = "use"
  BY DEF InsertUse, Doing
<1>2. UNCHANGED <<docs, formRows, file, debugCopy, spoiled, kept, sourced, docCalls, docFaults>>
  BY DEF InsertUse
<1>3. RestTyped /\ Stepped(w)
  BY <1>1, AdvanceStepped DEF DocInv, InsertUse
<1>4. RestTyped'
  BY <1>2, <1>3 DEF RestTyped, InsertUse
<1>5. Live' = Live
  BY <1>2 DEF Live
<1>6. RowsOK'
  BY <1>2, <1>5 DEF DocInv, RowsOK
<1>7. ASSUME NEW d, NEW N, NEW row, NEW v, Following(w, d, N, row, v),
             AtWork(d, Left(writer[w].todo), Head(writer[w].todo), N, row, v)
      PROVE  Progress(d, N, row, v)'
  <2>1. docs[d] \in DocRow
    BY <1>7 DEF AtWork
  <2> QED
    BY <1>1, <1>2, <1>7, <2>1, UseProgress
<1> QED
  BY <1>1, <1>2, <1>3, <1>4, <1>5, <1>6, <1>7, StepKeeps

\* A new row has no form, no call failed on it, and no other call knows it.
LEMMA RowKeeps ==
  ASSUME DocInv, NEW w \in Writer, InsertJmx(w)
  PROVE  DocInv'
<1> DEFINE c == writer[w]
<1>1. PICK d \in Doc :
        /\ docs[d] = NoDoc
        /\ docs' = [docs EXCEPT ![d] = c.row]
        /\ writer' = [writer EXCEPT ![w].doc = d, ![w].todo = Tail(c.todo)]
        /\ spoiled' = IF c.shared THEN spoiled \cup Live \cup {d} ELSE spoiled
  BY DEF InsertJmx
<1>2. /\ w \in Busy /\ Head(c.todo).do = "row"
      /\ UNCHANGED <<formRows, file, debugCopy, uses, kept, sourced, docCalls, docFaults>>
  BY DEF InsertJmx, Doing
<1>3. PICK M, h, N, row, v :
        /\ M = Left(c.todo) /\ h = Head(c.todo) /\ N = Left(Tail(c.todo))
        /\ row = c.row /\ v = c.version
  OBVIOUS
<1>4. /\ CallOK(w) /\ c.doc = 0 /\ c.todo \in Seq(Step) /\ c.todo # <<>>
      /\ row \in DocRow /\ c.shared \in BOOLEAN
      /\ Takes(M, h, N) /\ Ordered(Tail(c.todo)) /\ Known(M, row)
      /\ Do("row") \notin N /\ c \in BusyWrite
  BY <1>2, <1>3, BusyCall, BusyAre DEF DocInv
<1>5. RestTyped /\ WritersTyped /\ RowsOK /\ \A e \in spoiled : docs[e] # NoDoc
  BY DEF DocInv
<1>6. \A r \in formRows : r.doc # d
  BY <1>1, <1>5 DEF RowsOK, Live
<1>7. N # {} /\ UnderWay(d, N, row, v)'
  BY <1>1, <1>2, <1>3, <1>4, <1>5, <1>6, RowProgress, ZenonT(40) DEF RestTyped
<1>8. Tail(c.todo) # <<>> /\ Tail(c.todo) \in Seq(Step)
  BY <1>3, <1>4, <1>7, LeftOfRest
<1>9. /\ writer' = [writer EXCEPT ![w] = [c EXCEPT !.doc = d, !.todo = Tail(c.todo)]]
  BY <1>1, <1>5 DEF WritersTyped
<1> DEFINE e == [c EXCEPT !.doc = d, !.todo = Tail(c.todo)]
<1>10. /\ e \in BusyWrite /\ e.doc = d /\ e.row = row /\ e.version = v
       /\ e.shared = c.shared /\ e.todo = Tail(c.todo)
  BY <1>3, <1>4, <1>8 DEF BusyWrite
<1> HIDE DEF e
<1>11. WritersTyped'
  BY <1>5, <1>9, <1>10 DEF WritersTyped, e
<1>12. /\ \A u \in Writer \ {w} : writer'[u] = writer[u]
       /\ writer'[w] = e
  BY <1>5, <1>9 DEF WritersTyped, e
<1>13. Busy' = Busy
  BY <1>2, <1>8, <1>10, <1>12 DEF Busy
<1>14. row \notin {NoDoc, GoneDoc}
  BY <1>4 DEF DocRow, UploadRow, OnlineRow, NoDoc, GoneDoc
<1>15. Live' = Live \cup {d}
  BY <1>1, <1>3, <1>5, <1>14 DEF Live, RestTyped
<1>16. RestTyped'
  BY <1>1, <1>2, <1>3, <1>4, <1>5 DEF RestTyped, Live
<1>17. spoiled \subseteq spoiled' /\ (c.shared => Live' \subseteq spoiled')
  BY <1>1, <1>15
<1>18. RowsOK'
  BY <1>2, <1>5, <1>15, <1>17 DEF RowsOK
<1>19. \A x \in Doc : docs[x] # NoDoc => docs'[x] # NoDoc
  BY <1>1, <1>3, <1>5, <1>14 DEF RestTyped
<1>20. \A x \in spoiled' : docs'[x] # NoDoc
  <2>1. docs'[d] # NoDoc
    BY <1>1, <1>3, <1>5, <1>14 DEF RestTyped
  <2>2. \A x \in Live : docs[x] # NoDoc /\ x \in Doc
    BY DEF Live
  <2> QED
    BY <1>1, <1>5, <1>19, <2>1, <2>2 DEF RestTyped
<1>21. ASSUME NEW u \in Busy', u # w PROVE CallOK(u)'
  <2>1. u \in Busy /\ writer'[u] = writer[u]
    BY <1>12, <1>13, <1>21 DEF Busy
  <2>2. /\ CallOK(u) /\ writer[u].shared \in BOOLEAN /\ writer[u].doc \in Doc \cup {0}
    BY <2>1, BusyCall
  <2>3. writer[u].shared /\ c.shared
    BY <1>2, <1>4, <1>21, <2>1, <2>2 DEF CallOK
  <2>4. writer[u].doc # 0 => docs'[writer[u].doc] # NoDoc
    BY <1>19, <2>2 DEF CallOK
  <2>5. writer[u].doc # 0 =>
          \/ writer[u].doc \in Live' \cup spoiled'
          \/ Left(writer[u].todo) = {Do("wipe")}
    BY <1>15, <1>17, <2>2 DEF CallOK
  <2> QED
    BY <1>2, <1>17, <2>1, <2>2, <2>3, <2>4, <2>5 DEF CallOK
<1>22. CallOK(w)'
  <2>1. Known(N, row)
    BY <1>4, <1>7, KnownRest
  <2>2. d # 0
    BY DocAssumption
  <2>3. ~c.shared => Busy' = {w}
    BY <1>4, <1>13 DEF CallOK
  <2>4. docs'[d] # NoDoc
    BY <1>1, <1>3, <1>5, <1>14 DEF RestTyped
  <2>5. v \in 1..docCalls'
    BY <1>2, <1>3, <1>4 DEF CallOK
  <2> QED
    BY <1>3, <1>4, <1>10, <1>12, <1>15, <1>17, <2>1, <2>2, <2>3, <2>4, <2>5 DEF CallOK
<1>23. ASSUME NEW x \in Live' \ spoiled' PROVE DocumentOK(x)'
  <2>1. ~c.shared
    BY <1>4, <1>17
  <2>2. Live = {} /\ Busy' = {w}
    BY <1>4, <1>13, <2>1 DEF CallOK
  <2>3. x = d /\ Live' = {d}
    BY <1>15, <2>2
  <2>4. /\ writer'[w].doc = d /\ Left(writer'[w].todo) = N
        /\ writer'[w].row = row /\ writer'[w].version = v
    BY <1>3, <1>10, <1>12
  <2> QED
    BY <1>7, <2>2, <2>3, <2>4 DEF DocumentOK
<1> QED
  BY <1>11, <1>16, <1>18, <1>20, <1>21, <1>22, <1>23 DEF DocInv

-----------------------------------------------------------------------------
(* The calls *)

LEMMA BeginsKeeps ==
  ASSUME DocInv, NEW w \in Writer, NEW d \in Live \cup {0}, NEW row \in DocRow,
         NEW todo \in Seq(Step), todo # <<>>, Ordered(todo), Known(Left(todo), row),
         Do("row") \in Left(todo) <=> d = 0,
         d = 0 => Live = {},
         \A v : d \in Live /\ Good(d) /\ (\A r \in formRows : r.doc = d => r.version # v)
                  => UnderWay(d, Left(todo), row, v),
         Begins(w, d, row, todo)
  PROVE  DocInv'
<1> DEFINE e == [doc |-> d, todo |-> todo, row |-> row, version |-> docCalls + 1,
                 shared |-> Busy # {}]
<1>1. RestTyped /\ WritersTyped /\ RowsOK
  BY DEF DocInv
<1>2. /\ w \notin Busy /\ docCalls < MaxDocCall /\ docCalls' = docCalls + 1
      /\ spoiled' = IF Busy = {} THEN spoiled ELSE spoiled \cup Live
      /\ UNCHANGED <<docs, formRows, file, debugCopy, uses, kept, sourced, docFaults>>
  BY DEF Begins
<1>3. writer' = [u \in Writer |->
         CASE u = w -> e
           [] u \in Busy -> [writer[u] EXCEPT !.shared = TRUE]
           [] OTHER -> NoWrite]
  BY DEF Begins
<1>4. Live \subseteq Doc /\ 0 \notin Doc
  BY DocAssumption DEF Live
<1>5. docCalls \in Nat /\ docCalls + 1 \in 1..MaxDocCall /\ docCalls + 1 \in Versions
  BY <1>1, <1>2, DocAssumption DEF RestTyped, Versions
<1>6. (Busy # {}) \in BOOLEAN
  OBVIOUS
<1>7. /\ e \in BusyWrite /\ e.doc = d /\ e.todo = todo /\ e.row = row
      /\ e.version = docCalls + 1 /\ e.shared = (Busy # {})
  <2>1. d \in Doc \cup {0} /\ todo \in Seq(Step) \ {<<>>}
    BY <1>4
  <2>2. e \in BusyWrite
    BY <1>5, <1>6, <2>1, Zenon DEF BusyWrite
  <2> QED
    BY <2>2, Zenon
<1> HIDE DEF e
<1>8. writer'[w] = e
  BY <1>2, <1>3
<1>9. ASSUME NEW u \in Busy
      PROVE  /\ u # w /\ u \in Writer /\ writer[u] \in BusyWrite
             /\ writer'[u] = [writer[u] EXCEPT !.shared = TRUE]
             /\ writer'[u] \in BusyWrite
             /\ writer'[u].doc = writer[u].doc /\ writer'[u].todo = writer[u].todo
             /\ writer'[u].row = writer[u].row /\ writer'[u].version = writer[u].version
             /\ writer'[u].shared = TRUE
  <2>1. u # w /\ u \in Writer /\ writer[u] \in BusyWrite
    BY <1>1, <1>2, BusyAre
  <2>2. writer'[u] = [writer[u] EXCEPT !.shared = TRUE]
    BY <1>3, <2>1
  <2>3. /\ [writer[u] EXCEPT !.shared = TRUE] \in BusyWrite
        /\ [writer[u] EXCEPT !.shared = TRUE].doc = writer[u].doc
        /\ [writer[u] EXCEPT !.shared = TRUE].todo = writer[u].todo
        /\ [writer[u] EXCEPT !.shared = TRUE].row = writer[u].row
        /\ [writer[u] EXCEPT !.shared = TRUE].version = writer[u].version
        /\ [writer[u] EXCEPT !.shared = TRUE].shared = TRUE
    BY <2>1 DEF BusyWrite
  <2> QED
    BY <2>1, <2>2, <2>3
<1>10. \A u \in Writer : u # w /\ u \notin Busy => writer'[u] = NoWrite
  BY <1>3
<1>11. WritersTyped'
  <2>1. \A u \in Writer : writer'[u] \in BusyWrite \cup {NoWrite}
    BY <1>7, <1>8, <1>9, <1>10
  <2>2. writer' = [u \in Writer |-> writer'[u]]
    BY <1>3
  <2> QED
    BY <2>1, <2>2 DEF WritersTyped
<1>12. Busy' = Busy \cup {w}
  <2>1. ASSUME NEW u \in Writer PROVE u \in Busy' <=> u \in Busy \cup {w}
    <3>1. CASE u = w
      BY <1>7, <1>8, <3>1 DEF Busy
    <3>2. CASE u # w /\ u \in Busy
      BY <1>9, <3>2 DEF Busy
    <3>3. CASE u # w /\ u \notin Busy
      BY <1>10, <3>3 DEF Busy, NoWrite
    <3> QED
      BY <3>1, <3>2, <3>3
  <2>2. Busy \subseteq Writer /\ Busy' \subseteq Writer
    BY DEF Busy
  <2> QED
    BY <2>1, <2>2
<1>13. Live' = Live
  BY <1>2 DEF Live
<1>14. RestTyped'
  BY <1>1, <1>2, <1>4, <1>5 DEF RestTyped
<1>15. spoiled \subseteq spoiled' /\ (Busy # {} => Live' \subseteq spoiled')
  BY <1>2, <1>13
<1>16. RowsOK'
  BY <1>1, <1>2, <1>5, <1>13, <1>15 DEF RowsOK
<1>17. \A x \in spoiled' : docs'[x] # NoDoc
  BY <1>2 DEF DocInv, Live
<1>18. CallOK(w)'
  <2>1. docCalls + 1 \in 1..docCalls'
    BY <1>2, <1>5
  <2>2. d # 0 => d \in Live' /\ docs'[d] # NoDoc
    BY <1>2, <1>13 DEF Live
  <2>3. Busy = {} => Busy' = {w}
    BY <1>12
  <2> QED
    BY <1>2, <1>7, <1>8, <1>13, <1>15, <2>1, <2>2, <2>3 DEF CallOK
<1>19. ASSUME NEW u \in Busy PROVE CallOK(u)'
  <2>1. /\ writer'[u].doc = writer[u].doc /\ writer'[u].todo = writer[u].todo
        /\ writer'[u].row = writer[u].row /\ writer'[u].version = writer[u].version
        /\ writer'[u].shared = TRUE
    BY <1>9
  <2>2. CallOK(u) /\ Live' \subseteq spoiled'
    BY <1>15, <1>19 DEF DocInv
  <2>3. writer[u].version \in 1..docCalls'
    BY <1>2, <1>5, <2>2 DEF CallOK
  <2>4. Ordered(writer[u].todo) /\ Known(Left(writer[u].todo), writer[u].row)
        /\ (Do("row") \in Left(writer[u].todo) <=> writer[u].doc = 0)
    BY <2>2 DEF CallOK
  <2>5. writer[u].doc # 0 =>
          /\ docs'[writer[u].doc] # NoDoc
          /\ \/ writer[u].doc \in Live' \cup spoiled'
             \/ Left(writer[u].todo) = {Do("wipe")}
    BY <1>2, <1>13, <1>15, <2>2 DEF CallOK
  <2> QED
    BY <2>1, <2>2, <2>3, <2>4, <2>5 DEF CallOK
<1>20. ASSUME NEW x \in Live' \ spoiled' PROVE DocumentOK(x)'
  <2>1. Busy = {} /\ x \in Live \ spoiled
    BY <1>13, <1>15
  <2>2. Live = {x} /\ Good(x)
    BY <2>1 DEF DocInv, DocumentOK
  <2>3. d = x
    BY <2>2
  <2>4. PICK v : v = docCalls + 1
    OBVIOUS
  <2>5. \A r \in formRows : r.version # v
    BY <1>1, <1>5, <2>4 DEF RowsOK
  <2>6. PICK M : M = Left(todo)
    OBVIOUS
  <2>7. UnderWay(x, M, row, v)
    BY <2>2, <2>3, <2>5, <2>6
  <2>8. UnderWay(x, M, row, v)'
    BY <1>2, <2>7 DEF UnderWay, Good, FormWhole, RowsOfPart, TextUnderWay, RemovalUnderWay,
                      UploadUnderWay, FormUnderWay, GroupUnderWay
  <2>9. Busy' = {w} /\ Live' = {x}
    BY <1>12, <1>13, <2>1, <2>2
  <2> QED
    BY <1>7, <1>8, <2>3, <2>4, <2>6, <2>8, <2>9 DEF DocumentOK
<1> QED
  BY <1>11, <1>12, <1>14, <1>16, <1>17, <1>18, <1>19, <1>20 DEF DocInv

LEMMA UploadKeeps ==
  ASSUME DocInv, NEW w \in Writer, UploadJmx(w)
  PROVE  DocInv'
<1> DEFINE a == Do("row") b == Do("write") c == Do("debug")
           todo == <<a, b, c>>
<1>1. PICK row \in UploadRow : Begins(w, 0, row, todo) /\ Live = {}
  BY DEF UploadJmx
<1>2. row \in DocRow /\ row.kind = "upload"
  BY DEF DocRow, UploadRow
<1>3. /\ a \in Step /\ b \in Step /\ c \in Step
      /\ a.do = "row" /\ b.do = "write" /\ c.do = "debug"
      /\ Rank(a) = 0 /\ Rank(b) = 5 /\ Rank(c) = 6
  BY StepsAreSteps, StepsDo DEF Rank, Steps
<1> HIDE DEF a, b, c
<1>4. a # b /\ a # c /\ b # c
  BY <1>3
<1>5. /\ todo \in Seq(Step) /\ todo # <<>> /\ DOMAIN todo = 1..3
      /\ todo[1] = a /\ todo[2] = b /\ todo[3] = c
  BY <1>3
<1> HIDE DEF todo
<1>6. Left(todo) = {a, b, c}
  BY <1>5 DEF Left
<1>7. Ordered(todo)
  BY <1>3, <1>4, <1>5 DEF Ordered
<1>8. Uploading(Left(todo))
  BY <1>6 DEF Uploading, a, b, c
<1>9. Known(Left(todo), row)
  BY <1>2, <1>8 DEF Known
<1>10. Do("row") \in Left(todo)
  BY <1>6 DEF a
<1> QED
  BY <1>1, <1>2, <1>5, <1>7, <1>9, <1>10, BeginsKeeps

LEMMA AddKeeps ==
  ASSUME DocInv, NEW w \in Writer, AddOnlineJmx(w)
  PROVE  DocInv'
<1> DEFINE a == Do("row") b == Do("wipe")
<1>1. PICK row \in OnlineRow :
        Begins(w, 0, row, <<a, b>> \o FormSteps(row.group)) /\ Live = {}
  BY DEF AddOnlineJmx
<1> DEFINE g == row.group todo == <<a, b>> \o FormSteps(g)
<1>2. row \in DocRow /\ row.kind = "online" /\ g \in GroupType
  BY DEF DocRow, OnlineRow
<1>3. /\ a \in Step /\ b \in Step /\ a.do = "row" /\ b.do = "wipe"
      /\ Rank(a) = 0 /\ Rank(b) = 3
  BY StepsAreSteps, StepsDo DEF Rank, Steps
<1>4. /\ FormSteps(g) \in Seq(Step) /\ Ordered(FormSteps(g))
      /\ Left(FormSteps(g)) =
           {Insert(p) : p \in Part \cup {g}} \cup {Do("write"), Do("debug")}
  BY <1>2, FormStepsLeft
<1>5. \A s \in Left(FormSteps(g)) : Rank(s) \in {4, 5, 6}
  BY <1>4, StepsDo DEF Rank
<1>6. <<a, b>> \in Seq(Step) /\ Ordered(<<a, b>>) /\ Left(<<a, b>>) = {a, b}
  BY <1>3, OrderedTwo
<1>7. \A s \in Left(<<a, b>>), t \in Left(FormSteps(g)) : Rank(s) < Rank(t)
  BY <1>3, <1>5, <1>6
<1>8. /\ todo \in Seq(Step) /\ Ordered(todo)
      /\ Left(todo) = {a, b} \cup Left(FormSteps(g))
  BY <1>4, <1>6, <1>7, OrderedThen
<1>9. todo # <<>>
  <2>1. Left(<<>>) = {}
    BY DEF Left
  <2> QED
    BY <1>8, <2>1
<1>10. Begins(w, 0, row, todo)
  BY <1>1
<1> HIDE DEF todo
<1>11. Forming(Left(todo), g)
  <2>1. Left(todo) = {a, b} \cup {Insert(p) : p \in Part \cup {g}}
                     \cup {Do("write"), Do("debug")}
    BY <1>4, <1>8
  <2>2. \A p \in Part \cup {g} : Insert(p) \in Left(todo)
    BY <2>1
  <2>3. Do("write") \in Left(todo) /\ Do("debug") \in Left(todo)
    BY <2>1
  <2>4. ASSUME NEW s \in Left(todo)
        PROVE  /\ s.do \in {"row", "wipe", "insert", "write", "debug"}
               /\ s.do = "insert" => s.part \in Part \cup {g}
    BY <1>3, <2>1, StepsDo
  <2> QED
    BY <2>2, <2>3, <2>4 DEF Forming
<1>12. Known(Left(todo), row)
  BY <1>2, <1>11 DEF Known
<1>13. Do("row") \in Left(todo)
  BY <1>8
<1> QED
  BY <1>1, <1>2, <1>8, <1>9, <1>10, <1>12, <1>13, BeginsKeeps

\* The rows of a part that is not deleted first are those that the insertion
\* adds to: the thread group, when its type stays.
LEMMA UpdateKeeps ==
  ASSUME DocInv, NEW w \in Writer, UpdateOnlineJmx(w)
  PROVE  DocInv'
<1>1. PICK d \in Live, row \in OnlineRow :
        /\ docs[d].kind = "online"
        /\ Begins(w, d, row,
               (IF row.group # docs[d].group THEN <<Delete(docs[d].group)>> ELSE <<>>)
               \o <<Delete("sample"), Delete("assertion"), Delete("csv"), Do("edit")>>
               \o FormSteps(row.group))
  BY DEF UpdateOnlineJmx
<1> DEFINE g == row.group k == docs[d].group
           p == IF g # k THEN <<Delete(k)>> ELSE <<>>
           x == Delete("sample") y == Delete("assertion") z == Delete("csv")
           u == Do("edit")
           q == <<x, y, z, u>>
           F == FormSteps(g)
           D == {Delete(m) : m \in Part} \cup (IF g # k THEN {Delete(k)} ELSE {})
           todo == (p \o q) \o F
<1>2. /\ row \in DocRow /\ row.kind = "online" /\ g \in GroupType
      /\ d \in Doc /\ docs[d] \in DocRow /\ RestTyped
  BY DEF DocRow, OnlineRow, DocInv, Live, RestTyped
<1>3. k \in GroupType
  BY <1>1, <1>2 DEF DocRow, OnlineRow, UploadRow
<1>4. /\ x \in Step /\ y \in Step /\ z \in Step /\ Delete(k) \in Step /\ u \in Step
      /\ x.do = "delete" /\ y.do = "delete" /\ z.do = "delete" /\ Delete(k).do = "delete"
      /\ u.do = "edit"
  BY <1>3, StepsAreSteps, StepsDo DEF Part, Steps
<1>5. p \in Seq(Step) /\ Ordered(p) /\ Left(p) = IF g # k THEN {Delete(k)} ELSE {}
  <2>1. CASE g # k
    BY <1>4, <2>1, OrderedOne
  <2>2. CASE g = k
    BY <2>2 DEF Ordered, Left
  <2> QED
    BY <2>1, <2>2
<1>6. {Delete(m) : m \in Part} = {x, y, z}
  BY DEF Part
<1>7. Begins(w, d, row, todo)
  BY <1>1
<1> HIDE DEF x, y, z, u, p
<1>8. /\ q \in Seq(Step) /\ DOMAIN q = 1..4
      /\ q[1] = x /\ q[2] = y /\ q[3] = z /\ q[4] = u
  BY <1>4
<1>9. Rank(x) = 1 /\ Rank(y) = 1 /\ Rank(z) = 1 /\ Rank(u) = 2
  BY <1>4, Ranks
<1> HIDE DEF q
<1>10. Left(q) = {x, y, z, u}
  BY <1>8 DEF Left
<1>11. Ordered(q)
  BY <1>4, <1>8, <1>9 DEF Ordered
<1>12. \A s \in Left(p), t \in Left(q) : Before(s, t)
  <2>1. \A s \in Left(p) : s.do = "delete" /\ Rank(s) = 1
    BY <1>4, <1>5, Ranks
  <2>2. \A t \in Left(q) : t.do = "delete" \/ Rank(t) = 2
    BY <1>4, <1>9, <1>10
  <2>3. ASSUME NEW s \in Left(p), NEW t \in Left(q)
        PROVE  Before(s, t)
    <3>1. CASE t.do = "delete"
      BY <2>1, <3>1 DEF Before
    <3>2. CASE Rank(t) = 2
      <4>1. Rank(s) = 1
        BY <2>1
      <4>2. Rank(s) < Rank(t)
        BY <3>2, <4>1
      <4> QED
        BY <4>2 DEF Before
    <3> QED
      BY <2>2, <3>1, <3>2
  <2> QED
    BY <2>3
<1>13. /\ p \o q \in Seq(Step) /\ Ordered(p \o q)
       /\ Left(p \o q) = Left(p) \cup Left(q)
  BY <1>5, <1>8, <1>11, <1>12, OrderedBoth
<1>14. Left(p \o q) = D \cup {u}
  BY <1>5, <1>6, <1>10, <1>13
<1>15. /\ F \in Seq(Step) /\ F # <<>> /\ Ordered(F)
       /\ Left(F) = {Insert(m) : m \in Part \cup {g}} \cup {Do("write"), Do("debug")}
  BY <1>2, FormStepsLeft
<1>16. \A s \in Left(F) : Rank(s) \in {4, 5, 6}
  BY <1>15, StepsDo DEF Rank
<1>17. \A s \in Left(p \o q) : Rank(s) \in {1, 2}
  BY <1>4, <1>5, <1>9, <1>10, <1>13, Ranks
<1> HIDE DEF F
<1>18. \A s \in Left(p \o q), t \in Left(F) : Rank(s) < Rank(t)
  BY <1>16, <1>17
<1>19. /\ todo \in Seq(Step) /\ Ordered(todo)
       /\ Left(todo) = Left(p \o q) \cup Left(F)
  BY <1>13, <1>15, <1>18, OrderedThen
<1> HIDE DEF todo
<1>22. Left(todo) = D \cup {u} \cup {Insert(m) : m \in Part \cup {g}}
                    \cup {Do("write"), Do("debug")}
  BY <1>14, <1>15, <1>19
<1>23. todo # <<>>
  <2>1. Left(<<>>) = {}
    BY DEF Left
  <2> QED
    BY <1>22, <2>1
<1>24. u = Do("edit") /\ k \in GroupType /\ g \in GroupType
  BY <1>2, <1>3 DEF u
<1> HIDE DEF D
<1>25. /\ \A m \in Part : Delete(m) \in D
       /\ g # k => Delete(k) \in D
       /\ \A s \in D : s.do = "delete" /\ (s.part \in Part \/ s.part \in GroupType \ {g})
  BY <1>24, StepsDo DEF D
<1>26. Forming(Left(todo), g)
  <2>1. \A m \in Part \cup {g} : Insert(m) \in Left(todo)
    BY <1>22
  <2>2. /\ Do("write") \in Left(todo) /\ Do("debug") \in Left(todo)
        /\ Do("edit") \in Left(todo)
    BY <1>22, <1>24
  <2>3. ASSUME NEW s \in Left(todo)
        PROVE  /\ s.do \in {"delete", "edit", "insert", "write", "debug"}
               /\ s.do = "insert" => s.part \in Part \cup {g}
               /\ s.do = "delete" => s.part \in Part \/ s.part \in GroupType \ {g}
    BY <1>4, <1>22, <1>25, StepsDo
  <2> QED
    BY <2>1, <2>2, <2>3 DEF Forming
<1>27. Known(Left(todo), row)
  BY <1>2, <1>26 DEF Known
<1>28. d # 0 /\ Do("row") \notin Left(todo)
  <2>1. \A s \in Left(todo) : s.do # "row"
    BY <1>4, <1>22, <1>25, StepsDo
  <2> QED
    BY <1>2, <2>1, StepsDo, DocAssumption
<1>29. ASSUME NEW v, Good(d), \A r \in formRows : r.doc = d => r.version # v
       PROVE  UnderWay(d, Left(todo), row, v)
  <2>1. ASSUME NEW r \in formRows, r.doc = d
        PROVE  Delete(r.part) \in Left(todo) \/ r.part = g
    <3>1. r.part \in Part \cup GroupType
      BY <1>2 DEF RestTyped, FormRow
    <3>2. CASE r.part \in Part
      BY <1>22, <1>25, <3>2
    <3>3. CASE r.part \in GroupType
      <4>1. RowsOfPart(d, r.part) # {}
        BY <2>1 DEF RowsOfPart
      <4>2. r.part = k
        BY <1>1, <1>29, <3>3, <4>1 DEF Good, FormWhole
      <4> QED
        BY <1>22, <1>25, <4>2
    <3> QED
      BY <3>1, <3>2, <3>3
  <2>2. \A m \in Part \cup {g} : Insert(m) \in Left(todo)
    BY <1>22
  <2>3. Do("edit") \in Left(todo) /\ Do("write") \in Left(todo)
    BY <1>22, <1>24
  <2>4. GroupUnderWay(d, Left(todo), row, v)
    <3>1. ASSUME NEW r \in formRows, r.doc = d, r.part = g, g # k PROVE FALSE
      <4>1. r \in RowsOfPart(d, g)
        BY <3>1 DEF RowsOfPart
      <4>2. g \in GroupType \ {k}
        BY <1>24, <3>1
      <4> QED
        BY <1>1, <1>29, <4>1, <4>2 DEF Good, FormWhole
    <3> QED
      BY <2>3, <3>1 DEF GroupUnderWay
  <2>5. FormUnderWay(d, Left(todo), row, v)
    BY <2>1, <2>2, <2>3, <2>4 DEF FormUnderWay
  <2> QED
    BY <1>2, <1>26, <2>5, Kinds DEF UnderWay
<1> QED
  BY <1>2, <1>7, <1>19, <1>23, <1>27, <1>28, <1>29, BeginsKeeps

LEMMA ContentKeeps ==
  ASSUME DocInv, NEW w \in Writer, UpdateJmxContent(w)
  PROVE  DocInv'
<1> DEFINE a == Do("write") b == Do("refresh") todo == <<a, b>>
<1>1. PICK d \in Live : Begins(w, d, docs[d], todo)
  BY DEF UpdateJmxContent
<1>2. /\ d \in Doc /\ docs[d] \in DocRow /\ d # 0
  BY DocAssumption DEF DocInv, Live, RestTyped
<1>3. a \in Step /\ b \in Step /\ Rank(a) = 5 /\ Rank(b) = 6
  BY StepsAreSteps, StepsDo DEF Rank, Steps
<1>4. todo \in Seq(Step) /\ Ordered(todo) /\ Left(todo) = {a, b} /\ todo # <<>>
  BY <1>3, OrderedTwo
<1>5. Editing(Left(todo))
  BY <1>4 DEF Editing
<1>6. Known(Left(todo), docs[d]) /\ Do("row") \notin Left(todo)
  BY <1>4, <1>5, StepsDo DEF Known
<1>7. ASSUME NEW v, Good(d), \A r \in formRows : r.doc = d => r.version # v
      PROVE  UnderWay(d, Left(todo), docs[d], v)
  <2>1. TextUnderWay(d, Left(todo), docs[d], v)
    BY <1>4, <1>7 DEF TextUnderWay, Good
  <2> QED
    BY <1>5, <2>1, Kinds DEF UnderWay
<1> HIDE DEF todo
<1> QED
  BY <1>1, <1>2, <1>4, <1>6, <1>7, BeginsKeeps

\* The last two steps of a deletion, after the tables of the form if any.
LEMMA RemovalKeeps ==
  ASSUME DocInv, NEW w \in Writer, NEW d \in Live, NEW p \in Seq(Step), Ordered(p),
         \A s \in Left(p) : s.do = "delete",
         docs[d].kind = "online" => \A part \in Part \cup GroupType : Delete(part) \in Left(p),
         Begins(w, d, docs[d], p \o RemoveSteps)
  PROVE  DocInv'
<1> DEFINE a == Do("remove") b == Do("wipe") todo == p \o RemoveSteps
<1>1. d \in Doc /\ docs[d] \in DocRow /\ d # 0 /\ RestTyped
  BY DocAssumption DEF DocInv, Live, RestTyped
<1>2. /\ a \in Step /\ b \in Step /\ Rank(a) = 2 /\ Rank(b) = 3
      /\ a.do = "remove" /\ b.do = "wipe"
  BY StepsAreSteps, StepsDo DEF Rank, Steps
<1>3. /\ RemoveSteps \in Seq(Step) /\ Ordered(RemoveSteps) /\ Left(RemoveSteps) = {a, b}
  BY <1>2, OrderedTwo DEF RemoveSteps
<1>4. \A s \in Left(p) : Rank(s) = 1
  BY DEF Rank
<1>5. \A s \in Left(p), t \in Left(RemoveSteps) : Rank(s) < Rank(t)
  BY <1>2, <1>3, <1>4
<1>6. todo \in Seq(Step) /\ Ordered(todo) /\ Left(todo) = Left(p) \cup {a, b}
  BY <1>3, <1>5, OrderedThen
<1>7. todo # <<>>
  <2>1. Left(<<>>) = {}
    BY DEF Left
  <2> QED
    BY <1>6, <2>1
<1>8. Removing(Left(todo))
  BY <1>2, <1>6 DEF Removing
<1>9. Known(Left(todo), docs[d])
  BY <1>8 DEF Known
<1>10. Do("row") \notin Left(todo)
  BY <1>2, <1>6, StepsDo
<1>11. ASSUME NEW v, Good(d), \A r \in formRows : r.doc = d => r.version # v
       PROVE  UnderWay(d, Left(todo), docs[d], v)
  <2>1. RemovalUnderWay(d, Left(todo))
    <3>1. CASE docs[d].kind = "online"
      <4>1. \A r \in formRows : r.part \in Part \cup GroupType
        BY <1>1 DEF RestTyped, FormRow
      <4> QED
        BY <1>6, <3>1, <4>1 DEF RemovalUnderWay
    <3>2. CASE docs[d].kind # "online"
      BY <1>11, <3>2 DEF RemovalUnderWay, Good, FormWhole
    <3> QED
      BY <3>1, <3>2
  <2> QED
    BY <1>8, <2>1, Kinds DEF UnderWay
<1>12. Begins(w, d, docs[d], todo)
  OBVIOUS
<1> HIDE DEF todo
<1> QED
  BY <1>1, <1>6, <1>7, <1>9, <1>10, <1>11, <1>12, BeginsKeeps

LEMMA CascadeRemovalKeeps ==
  ASSUME DocInv, NEW w \in Writer, NEW d \in Live,
         Begins(w, d, docs[d], CascadeDelete \o RemoveSteps)
  PROVE  DocInv'
<1>1. /\ CascadeDelete \in Seq(Step) /\ Ordered(CascadeDelete)
      /\ Left(CascadeDelete) = {Delete(p) : p \in Part \cup GroupType}
  BY CascadeLeft
<1>2. /\ \A s \in Left(CascadeDelete) : s.do = "delete"
      /\ \A part \in Part \cup GroupType : Delete(part) \in Left(CascadeDelete)
  BY <1>1, StepsDo
<1> QED
  BY <1>1, <1>2, RemovalKeeps

LEMMA DeletionKeeps ==
  ASSUME DocInv, NEW w \in Writer, DeleteJmx(w) \/ ForceDeleteJmx(w)
  PROVE  DocInv'
<1>1. PICK d \in Live :
        \/ Begins(w, d, docs[d], CascadeDelete \o RemoveSteps)
        \/ /\ docs[d].kind # "online"
           /\ Begins(w, d, docs[d], <<>> \o RemoveSteps)
  BY DEF DeleteJmx, ForceDeleteJmx
<1>2. CASE Begins(w, d, docs[d], CascadeDelete \o RemoveSteps)
  BY <1>2, CascadeRemovalKeeps
<1>3. CASE /\ docs[d].kind # "online"
           /\ Begins(w, d, docs[d], <<>> \o RemoveSteps)
  <2>1. <<>> \in Seq(Step) /\ Ordered(<<>>) /\ Left(<<>>) = {}
    BY DEF Ordered, Left
  <2> QED
    BY <1>3, <2>1, RemovalKeeps
<1> QED
  BY <1>1, <1>2, <1>3

LEMMA AddUseKeeps ==
  ASSUME DocInv, NEW w \in Writer, AddUse(w)
  PROVE  DocInv'
<1> DEFINE a == Do("use") todo == <<a>>
<1>1. PICK d \in Live : Begins(w, d, docs[d], todo)
  BY DEF AddUse
<1>2. d \in Doc /\ docs[d] \in DocRow /\ d # 0
  BY DocAssumption DEF DocInv, Live, RestTyped
<1>3. a \in Step
  BY StepsAreSteps DEF Steps
<1>4. todo \in Seq(Step) /\ Ordered(todo) /\ Left(todo) = {a} /\ todo # <<>>
  BY <1>3, OrderedOne
<1>5. Known(Left(todo), docs[d]) /\ Do("row") \notin Left(todo)
  BY <1>4, StepsDo DEF Known
<1>6. ASSUME NEW v, Good(d) PROVE UnderWay(d, Left(todo), docs[d], v)
  <2>1. /\ Do("wipe") # a /\ Do("refresh") # a /\ Do("remove") # a /\ Do("debug") # a
    BY StepsDo
  <2> QED
    BY <1>4, <1>6, <2>1 DEF UnderWay
<1> HIDE DEF todo
<1> QED
  BY <1>1, <1>2, <1>4, <1>5, <1>6, BeginsKeeps

LEMMA DropUseKeeps ==
  ASSUME DocInv, NEW u, DropUse(u) \/ UNCHANGED docVars
  PROVE  DocInv'
<1>1. /\ UNCHANGED <<docs, formRows, file, debugCopy, writer, spoiled, kept, sourced,
                     docCalls, docFaults>>
      /\ uses' \subseteq uses
  BY DEF DropUse, docVars
<1>2. RestTyped' /\ WritersTyped'
  BY <1>1 DEF DocInv, RestTyped, WritersTyped
<1>3. Live' = Live /\ Busy' = Busy
  BY <1>1 DEF Live, Busy
<1>4. RowsOK' /\ \A d \in spoiled' : docs'[d] # NoDoc
  BY <1>1, <1>3 DEF DocInv, RowsOK
<1>5. ASSUME NEW w \in Busy PROVE CallOK(w)'
  BY <1>1, <1>3 DEF DocInv, CallOK
<1>6. ASSUME NEW d \in Live \ spoiled PROVE DocumentOK(d)'
  <2>1. DocumentOK(d)
    BY DEF DocInv
  <2>2. Good(d)' <=> Good(d)
    BY <1>1 DEF Good, FormWhole, RowsOfPart
  <2>3. ASSUME NEW w \in Busy
        PROVE  /\ writer'[w].doc = d
               /\ UnderWay(d, Left(writer[w].todo), writer[w].row, writer[w].version)'
    <3>1. /\ writer[w].doc = d
          /\ UnderWay(d, Left(writer[w].todo), writer[w].row, writer[w].version)
      BY <2>1 DEF DocumentOK
    <3> QED
      BY <1>1, <3>1 DEF UnderWay, Good, FormWhole, RowsOfPart, TextUnderWay,
                        RemovalUnderWay, UploadUnderWay, FormUnderWay,
                        GroupUnderWay, Left
  <2> QED
    BY <1>3, <2>1, <2>2, <2>3 DEF DocumentOK
<1> QED
  BY <1>1, <1>2, <1>3, <1>4, <1>5, <1>6 DEF DocInv

LEMMA FailureKeeps ==
  ASSUME DocInv, NEW w \in Writer, DocCallFails(w)
  PROVE  DocInv'
<1>1. docFaults' \in 0..MaxDocFault
  BY DocAssumption DEF DocCallFails, DocInv, RestTyped
<1> QED
  BY <1>1, EndKeeps DEF DocCallFails

LEMMA DocInitInv == DocInit => DocInv
<1> SUFFICES ASSUME DocInit PROVE DocInv
  OBVIOUS
<1>1. 1 \in Doc /\ 1 \in Versions /\ 0 \in Versions /\ docCalls = 1 /\ 1 \in 1..MaxDocCall
  BY DocAssumption DEF DocInit, Versions
<1>2. NoFiles \in [FileName -> Versions]
  BY <1>1 DEF NoFiles
<1>3. /\ \A w \in Writer : writer[w] = NoWrite
      /\ WritersTyped /\ Busy = {}
  BY DEF DocInit, WritersTyped, Busy, NoWrite
<1>4. CASE docs = [d \in Doc |-> NoDoc] /\ file = NoFiles /\ formRows = {}
  <2>1. RestTyped
    BY <1>1, <1>2, <1>4, DocAssumption DEF DocInit, RestTyped
  <2>2. Live = {}
    BY <1>4 DEF Live
  <2> QED
    BY <1>3, <1>4, <2>1, <2>2 DEF DocInit, DocInv, RowsOK
<1>5. ASSUME NEW row \in DocRow,
             docs = [d \in Doc |-> IF d = 1 THEN row ELSE NoDoc],
             file = [NoFiles EXCEPT ![row.name] = 1],
             formRows = IF row.kind = "online" THEN FormOf(1, row.group, 1) ELSE {}
      PROVE  DocInv
  <2>1. row.name \in FileName /\ row \notin {NoDoc, GoneDoc}
        /\ (row.kind = "online" => row.group \in GroupType)
    BY DEF DocRow, UploadRow, OnlineRow, NoDoc, GoneDoc
  <2>2. docs[1] = row /\ docs \in [Doc -> DocRow \cup {NoDoc, GoneDoc}] /\ Live = {1}
    BY <1>1, <1>5, <2>1 DEF Live
  <2>3. file \in [FileName -> Versions] /\ file[row.name] = 1 /\ debugCopy = file
    BY <1>1, <1>2, <1>5, <2>1 DEF DocInit
  <2>4. row.kind = "online" =>
          formRows = {RowOf(1, part, 1) : part \in Part \cup {row.group}}
    BY <1>5 DEF FormOf
  <2>5. formRows \subseteq FormRow
    <3>1. ASSUME NEW part \in Part \cup GroupType PROVE RowOf(1, part, 1) \in FormRow
      BY <1>1 DEF RowOf, FormRow
    <3> QED
      BY <1>5, <2>1, <2>4, <3>1
  <2>6. RestTyped
    BY <1>1, <2>2, <2>3, <2>5, DocAssumption DEF DocInit, RestTyped
  <2>7. RowsOK
    BY <1>1, <1>5, <2>2, <2>4, RowsAre DEF RowsOK
  <2>8. FormWhole(1)
    <3>1. CASE row.kind = "online"
      <4>1. row.group \notin Part
        BY <2>1, <3>1, DocAssumption
      <4>2. \A part \in Part \cup {row.group} : RowsOfPart(1, part) = {RowOf(1, part, 1)}
        BY <2>4, <3>1, RowsAre DEF RowsOfPart
      <4>3. \A g \in GroupType : g # row.group => RowsOfPart(1, g) = {}
        BY <2>4, <3>1, RowsAre, DocAssumption DEF RowsOfPart
      <4> QED
        BY <1>1, <2>1, <2>2, <2>3, <3>1, <4>2, <4>3 DEF FormWhole
    <3>2. CASE row.kind # "online"
      BY <1>5, <2>2, <3>2 DEF FormWhole
    <3> QED
      BY <3>1, <3>2
  <2>9. Good(1)
    BY <2>2, <2>3, <2>8 DEF Good
  <2> QED
    BY <1>3, <2>2, <2>6, <2>7, <2>9 DEF DocInit, DocInv, DocumentOK
<1> QED
  BY <1>4, <1>5 DEF DocInit

LEMMA DocStep == DocInv /\ [DocNext]_docVars => DocInv'
<1> SUFFICES ASSUME DocInv, [DocNext]_docVars PROVE DocInv'
  OBVIOUS
<1>1. ASSUME NEW w \in Writer, WriterStep(w) PROVE DocInv'
  BY <1>1, RowKeeps, EditKeeps, RemoveKeeps, DeleteKeeps, InsertKeeps, WipeKeeps,
     WriteKeeps, DebugKeeps, UseKeeps DEF WriterStep
<1>2. ASSUME NEW w \in Writer,
             \/ UploadJmx(w) \/ AddOnlineJmx(w) \/ UpdateOnlineJmx(w)
             \/ UpdateJmxContent(w) \/ DeleteJmx(w) \/ ForceDeleteJmx(w) \/ AddUse(w)
      PROVE  DocInv'
  BY <1>2, UploadKeeps, AddKeeps, UpdateKeeps, ContentKeeps, DeletionKeeps, AddUseKeeps
<1>3. ASSUME NEW w \in Writer, DocCallFails(w) PROVE DocInv'
  BY <1>3, FailureKeeps
<1>4. ASSUME NEW u \in uses, DropUse(u) PROVE DocInv'
  BY <1>4, DropUseKeeps
<1>5. CASE UNCHANGED docVars
  BY <1>5, DropUseKeeps
<1> QED
  BY <1>1, <1>2, <1>3, <1>4, <1>5 DEF DocNext

\* A document that no call failed on and no two calls overlapped on is whole
\* between calls, however the calls interleave: of every part there is the row
\* of one call, which is the call that made the file unless the file was edited
\* as text since, and the copy is of the file.  Beside it stands an older row
\* of the thread group only after an edit that kept its type, and what the row
\* of a CSV file says of its flags is as RowOf has it.  A deletion leaves no
\* row of a form.
THEOREM DocumentsReadBack == DocSpec => []DocumentReadsBack
<1>1. DocInv => DocumentReadsBack
  <2> SUFFICES ASSUME DocInv, Busy = {} PROVE DocumentReadsBack
    BY DEF DocumentReadsBack
  <2>1. {r.doc : r \in formRows} \subseteq Live \cup spoiled
    BY DEF DocInv, RowsOK
  <2>2. \A d \in Live \ spoiled : Good(d)
    BY DEF DocInv, DocumentOK
  <2> QED
    BY <2>1, <2>2 DEF Good, FormWhole, DocumentReadsBack, GroupsRead
<1> QED
  BY <1>1, DocInitInv, DocStep, PTL DEF DocSpec
=============================================================================
