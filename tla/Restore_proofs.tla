--------------------------- MODULE Restore_proofs ---------------------------
(***************************************************************************)
(* Proofs about Restore, for all records, destinations, filters, numbers   *)
(* of restores and faults: what a restore found stays where the policy     *)
(* says so, whatever symbolic and hard links are there; and what a restore *)
(* says of an entry is so, on a destination without links of its own or    *)
(* under a policy that overwrites nothing.                                 *)
(***************************************************************************)
EXTENDS Restore, TLAPS, FiniteSetTheorems, SequenceTheorems, WellFoundedInduction

(* Types. *)

Words == Dests \cup Parts \cup ToSet(RestoredNs)
EntryType == [path : Seq(Parts), kind : Kinds, blobs : Seq(Blobs), inode : Inodes \cup {0}]

\* What is written: the blobs of a file, the target of a link, or nothing.
Bodies ==
  {<<>>} \cup {e.blobs : e \in AllEntries}
    \cup {<<d>> \o e.blobs : d \in Dests, e \in AllEntries}
    \cup UNION {{b[p].body : p \in DOMAIN b} : b \in Before}
Node == [kind : Kinds, body : Bodies]

Asked == Filters \cup {{}}
Places == {"idle", "plan", "walk", "ended", "raised"}
Where(r) == [DOMAIN Records[r] -> Paths \cup {Nowhere}]
Runs ==
  [at : Places, rec : Recs, dest : Dests, keep : Asked, next : Nat \ {0},
   dead : SUBSET Seq(Parts), put : {<<>>} \cup UNION {Where(r) : r \in Recs},
   tried : SUBSET Nat, skipped : SUBSET Nat, failed : SUBSET Nat, told : SUBSET AllEntries]
Instances ==
  [trees : SUBSET TreeBlobs, placed : [Inodes -> Paths \cup {Nowhere}],
   scanned : {"no", "found", "missed"}]

Typed ==
  /\ setting \in [form : Forms, policy : Policies]
  /\ Arq5 => setting.policy = "overwrite"
  /\ nodes \in Seq(Node)
  /\ names \in [Paths -> Nat] /\ \A p \in Paths : names[p] <= Len(nodes)
  /\ instance \in Instances
  /\ run \in Runs
  /\ run.at # "idle" => run.put \in Where(run.rec)
  /\ run.at = "idle" => run = Idle /\ instance = Fresh
  /\ run.at = "plan" => run.next = 1 /\ instance = Fresh

(* What stays. *)

Kept == Typed /\ OriginalsStay

(* Where entries are put. *)

\* Nothing in a record has the name of a file with a suffix of ours.
SiblingsApart ==
  \A r \in Recs : \A d \in Dests : \A e, f \in Entries(r) : \A n \in DOMAIN RestoredNs :
    e.kind = "file" => Sibling(At(d, e), n) # At(d, f)

OutOf(i) == At(run.dest, Records[run.rec][i])
PutBy(i) ==
  \/ run.put[i] = OutOf(i)
  \/ Records[run.rec][i].kind = "file" /\ \E n \in DOMAIN RestoredNs : run.put[i] = Sibling(OutOf(i), n)

\* What was put anywhere was put there by an entry already behind the walk,
\* under its own name or beside it, and is there.
PutsStay ==
  \A i \in DOMAIN run.put : run.put[i] # Nowhere =>
    /\ i < run.next /\ PutBy(i)
    /\ names[run.put[i]] # 0

PutInv == Typed /\ PutsStay

(* What is said of entries. *)

Entered(i) == Records[run.rec][i] \in Listing(run.rec, run.keep, run.dead)
Verdicts ==
  /\ \A i \in DOMAIN run.put : i < run.next /\ Entered(i) /\ run.at # "idle" =>
       Restored(i) \/ i \in run.skipped \cup run.failed
  /\ \A i \in run.skipped \cup run.failed : i < run.next
  /\ \A i \in DOMAIN run.put : Restored(i) => i \notin run.skipped \cup run.failed

\* What was counted beforehand lies under trees that are kept in memory.
Promised ==
  /\ run.told \subseteq Listing(run.rec, run.keep, run.dead)
  /\ \A e \in Trees(run.rec) : \A t \in run.told :
       Descends(run.keep, e.path) /\ IsStrictPrefix(e.path, t.path) => Cached(e)
  /\ Arq5 \/ run.at \in {"idle", "plan"} => run.told = {}
  /\ run.at = "plan" => ~Arq5 /\ run.dead = {}

Answered == PutInv /\ Verdicts /\ Promised

(* What is where. *)

\* The directory had no links when the restore began, or they are not written
\* through.
Plain ==
  setting.policy = "overwrite" =>
    \A p \in Paths : began.names[p] # 0 =>
      /\ began.nodes[began.names[p]].kind # "symlink"
      /\ \A q \in Paths : began.names[q] = began.names[p] => q = p

Puts == {run.put[i] : i \in DOMAIN run.put} \ {Nowhere}

\* Each file that was put somewhere is there, and a link that was.
MadeOf(e, node) ==
  IF Kind(e) = "symlink" THEN node = [kind |-> "symlink", body |-> <<run.dest>> \o e.blobs]
  ELSE node = [kind |-> "file", body |-> e.blobs]
Content ==
  \A i \in DOMAIN run.put : Restored(i) => MadeOf(Records[run.rec][i], nodes[names[run.put[i]]])

\* Nothing else leads to it, and where files are overwritten nothing leads to
\* two of them.
Alone ==
  \A q \in Paths \ Puts : names[q] # 0 =>
    /\ \A x \in Puts : names[q] # names[x]
    /\ setting.policy = "overwrite" =>
         /\ ~IsNode(q, "symlink")
         /\ \A p \in Paths : names[p] = names[q] => p = q

\* The names of one file: where the first was put, the others are, unless a
\* link failed.
Linked ==
  /\ \A n \in Inodes : instance.placed[n] # Nowhere =>
       \E i \in DOMAIN run.put : Restored(i) /\ run.put[i] = instance.placed[n]
                                  /\ Shared(i) /\ Inode(i) = n
  /\ \A i \in DOMAIN run.put : Restored(i) /\ Shared(i) =>
       /\ instance.placed[Inode(i)] # Nowhere
       /\ \/ names[run.put[i]] = names[instance.placed[Inode(i)]]
          \/ \E k \in run.tried : Inode(k) = Inode(i)

Held == Plain => Content /\ Alone

\* A restore ends behind the last entry.
Walked == run.at = "ended" => run.next > Len(Records[run.rec])

SaidInv == Answered /\ Linked /\ Held /\ Walked
----------------------------------------------------------------------------
(* Paths. *)

LEMMA EntryFacts ==
  ASSUME NEW r \in Recs
  PROVE  /\ Records[r] \in Seq(EntryType) /\ Len(Records[r]) \in Nat
         /\ DOMAIN Records[r] = 1..Len(Records[r])
         /\ \A i \in DOMAIN Records[r] : Records[r][i] \in Entries(r) /\ Records[r][i] \in EntryType
         /\ Entries(r) \subseteq AllEntries /\ Entries(r) \subseteq EntryType
PROOF
  <1>1. Records[r] \in Seq(EntryType)
    BY RecordsAssumption DEF EntryType
  <1>2. \A i \in DOMAIN Records[r] : Records[r][i] \in EntryType
    BY <1>1
  <1>3. Entries(r) = {Records[r][i] : i \in DOMAIN Records[r]}
    BY DEF Entries, ToSet
  <1> QED BY <1>1, <1>2, <1>3 DEF AllEntries

LEMMA AllEntriesTyped == AllEntries \subseteq EntryType
BY EntryFacts DEF AllEntries

\* A place in the directory and the places beside it are paths.
LEMMA PlacesAre ==
  ASSUME NEW d \in Dests, NEW e \in AllEntries
  PROVE  /\ At(d, e) \in Paths
         /\ e.kind = "file" => \A n \in DOMAIN RestoredNs : Sibling(At(d, e), n) \in Paths
BY DEF Paths

LEMMA AtTyped ==
  ASSUME NEW d \in Dests, NEW e \in AllEntries
  PROVE  /\ At(d, e) \in Seq(Words) /\ At(d, e) # Nowhere
         /\ \A n \in DOMAIN RestoredNs : Sibling(At(d, e), n) \in Seq(Words) /\ Sibling(At(d, e), n) # Nowhere
PROOF
  <1>1. e.path \in Seq(Words)
    <2>1. e.path \in Seq(Parts)
      BY AllEntriesTyped DEF EntryType
    <2> QED BY <2>1 DEF Words
  <1>2. <<d>> \in Seq(Words)
    BY DEF Words
  <1>3. At(d, e) \in Seq(Words) /\ Len(At(d, e)) = 1 + Len(e.path)
    BY <1>1, <1>2 DEF At
  <1>4. \A n \in DOMAIN RestoredNs : RestoredNs[n] \in Words
    BY DEF Words, ToSet
  <1> QED BY <1>1, <1>3, <1>4 DEF Sibling, Nowhere

LEMMA PathsTyped == Paths \subseteq Seq(Words) /\ Nowhere \notin Paths
BY AtTyped DEF Paths

\* One place is one path.
LEMMA AtInjective ==
  ASSUME NEW d \in Dests, NEW e \in AllEntries, NEW f \in AllEntries, At(d, e) = At(d, f)
  PROVE  e.path = f.path
PROOF
  <1>1. e.path \in Seq(Parts) /\ f.path \in Seq(Parts)
    BY AllEntriesTyped DEF EntryType
  <1>2. Len(e.path) \in Nat /\ Len(f.path) \in Nat /\ Len(e.path) + 1 = Len(f.path) + 1
    <2>1. Len(<<d>> \o e.path) = 1 + Len(e.path) /\ Len(<<d>> \o f.path) = 1 + Len(f.path)
      BY <1>1
    <2> QED BY <1>1, <2>1 DEF At
  <1>3. ASSUME NEW i \in 1..Len(e.path) PROVE e.path[i] = f.path[i]
    <2>1. (<<d>> \o e.path)[i + 1] = e.path[i] /\ (<<d>> \o f.path)[i + 1] = f.path[i]
      BY <1>1, <1>2
    <2> QED BY <2>1 DEF At
  <1> QED BY <1>1, <1>2, <1>3

LEMMA SiblingInjective ==
  ASSUME NEW d \in Dests, NEW e \in AllEntries, NEW f \in AllEntries,
         NEW n \in DOMAIN RestoredNs, NEW m \in DOMAIN RestoredNs,
         Sibling(At(d, e), n) = Sibling(At(d, f), m)
  PROVE  At(d, e) = At(d, f)
PROOF
  <1> DEFINE p == At(d, e)
             q == At(d, f)
  <1>1. p \in Seq(Words) /\ q \in Seq(Words)
    BY AtTyped
  <1>2. Append(p, RestoredNs[n]) = Append(q, RestoredNs[m])
    BY DEF Sibling
  <1> HIDE DEF p, q
  <1>3. Len(p) \in Nat /\ Len(q) \in Nat /\ Len(p) + 1 = Len(q) + 1
    <2>1. Len(Append(p, RestoredNs[n])) = Len(p) + 1 /\ Len(Append(q, RestoredNs[m])) = Len(q) + 1
      BY <1>1
    <2> QED BY <1>1, <1>2, <2>1
  <1>4. ASSUME NEW i \in 1..Len(p) PROVE p[i] = q[i]
    <2>1. Append(p, RestoredNs[n])[i] = p[i] /\ Append(q, RestoredNs[m])[i] = q[i]
      BY <1>1, <1>3
    <2> QED BY <1>2, <2>1
  <1>5. p = q
    BY <1>1, <1>3, <1>4
  <1> QED BY <1>5 DEF p, q

\* A path above a path above a third is above it.
LEMMA AboveAbove ==
  ASSUME NEW p \in Seq(Parts), NEW q \in Seq(Parts), NEW s \in Seq(Parts),
         IsStrictPrefix(p, q), IsStrictPrefix(q, s)
  PROVE  IsStrictPrefix(p, s)
PROOF
  <1>1. \A a, b \in Seq(Parts) :
           IsPrefix(a, b) <=> Len(a) <= Len(b) /\ \A i \in 1..Len(a) : a[i] = b[i]
    <2> SUFFICES ASSUME NEW a \in Seq(Parts), NEW b \in Seq(Parts)
                 PROVE  IsPrefix(a, b) <=> Len(a) <= Len(b) /\ \A i \in 1..Len(a) : a[i] = b[i]
      OBVIOUS
    <2>1. CASE Len(a) <= Len(b)
      <3>1. /\ SubSeq(a, 1, Len(a)) \in Seq(Parts) /\ Len(SubSeq(a, 1, Len(a))) = Len(a)
            /\ \A i \in 1..Len(a) : SubSeq(a, 1, Len(a))[i] = a[i]
        BY <2>1
      <3>2. /\ SubSeq(b, 1, Len(a)) \in Seq(Parts) /\ Len(SubSeq(b, 1, Len(a))) = Len(a)
            /\ \A i \in 1..Len(a) : SubSeq(b, 1, Len(a))[i] = b[i]
        BY <2>1
      <3> DEFINE x == SubSeq(a, 1, Len(a))
                 y == SubSeq(b, 1, Len(a))
      <3>3. x = y <=> \A i \in 1..Len(a) : a[i] = b[i]
        <4> HIDE DEF x, y
        <4>1. /\ x \in Seq(Parts) /\ Len(x) = Len(a) /\ \A i \in 1..Len(a) : x[i] = a[i]
              /\ y \in Seq(Parts) /\ Len(y) = Len(a) /\ \A i \in 1..Len(a) : y[i] = b[i]
          BY <3>1, <3>2 DEF x, y
        <4>2. /\ x \in [1..Len(a) -> Parts] /\ y \in [1..Len(a) -> Parts]
          BY <4>1
        <4>3. ASSUME \A i \in 1..Len(a) : a[i] = b[i] PROVE x = y
          <5>1. \A i \in 1..Len(a) : x[i] = y[i]
            BY <4>1, <4>3
          <5> QED BY <4>2, <5>1
        <4>4. ASSUME x = y PROVE \A i \in 1..Len(a) : a[i] = b[i]
          BY <4>1, <4>4
        <4> QED BY <4>3, <4>4
      <3> QED BY <2>1, <3>3 DEF IsPrefix
    <2>2. CASE ~(Len(a) <= Len(b))
      BY <2>2 DEF IsPrefix
    <2> QED BY <2>1, <2>2
  <1>2. /\ Len(p) <= Len(q) /\ \A i \in 1..Len(p) : p[i] = q[i]
        /\ Len(q) <= Len(s) /\ \A i \in 1..Len(q) : q[i] = s[i]
        /\ p # q /\ q # s
    BY <1>1 DEF IsStrictPrefix
  <1>3. Len(p) <= Len(s) /\ \A i \in 1..Len(p) : p[i] = s[i]
    BY <1>2
  <1>4. p # s
    <2> SUFFICES ASSUME p = s PROVE FALSE
      OBVIOUS
    <2>1. Len(p) = Len(q)
      BY <1>2
    <2> QED BY <1>2, <2>1
  <1> QED BY <1>1, <1>3, <1>4 DEF IsStrictPrefix
----------------------------------------------------------------------------
(* What the walk is at, and what it writes. *)

LEMMA HereFacts ==
  ASSUME Typed, Walking
  PROVE  /\ run.rec \in Recs /\ run.dest \in Dests /\ run.put \in Where(run.rec)
         /\ run.next \in DOMAIN Records[run.rec] /\ run.next \in Nat \ {0}
         /\ DOMAIN run.put = DOMAIN Records[run.rec] /\ DOMAIN run.put \subseteq Nat
         /\ Entry \in Entries(run.rec) /\ Entry \in AllEntries /\ Entry \in EntryType
         /\ Entry = Records[run.rec][run.next]
         /\ Out = OutOf(run.next) /\ Out \in Paths /\ Out # Nowhere
         /\ Entry.blobs \in Bodies /\ <<run.dest>> \o Entry.blobs \in Bodies
PROOF
  <1>1. /\ run.rec \in Recs /\ run.dest \in Dests /\ run.next \in Nat \ {0}
        /\ run.put \in Where(run.rec) /\ run.next <= Len(Records[run.rec])
    BY DEF Typed, Walking, Runs
  <1>2. /\ DOMAIN Records[run.rec] = 1..Len(Records[run.rec]) /\ Len(Records[run.rec]) \in Nat
        /\ run.next \in DOMAIN Records[run.rec]
    BY <1>1, EntryFacts
  <1>3. Entry \in Entries(run.rec) /\ Entry \in AllEntries /\ Entry \in EntryType
    BY <1>1, <1>2, EntryFacts DEF Entry
  <1>4. Out \in Paths /\ Out # Nowhere
    BY <1>1, <1>3, PlacesAre, PathsTyped DEF Out
  <1>5. Entry.blobs \in Bodies /\ <<run.dest>> \o Entry.blobs \in Bodies
    BY <1>1, <1>3 DEF Bodies
  <1>6. DOMAIN run.put = DOMAIN Records[run.rec]
    BY <1>1 DEF Where
  <1> QED BY <1>1, <1>2, <1>3, <1>4, <1>5, <1>6 DEF Out, OutOf, Entry

\* Every set of numbers has a least.
LEMMA LeastNatural ==
  ASSUME NEW T, T \subseteq Nat, T # {}
  PROVE  \E n \in T : \A m \in T : n <= m
PROOF
  <1> DEFINE R == {pair \in Nat \X Nat : pair[1] < pair[2]}
  <1>1. R = OpToRel(<, Nat)
    BY Zenon DEF OpToRel
  <1>2. IsWellFoundedOn(R, Nat)
    BY <1>1, NatLessThanWellFounded, Zenon
  <1>3. \A m, n \in Nat : m < n => <<m, n>> \in R
    OBVIOUS
  <1> HIDE DEF R
  <1>4. PICK n \in T : \A m \in T : ~(<<m, n>> \in R)
    BY <1>2, WFMin, Zenon
  <1>5. \A m \in T : m \in Nat /\ n \in Nat /\ ~(m < n)
    BY <1>3, <1>4
  <1> QED BY <1>5

\* A file is written under its own name or beside it, and where the policy is
\* not to overwrite there is nothing there.
LEMMA TargetFacts ==
  ASSUME Typed, Walking, Kind(Entry) = "file", Target(Out) # Nowhere
  PROVE  /\ Target(Out) \in Paths
         /\ names[Target(Out)] # 0 => Target(Out) = Out /\ setting.policy = "overwrite"
         /\ \/ Target(Out) = Out
            \/ /\ Entry.kind = "file" /\ setting.policy = "rename"
               /\ \E n \in DOMAIN RestoredNs : Target(Out) = Sibling(Out, n)
PROOF
  <1>1. CASE names[Out] = 0 \/ Arq5 \/ setting.policy = "overwrite"
    <2>1. Target(Out) = Out
      BY <1>1 DEF Target
    <2>2. names[Out] # 0 => setting.policy = "overwrite"
      BY <1>1 DEF Typed
    <2> QED BY <2>1, <2>2, HereFacts
  <1>2. CASE ~(names[Out] = 0 \/ Arq5 \/ setting.policy = "overwrite")
    <2> DEFINE free == FreeSiblings(Out)
    <2>1. setting.policy = "rename" /\ free # {}
      BY <1>2 DEF Target
    <2>2. free \subseteq Nat
      BY RestoreAssumption DEF FreeSiblings
    <2>3. \E n \in free : \A m \in free : n <= m
      BY <2>1, <2>2, LeastNatural
    <2>4. PICK n \in free : Target(Out) = Sibling(Out, n)
      BY <1>2, <2>1, <2>3 DEF Target
    <2>5. n \in DOMAIN RestoredNs /\ names[Sibling(Out, n)] = 0
      BY <2>4 DEF FreeSiblings
    <2>6. Entry.kind = "file"
      BY <1>2 DEF Kind
    <2>7. Sibling(Out, n) \in Paths
      BY <2>5, <2>6, HereFacts, PlacesAre DEF OutOf
    <2> QED BY <2>1, <2>4, <2>5, <2>6, <2>7
  <1> QED BY <1>1, <1>2

\* Something new under a path.
LEMMA Created ==
  ASSUME Typed, NEW p, NEW node \in Node, Create(p, node)
  PROVE  /\ nodes' \in Seq(Node) /\ Len(nodes) \in Nat /\ Len(nodes') = Len(nodes) + 1
         /\ nodes'[Len(nodes) + 1] = node
         /\ \A n \in 1..Len(nodes) : nodes'[n] = nodes[n]
         /\ names' \in [Paths -> Nat] /\ \A q \in Paths : names'[q] <= Len(nodes')
         /\ \A q \in Paths : q # p => names'[q] = names[q]
         /\ p \in Paths => names'[p] = Len(nodes) + 1
PROOF
  <1>1. nodes \in Seq(Node) /\ Len(nodes) \in Nat
        /\ names \in [Paths -> Nat] /\ \A q \in Paths : names[q] <= Len(nodes)
    BY DEF Typed
  <1>2. /\ nodes' = Append(nodes, node)
        /\ names' = [names EXCEPT ![p] = Len(nodes) + 1]
    BY DEF Create
  <1>3. /\ nodes' \in Seq(Node) /\ Len(nodes') = Len(nodes) + 1
        /\ nodes'[Len(nodes) + 1] = node
        /\ \A n \in 1..Len(nodes) : nodes'[n] = nodes[n]
    BY <1>1, <1>2
  <1>4. /\ \A q \in Paths : q # p => names'[q] = names[q]
        /\ p \in Paths => names'[p] = Len(nodes) + 1
        /\ names' \in [Paths -> Nat]
    <2>1. names' = [q \in Paths |-> IF q = p THEN Len(nodes) + 1 ELSE names[q]]
      BY <1>1, <1>2
    <2>2. Len(nodes) + 1 \in Nat /\ \A q \in Paths : names[q] \in Nat
      BY <1>1
    <2> HIDE DEF Typed
    <2>3. names' \in [Paths -> Nat]
      BY <2>1, <2>2
    <2> QED BY <2>1, <2>3
  <1>5. \A q \in Paths : names'[q] <= Len(nodes')
    BY <1>1, <1>3, <1>4
  <1> QED BY <1>1, <1>3, <1>4, <1>5

\* A file written in place.
LEMMA Overwritten ==
  ASSUME nodes \in Seq(Node), NEW m, NEW body \in Bodies,
         nodes' = [nodes EXCEPT ![m].body = body]
  PROVE  /\ nodes' \in Seq(Node) /\ Len(nodes') = Len(nodes) /\ DOMAIN nodes' = DOMAIN nodes
         /\ \A n \in DOMAIN nodes :
              /\ nodes'[n].kind = nodes[n].kind
              /\ n # m => nodes'[n] = nodes[n]
              /\ n = m => nodes'[n].body = body
PROOF
  <1>1. Len(nodes) \in Nat /\ nodes \in [1..Len(nodes) -> Node] /\ DOMAIN nodes = 1..Len(nodes)
    OBVIOUS
  <1>2. nodes' = [nodes EXCEPT ![m] = [nodes[m] EXCEPT !.body = body]]
    OBVIOUS
  <1>3. \A n \in 1..Len(nodes) : nodes[n] \in Node /\ [nodes[n] EXCEPT !.body = body] \in Node
    BY <1>1 DEF Node
  <1>4. DOMAIN nodes' = 1..Len(nodes) /\ \A n \in 1..Len(nodes) :
          nodes'[n] = IF n = m THEN [nodes[n] EXCEPT !.body = body] ELSE nodes[n]
    BY <1>1, <1>2
  <1>5. nodes' \in [1..Len(nodes) -> Node]
    BY <1>1, <1>2, <1>3
  <1>6. nodes' \in Seq(Node) /\ Len(nodes') = Len(nodes)
    BY <1>1, <1>5
  <1>7. \A n \in 1..Len(nodes) :
          LET new == [nodes[n] EXCEPT !.body = body]
          IN  new.kind = nodes[n].kind /\ new.body = body
    BY <1>1 DEF Node
  <1> QED BY <1>1, <1>4, <1>6, <1>7

\* Writing a file, wherever a link leads it.
LEMMA Written ==
  ASSUME Typed, NEW p \in Paths, NEW body \in Bodies, WriteBytes(p, body)
  PROVE  /\ nodes' \in Seq(Node) /\ Len(nodes') \in Nat
         /\ names' \in [Paths -> Nat] /\ \A q \in Paths : names'[q] <= Len(nodes')
         /\ names'[p] # 0 /\ \A q \in Paths : names[q] # 0 => names'[q] # 0
         /\ names[p] = 0 => Create(p, [kind |-> "file", body |-> body])
PROOF
  <1> DEFINE q == Follow(p)
             node == [kind |-> "file", body |-> body]
  <1>1. nodes \in Seq(Node) /\ names \in [Paths -> Nat] /\ \A x \in Paths : names[x] <= Len(nodes)
    BY DEF Typed
  <1>2. names[p] = 0 => q = p
    BY DEF Follow, IsNode
  <1>3. node \in Node
    BY DEF Node, Kinds
  <1>4. CASE names[q] = 0
    <2>1. Create(q, node)
      BY <1>4 DEF WriteBytes
    <2>2. q \in Paths => names'[q] # 0
      BY <1>1, <1>3, <2>1, Created
    <2>3. q # p => names[p] # 0
      BY <1>2
    <2> HIDE DEF q, node
    <2>4. /\ nodes' \in Seq(Node) /\ Len(nodes') \in Nat
          /\ names' \in [Paths -> Nat] /\ \A x \in Paths : names'[x] <= Len(nodes')
          /\ \A x \in Paths : x # q => names'[x] = names[x]
      BY <1>3, <2>1, Created
    <2> QED BY <1>2, <2>1, <2>2, <2>3, <2>4 DEF node
  <1>5. CASE names[q] # 0
    <2>1. nodes' = [nodes EXCEPT ![names[q]].body = body] /\ names' = names
      BY <1>5 DEF WriteBytes
    <2>2. nodes' \in Seq(Node) /\ Len(nodes') = Len(nodes)
      BY <1>1, <2>1, Overwritten
    <2>3. names[p] # 0
      BY <1>2, <1>5
    <2> QED BY <1>1, <2>1, <2>2, <2>3
  <1> QED BY <1>4, <1>5
----------------------------------------------------------------------------
(* Types. *)

LEMMA IdleFacts ==
  /\ Idle \in Runs /\ Fresh \in Instances /\ Idle.at = "idle" /\ Idle.put = <<>>
  /\ \A i \in Inodes : Fresh.placed[i] = Nowhere
  /\ Fresh.trees = {} /\ DOMAIN Idle.put = {}
PROOF
  <1>1. Idle.rec \in Recs /\ Idle.dest \in Dests
    BY RestoreAssumption DEF Idle
  <1>2. Idle \in Runs
    BY <1>1 DEF Idle, Runs, Places, Asked
  <1> QED BY <1>2 DEF Fresh, Instances, Idle

\* What a directory holds at first.
LEMMA NumberingFacts ==
  ASSUME NEW b \in Before
  PROVE  /\ Numbering(b) \in Seq(Node)
         /\ \A p \in DOMAIN b : \E n \in DOMAIN Numbering(b) : Numbering(b)[n] = b[p]
PROOF
  <1> DEFINE S == {b[p] : p \in DOMAIN b}
             n == Cardinality(S)
             f == [p \in DOMAIN b |-> b[p]]
             s == Numbering(b)
  <1>1. IsFiniteSet(DOMAIN b)
    BY BeforeAssumption
  <1>2. f \in Surjection(DOMAIN b, S)
    BY DEF Surjection
  <1>3. IsFiniteSet(S) /\ n \in Nat /\ ExistsBijection(1..n, S)
    BY <1>1, <1>2, FS_Surjection, FS_CardinalityType
  <1>4. PICK g \in Bijection(1..n, S) : TRUE
    BY <1>3 DEF ExistsBijection
  <1>5. g \in [1..n -> S] /\ IsInjective(g)
    BY <1>4 DEF Bijection, Injection
  <1>6. s \in [1..n -> S] /\ IsInjective(s)
    BY <1>5 DEF Numbering, SetToSeq
  <1>7. s \in Injection(1..n, S)
    BY <1>6 DEF Injection, IsInjective
  <1>8. Cardinality(1..n) = n
    BY <1>3, FS_Interval
  <1>9. s \in Surjection(1..n, S)
    BY <1>3, <1>7, <1>8, FS_Injection
  <1>10. S \subseteq Node
    <2> SUFFICES ASSUME NEW p \in DOMAIN b PROVE b[p] \in Node
      OBVIOUS
    <2>1. b[p].kind \in Kinds /\ b[p] = [kind |-> b[p].kind, body |-> b[p].body]
      BY BeforeAssumption
    <2>2. b[p].body \in Bodies
      BY DEF Bodies
    <2> QED BY <2>1, <2>2 DEF Node
  <1>11. \A p \in DOMAIN b : \E i \in 1..n : s[i] = b[p]
    BY <1>9 DEF Surjection
  <1> HIDE DEF n, s, S
  <1>12. s \in [1..n -> Node] /\ DOMAIN s = 1..n
    BY <1>6, <1>10
  <1>13. s \in Seq(Node)
    BY <1>3, <1>12
  <1> QED BY <1>11, <1>12, <1>13 DEF s

LEMMA InitTyped == Init => Typed
PROOF
  <1> SUFFICES ASSUME Init PROVE Typed
    OBVIOUS
  <1>1. PICK b \in Before :
          /\ nodes = Numbering(b)
          /\ names = [p \in Paths |->
               IF p \in DOMAIN b THEN CHOOSE n \in DOMAIN nodes : nodes[n] = b[p] ELSE 0]
    BY DEF Init
  <1>2. nodes \in Seq(Node) /\ Len(nodes) \in Nat /\ DOMAIN nodes = 1..Len(nodes)
    BY <1>1, NumberingFacts
  <1>3. \A p \in DOMAIN b : (CHOOSE n \in DOMAIN nodes : nodes[n] = b[p]) \in DOMAIN nodes
    BY <1>1, NumberingFacts
  <1>4. names \in [Paths -> Nat] /\ \A p \in Paths : names[p] <= Len(nodes)
    <2>1. DOMAIN nodes \subseteq Nat /\ \A n \in DOMAIN nodes : n <= Len(nodes)
      BY <1>2
    <2>2. \A p \in Paths : names[p] \in DOMAIN nodes \cup {0}
      <3> DEFINE first(p) == CHOOSE n \in DOMAIN nodes : nodes[n] = b[p]
      <3>1. \A p \in DOMAIN b : first(p) \in DOMAIN nodes
        BY <1>3
      <3> HIDE DEF first
      <3>2. \A p \in Paths : names[p] = IF p \in DOMAIN b THEN first(p) ELSE 0
        BY <1>1 DEF first
      <3> QED BY <3>1, <3>2
    <2>3. names = [p \in Paths |-> names[p]]
      BY <1>1
    <2>4. \A p \in Paths : names[p] \in Nat /\ names[p] <= Len(nodes)
      BY <1>2, <2>1, <2>2
    <2> QED BY <2>3, <2>4
  <1>5. setting \in [form : Forms, policy : Policies] /\ (Arq5 => setting.policy = "overwrite")
    BY DEF Init, Arq5
  <1>6. run = Idle /\ instance = Fresh
    BY DEF Init
  <1> QED BY <1>2, <1>4, <1>5, <1>6, IdleFacts DEF Typed

\* What reading may have done.
LEMMA FetchedFacts ==
  ASSUME Typed, NEW e, NEW outcome, NEW scan, Fetched(e, outcome, scan)
  PROVE  scan \in {"no", "found", "missed"} /\ (outcome # "got" => ~Cached(e))
BY DEF Fetched, Scans, Typed, Instances

\* The run when it goes on, or somewhere else.
LEMMA GoesOn ==
  ASSUME Typed, run.at # "idle", UNCHANGED setting,
         nodes' \in Seq(Node), names' \in [Paths -> Nat], \A p \in Paths : names'[p] <= Len(nodes'),
         instance' \in Instances, run' \in Runs, run'.at # "idle", run'.at # "plan",
         run'.rec = run.rec, run'.put \in Where(run.rec)
  PROVE  Typed'
BY DEF Typed, Arq5

LEMMA BeginTyped ==
  ASSUME Typed, NEW r \in Recs, NEW dest \in Dests, NEW keep \in Asked, Begin(r, dest, keep)
  PROVE  /\ Typed' /\ run.at = "idle" /\ UNCHANGED <<setting, names, nodes, instance>>
         /\ began' = [names |-> names, nodes |-> nodes]
         /\ \E at \in {"raised", "walk", "plan"} :
              /\ run' = [Idle EXCEPT !.at = at, !.rec = r, !.dest = dest, !.keep = keep,
                           !.put = [i \in DOMAIN Records[r] |-> Nowhere]]
PROOF
  <1> DEFINE none == [i \in DOMAIN Records[r] |-> Nowhere]
  <1>1. none \in Where(r)
    BY DEF Where
  <1>2. PICK at \in {"raised", "walk", "plan"} :
          run' = [Idle EXCEPT !.at = at, !.rec = r, !.dest = dest, !.keep = keep, !.put = none]
    BY DEF Begin
  <1>3. run.at = "idle" /\ UNCHANGED <<setting, names, nodes, instance>>
        /\ began' = [names |-> names, nodes |-> nodes] /\ instance = Fresh
    BY DEF Begin, fs, Typed
  <1> HIDE DEF none
  <1>4. /\ run' \in Runs /\ run'.put = none /\ run'.rec = r /\ run'.at = at /\ run'.next = 1
    <2>1. none \in {<<>>} \cup UNION {Where(s) : s \in Recs}
      BY <1>1
    <2>2. Idle \in Runs /\ Idle.next = 1
      BY IdleFacts DEF Idle
    <2>3. at \in Places
      BY DEF Places
    <2> HIDE DEF Idle
    <2> QED BY <1>2, <2>1, <2>2, <2>3 DEF Runs
  <1>5. Typed'
    BY <1>1, <1>3, <1>4 DEF Typed, Arq5
  <1> QED BY <1>2, <1>3, <1>5 DEF none

LEMMA PlanTyped == ASSUME Typed, Plan PROVE Typed' /\ UNCHANGED <<setting, names, nodes>>
PROOF
  <1>1. PICK told, trees :
          /\ run' = [run EXCEPT !.at = "walk", !.told = Listing(run.rec, run.keep, told)]
          /\ instance' = [instance EXCEPT !.trees = @ \cup UNION {ToSet(e.blobs) : e \in trees}]
          /\ trees \subseteq Trees(run.rec)
    <2>1. PICK missed :
            /\ run' = [run EXCEPT !.at = "walk",
                 !.told = Listing(run.rec, run.keep, {e.path : e \in Lost \cup missed})]
            /\ instance' = [instance EXCEPT
                 !.trees = @ \cup UNION {ToSet(e.blobs) : e \in Counted(Lost \cup missed)}]
      BY DEF Plan
    <2>2. Counted(Lost \cup missed) \subseteq Trees(run.rec)
      BY DEF Counted, Planned
    <2> QED BY <2>1, <2>2
  <1>2. /\ run \in Runs /\ run.rec \in Recs /\ run.at = "plan" /\ UNCHANGED <<setting, names, nodes>>
        /\ instance \in Instances /\ run.put \in Where(run.rec)
    BY DEF Plan, Typed, Runs, fs
  <1>3. Listing(run.rec, run.keep, told) \subseteq AllEntries
    BY <1>2, EntryFacts DEF Listing
  <1>4. run' \in Runs /\ run'.at = "walk" /\ run'.rec = run.rec /\ run'.put = run.put
    BY <1>1, <1>2, <1>3 DEF Runs, Places
  <1>5. \A e \in trees : ToSet(e.blobs) \subseteq TreeBlobs
    BY <1>1, <1>2, EntryFacts DEF Trees, TreeBlobs
  <1>6. instance' \in Instances
    <2>1. instance.trees \cup UNION {ToSet(e.blobs) : e \in trees} \subseteq TreeBlobs
      BY <1>2, <1>5 DEF Instances
    <2> QED BY <1>1, <1>2, <2>1 DEF Instances
  <1>7. nodes' \in Seq(Node) /\ names' \in [Paths -> Nat] /\ \A p \in Paths : names'[p] <= Len(nodes')
    BY <1>2 DEF Typed
  <1> QED BY <1>2, <1>4, <1>6, <1>7, GoesOn

LEMMA PlanRaisesTyped ==
  ASSUME Typed, PlanRaises
  PROVE  /\ Typed' /\ run.at = "plan" /\ UNCHANGED <<setting, names, nodes, instance, began>>
         /\ run' = [run EXCEPT !.at = "raised"]
PROOF
  <1>1. /\ run \in Runs /\ run.at = "plan" /\ UNCHANGED <<setting, names, nodes, instance, began>>
        /\ run' = [run EXCEPT !.at = "raised"]
    BY DEF PlanRaises, Goto, fs, Typed
  <1>2. run' \in Runs /\ run'.at = "raised" /\ run'.rec = run.rec /\ run'.put = run.put
    BY <1>1 DEF Runs, Places
  <1>3. Typed'
    BY <1>1, <1>2, GoesOn DEF Typed
  <1> QED BY <1>1, <1>3

\* What stays when the walk goes on or ends.
Steady == UNCHANGED <<setting, began>> /\ run.at = "walk"

LEMMA PassOverTyped ==
  ASSUME Typed, PassOver
  PROVE  /\ Typed' /\ Steady /\ Walking /\ UNCHANGED <<names, nodes, instance>>
         /\ run' = [run EXCEPT !.next = @ + 1]
         /\ ~Selected(run.keep, Entry) \/ Under(run.dead, Entry)
PROOF
  <1>1. /\ Steady /\ Walking /\ UNCHANGED <<names, nodes, instance>>
        /\ run' = [run EXCEPT !.next = @ + 1]
        /\ ~Selected(run.keep, Entry) \/ Under(run.dead, Entry)
    BY DEF PassOver, Step, fs, Steady, Walking
  <1>2. run \in Runs /\ run.put \in Where(run.rec)
    BY <1>1 DEF Typed, Steady
  <1>3. run' \in Runs /\ run'.at = "walk" /\ run'.rec = run.rec /\ run'.put = run.put
    BY <1>1, <1>2 DEF Runs, Steady
  <1>4. Typed'
    BY <1>1, <1>2, <1>3, GoesOn DEF Typed, Steady
  <1> QED BY <1>1, <1>4

LEMMA EnterTyped ==
  ASSUME Typed, EnterDirectory
  PROVE  /\ Typed' /\ Steady /\ Walking /\ Takes("dir")
         /\ \/ names' = names /\ nodes' = nodes
            \/ names[Out] = 0 /\ Create(Out, [kind |-> "dir", body |-> <<>>])
         /\ instance'.placed = instance.placed /\ instance.trees \subseteq instance'.trees
         /\ \/ run' = [run EXCEPT !.at = "raised"]
            \/ run' = [run EXCEPT !.next = @ + 1]
            \/ /\ ~Cached(Entry)
               /\ run' = [run EXCEPT !.next = @ + 1, !.dead = @ \cup {Entry.path},
                                     !.failed = @ \cup {run.next}]
PROOF
  <1>1. Steady /\ Walking /\ Takes("dir") /\ Entry.kind = "dir"
    BY DEF EnterDirectory, Takes, Steady, Walking, Kind
  <1>2. /\ run \in Runs /\ run.put \in Where(run.rec) /\ instance \in Instances
        /\ nodes \in Seq(Node) /\ names \in [Paths -> Nat] /\ \A p \in Paths : names[p] <= Len(nodes)
    BY <1>1 DEF Typed, Steady
  <1>3. /\ run.next \in Nat \ {0} /\ Out \in Paths /\ Entry.path \in Seq(Parts)
        /\ ToSet(Entry.blobs) \subseteq TreeBlobs
    BY <1>1, HereFacts DEF EntryType, TreeBlobs
  <1>4. CASE names[Out] # 0 /\ ~IsNode(Out, "dir")
    <2>1. run' = [run EXCEPT !.at = "raised"] /\ UNCHANGED <<names, nodes, instance>>
      BY <1>4 DEF EnterDirectory, Goto, fs
    <2>2. run' \in Runs /\ run'.at = "raised" /\ run'.rec = run.rec /\ run'.put = run.put
      BY <1>2, <2>1 DEF Runs, Places
    <2>3. Typed'
      BY <1>1, <1>2, <2>1, <2>2, GoesOn DEF Steady
    <2> QED BY <1>1, <2>1, <2>3
  <1>5. CASE ~(names[Out] # 0 /\ ~IsNode(Out, "dir"))
    <2>1. PICK outcome \in {"got", "failed", "raised"}, scan \in Scans(Entry.blobs) :
            /\ Fetched(Entry, outcome, scan)
            /\ IF IsNode(Out, "dir") \/ (outcome = "failed" /\ Arq5Root) THEN UNCHANGED fs
               ELSE Create(Out, [kind |-> "dir", body |-> <<>>])
            /\ instance' = [instance EXCEPT
                 !.trees = IF outcome = "got" /\ ~Arq5 THEN @ \cup ToSet(Entry.blobs) ELSE @,
                 !.scanned = scan]
            /\ IF outcome = "raised" \/ (outcome = "failed" /\ Arq5Root)
               THEN Goto("raised")
               ELSE run' = [run EXCEPT !.next = @ + 1,
                      !.dead = IF outcome = "failed" THEN @ \cup {Entry.path} ELSE @,
                      !.failed = IF outcome = "failed" THEN @ \cup {run.next} ELSE @]
      BY <1>5 DEF EnterDirectory
    <2>2. scan \in {"no", "found", "missed"} /\ (outcome # "got" => ~Cached(Entry))
      BY <2>1, FetchedFacts
    <2>3. \/ names' = names /\ nodes' = nodes
          \/ names[Out] = 0 /\ Create(Out, [kind |-> "dir", body |-> <<>>])
      BY <1>5, <2>1 DEF fs
    <2>4. /\ instance' \in Instances
          /\ instance'.placed = instance.placed /\ instance.trees \subseteq instance'.trees
      <3> DEFINE trees == IF outcome = "got" /\ ~Arq5 THEN instance.trees \cup ToSet(Entry.blobs)
                          ELSE instance.trees
      <3>1. instance' = [instance EXCEPT !.trees = trees, !.scanned = scan]
        BY <2>1
      <3>2. trees \in SUBSET TreeBlobs /\ instance.trees \subseteq trees
        BY <1>2, <1>3 DEF Instances
      <3> HIDE DEF trees
      <3> QED BY <1>2, <2>2, <3>1, <3>2 DEF Instances
    <2>5. \/ run' = [run EXCEPT !.at = "raised"]
          \/ run' = [run EXCEPT !.next = @ + 1]
          \/ /\ ~Cached(Entry)
             /\ run' = [run EXCEPT !.next = @ + 1, !.dead = @ \cup {Entry.path},
                                   !.failed = @ \cup {run.next}]
      <3>1. CASE outcome = "raised" \/ (outcome = "failed" /\ Arq5Root)
        BY <2>1, <3>1 DEF Goto
      <3>2. CASE outcome = "failed" /\ ~Arq5Root
        BY <2>1, <2>2, <3>2
      <3>3. CASE outcome = "got"
        <4>1. run' = [run EXCEPT !.next = @ + 1, !.dead = @, !.failed = @]
          BY <2>1, <3>3
        <4> QED BY <1>2, <4>1 DEF Runs
      <3> QED BY <3>1, <3>2, <3>3
    <2>6. /\ run' \in Runs /\ run'.at \in {"walk", "raised"} /\ run'.rec = run.rec /\ run'.put = run.put
      <3>1. /\ run.dead \cup {Entry.path} \in SUBSET Seq(Parts) /\ run.failed \cup {run.next} \in SUBSET Nat
            /\ run.next + 1 \in Nat \ {0} /\ "raised" \in Places /\ run.at = "walk"
        BY <1>1, <1>2, <1>3 DEF Runs, Places, Steady
      <3>2. CASE run' = [run EXCEPT !.at = "raised"]
        BY <1>2, <3>1, <3>2 DEF Runs
      <3>3. CASE run' = [run EXCEPT !.next = @ + 1]
        BY <1>2, <3>1, <3>3 DEF Runs
      <3>4. CASE run' = [run EXCEPT !.next = @ + 1, !.dead = @ \cup {Entry.path},
                                    !.failed = @ \cup {run.next}]
        BY <1>2, <3>1, <3>4 DEF Runs
      <3> QED BY <2>5, <3>2, <3>3, <3>4
    <2>7. nodes' \in Seq(Node) /\ names' \in [Paths -> Nat] /\ \A p \in Paths : names'[p] <= Len(nodes')
      <3>1. [kind |-> "dir", body |-> <<>>] \in Node
        BY DEF Node, Kinds, Bodies
      <3> QED BY <1>2, <2>3, <3>1, Created
    <2>8. Typed'
      BY <1>1, <1>2, <2>4, <2>6, <2>7, GoesOn DEF Steady
    <2> QED BY <1>1, <2>3, <2>4, <2>5, <2>8
  <1> QED BY <1>4, <1>5

\* An entry put somewhere.
LEMMA PutTyped ==
  ASSUME Typed, Walking, NEW p \in Paths, Put(p)
  PROVE  /\ run' \in Runs /\ run'.at = "walk" /\ run'.rec = run.rec /\ run'.put \in Where(run.rec)
         /\ run'.put[run.next] = p
         /\ \A i \in DOMAIN run.put : i # run.next => run'.put[i] = run.put[i]
         /\ DOMAIN run'.put = DOMAIN run.put /\ run'.next = run.next + 1
         /\ run'.dest = run.dest /\ run'.keep = run.keep /\ run'.dead = run.dead /\ run'.told = run.told
         /\ run'.tried = run.tried /\ run'.skipped = run.skipped /\ run'.failed = run.failed
PROOF
  <1> DEFINE put == [run.put EXCEPT ![run.next] = p]
  <1>1. run \in Runs /\ run.put \in Where(run.rec) /\ run.next \in DOMAIN Records[run.rec]
        /\ run.rec \in Recs /\ run.next \in Nat \ {0} /\ run.at = "walk"
    BY HereFacts DEF Typed, Walking
  <1>2. run' = [run EXCEPT !.next = @ + 1, !.put = put]
    BY <1>1 DEF Put, Runs
  <1>3. /\ put \in Where(run.rec) /\ put[run.next] = p /\ DOMAIN put = DOMAIN run.put
        /\ \A i \in DOMAIN run.put : i # run.next => put[i] = run.put[i]
    BY <1>1 DEF Where
  <1> HIDE DEF put
  <1>4. put \in {<<>>} \cup UNION {Where(r) : r \in Recs}
    BY <1>1, <1>3
  <1>5. /\ run'.put = put /\ run'.next = run.next + 1 /\ run'.at = run.at /\ run'.rec = run.rec
        /\ run'.dest = run.dest /\ run'.keep = run.keep /\ run'.dead = run.dead /\ run'.told = run.told
        /\ run'.tried = run.tried /\ run'.skipped = run.skipped /\ run'.failed = run.failed
    BY <1>1, <1>2 DEF Runs
  <1>6. run' \in Runs
    <2> DEFINE puts == {<<>>} \cup UNION {Where(r) : r \in Recs}
    <2>1. run \in Runs /\ run.next + 1 \in Nat \ {0} /\ put \in puts
      BY <1>1, <1>4
    <2>2. Runs = [at : Places, rec : Recs, dest : Dests, keep : Asked, next : Nat \ {0},
                  dead : SUBSET Seq(Parts), put : puts, tried : SUBSET Nat,
                  skipped : SUBSET Nat, failed : SUBSET Nat, told : SUBSET AllEntries]
      BY DEF Runs
    <2> HIDE DEF puts
    <2> QED BY <1>2, <2>1, <2>2
  <1> QED BY <1>1, <1>3, <1>5, <1>6

LEMMA LinkTyped ==
  ASSUME Typed, Link
  PROVE  /\ Typed' /\ Steady /\ Takes("file") /\ Linkable /\ UNCHANGED <<nodes, instance>>
         /\ names' = [names EXCEPT ![Out] = names[First]]
         /\ Put(Out)
PROOF
  <1>1. /\ Steady /\ Walking /\ Takes("file") /\ Linkable /\ UNCHANGED <<nodes, instance>>
        /\ names' = [names EXCEPT ![Out] = names[First]] /\ Put(Out)
    BY DEF Link, Takes, Steady, Walking
  <1>2. First \in Paths /\ Out \in Paths
    BY <1>1, HereFacts DEF Linkable, First, Typed, Instances, EntryType
  <1>3. names' \in [Paths -> Nat] /\ \A p \in Paths : names'[p] <= Len(nodes')
    BY <1>1, <1>2 DEF Typed
  <1>4. Typed'
    BY <1>1, <1>2, <1>3, PutTyped, GoesOn DEF Typed, Steady
  <1> QED BY <1>1, <1>4

LEMMA LinkFailsTyped ==
  ASSUME Typed, LinkFails
  PROVE  /\ Typed' /\ Steady /\ Takes("file") /\ Linkable /\ UNCHANGED <<nodes, instance>>
         /\ names' = names \/ names' = [names EXCEPT ![Out] = 0]
         /\ run' = [run EXCEPT !.tried = @ \cup {run.next}]
PROOF
  <1>1. /\ Steady /\ Walking /\ Takes("file") /\ Linkable /\ UNCHANGED <<nodes, instance>>
        /\ names' = names \/ names' = [names EXCEPT ![Out] = 0]
        /\ run' = [run EXCEPT !.tried = @ \cup {run.next}]
    BY DEF LinkFails, Takes, Steady, Walking, Unlinked
  <1>2. names' \in [Paths -> Nat] /\ \A p \in Paths : names'[p] <= Len(nodes')
    <2>1. /\ names \in [Paths -> Nat] /\ \A p \in Paths : names[p] <= Len(nodes)
          /\ Len(nodes) \in Nat /\ nodes' = nodes /\ Out \in Paths
      BY <1>1, HereFacts DEF Typed
    <2>2. names' = [names EXCEPT ![Out] = 0] => names' \in [Paths -> Nat] /\ \A p \in Paths : names'[p] <= Len(nodes)
      BY <2>1
    <2> QED BY <1>1, <2>1, <2>2
  <1>3. run \in Runs /\ run.next \in Nat
    BY <1>1, HereFacts DEF Typed
  <1>4. run' \in Runs /\ run'.at = "walk" /\ run'.rec = run.rec /\ run'.put = run.put
    BY <1>1, <1>3 DEF Runs, Steady
  <1>5. Typed'
    BY <1>1, <1>2, <1>4, GoesOn DEF Typed, Steady
  <1> QED BY <1>1, <1>5
\* The walk goes on, or the restore ends, and nothing has been put anywhere.
Quiet ==
  \/ run' = [run EXCEPT !.at = "raised"]
  \/ run' = [run EXCEPT !.next = @ + 1, !.failed = @ \cup {run.next}]
  \/ run' = [run EXCEPT !.next = @ + 1, !.skipped = @ \cup {run.next}]

LEMMA QuietTyped ==
  ASSUME Typed, Walking, Quiet
  PROVE  /\ run' \in Runs /\ run'.at \in {"walk", "raised"} /\ run'.rec = run.rec
         /\ run'.put = run.put /\ run'.put \in Where(run.rec)
PROOF
  <1>1. /\ run \in Runs /\ run.next \in Nat \ {0} /\ run.at = "walk" /\ run.put \in Where(run.rec)
    BY HereFacts DEF Typed, Walking
  <1>2. /\ run.failed \cup {run.next} \in SUBSET Nat /\ run.skipped \cup {run.next} \in SUBSET Nat
        /\ run.next + 1 \in Nat \ {0} /\ "raised" \in Places
    BY <1>1 DEF Runs, Places
  <1>3. CASE run' = [run EXCEPT !.at = "raised"]
    BY <1>1, <1>2, <1>3 DEF Runs
  <1>4. CASE run' = [run EXCEPT !.next = @ + 1, !.failed = @ \cup {run.next}]
    BY <1>1, <1>2, <1>4 DEF Runs
  <1>5. CASE run' = [run EXCEPT !.next = @ + 1, !.skipped = @ \cup {run.next}]
    BY <1>1, <1>2, <1>5 DEF Runs
  <1> QED BY <1>3, <1>4, <1>5 DEF Quiet

LEMMA WriteTyped ==
  ASSUME Typed, WriteFile
  PROVE  /\ Typed' /\ Steady /\ Takes("file") /\ ~Linkable
         /\ instance'.trees = instance.trees
         /\ instance'.placed =
              IF Entry.inode # 0 /\ ~Arq5 /\ run'.put[run.next] # Nowhere
              THEN [instance.placed EXCEPT ![Entry.inode] = Target(Out)] ELSE instance.placed
         /\ \/ Quiet /\ UNCHANGED <<names, nodes>>
            \/ /\ Target(Out) # Nowhere /\ ~IsNode(Target(Out), "dir")
               /\ WriteBytes(Target(Out), Entry.blobs) /\ Put(Target(Out))
PROOF
  <1>1. Steady /\ Walking /\ Takes("file") /\ ~Linkable
    BY DEF WriteFile, Takes, Steady, Walking
  <1>2. PICK outcome \in {"got", "failed", "raised"}, scan \in Scans(Entry.blobs) :
          /\ Fetched(Entry, outcome, scan)
          /\ CASE outcome = "failed" -> Fail /\ UNCHANGED fs
               [] outcome = "raised" -> Goto("raised") /\ UNCHANGED fs
               [] outcome = "got" /\ Target(Out) = Nowhere ->
                    /\ run' = [run EXCEPT !.next = @ + 1, !.skipped = @ \cup {run.next}]
                    /\ UNCHANGED fs
               [] outcome = "got" /\ Target(Out) # Nowhere ->
                    IF IsNode(Target(Out), "dir") THEN Goto("raised") /\ UNCHANGED fs
                    ELSE WriteBytes(Target(Out), Entry.blobs) /\ Put(Target(Out))
          /\ instance' = [instance EXCEPT
               !.scanned = scan,
               !.placed = IF Entry.inode # 0 /\ ~Arq5 /\ run'.put[run.next] # Nowhere
                          THEN [@ EXCEPT ![Entry.inode] = Placed(Target(Out))] ELSE @]
    BY DEF WriteFile
  <1>3. scan \in {"no", "found", "missed"}
    BY <1>2, FetchedFacts
  <1>4. \/ Quiet /\ UNCHANGED <<names, nodes>>
        \/ /\ Target(Out) # Nowhere /\ ~IsNode(Target(Out), "dir")
           /\ WriteBytes(Target(Out), Entry.blobs) /\ Put(Target(Out))
    <2>1. CASE outcome = "failed"
      BY <1>2, <2>1 DEF Quiet, Fail, fs
    <2>2. CASE outcome = "raised"
      BY <1>2, <2>2 DEF Quiet, Goto, fs
    <2>3. CASE outcome = "got" /\ Target(Out) = Nowhere
      BY <1>2, <2>3 DEF Quiet, fs
    <2>4. CASE outcome = "got" /\ Target(Out) # Nowhere
      BY <1>2, <2>4 DEF Quiet, Goto, fs
    <2> QED BY <2>1, <2>2, <2>3, <2>4
  <1> DEFINE placed == IF Entry.inode # 0 /\ ~Arq5 /\ run'.put[run.next] # Nowhere
                       THEN [instance.placed EXCEPT ![Entry.inode] = Target(Out)] ELSE instance.placed
  <1>5. instance' = [instance EXCEPT !.scanned = scan, !.placed = placed]
    BY <1>2 DEF Placed
  <1>6. instance \in Instances /\ Entry.inode \in Inodes \cup {0}
    BY <1>1, HereFacts DEF Typed, EntryType
  <1>7. Target(Out) \in Paths \cup {Nowhere}
    BY <1>1, TargetFacts DEF Takes
  <1>8. placed \in [Inodes -> Paths \cup {Nowhere}]
    BY <1>6, <1>7 DEF Instances
  <1> HIDE DEF placed
  <1>9. instance' \in Instances /\ instance'.trees = instance.trees /\ instance'.placed = placed
    BY <1>3, <1>5, <1>6, <1>8 DEF Instances
  <1>10. CASE Quiet /\ UNCHANGED <<names, nodes>>
    <2>1. Typed'
      BY <1>1, <1>9, <1>10, QuietTyped, GoesOn DEF Typed, Steady
    <2> QED BY <1>1, <1>4, <1>9, <2>1 DEF placed
  <1>11. CASE /\ Target(Out) # Nowhere /\ ~IsNode(Target(Out), "dir")
              /\ WriteBytes(Target(Out), Entry.blobs) /\ Put(Target(Out))
    <2>1. Target(Out) \in Paths /\ Entry.blobs \in Bodies
      BY <1>1, <1>7, <1>11, HereFacts
    <2>2. nodes' \in Seq(Node) /\ names' \in [Paths -> Nat] /\ \A p \in Paths : names'[p] <= Len(nodes')
      BY <1>11, <2>1, Written
    <2>3. /\ run' \in Runs /\ run'.at = "walk" /\ run'.rec = run.rec /\ run'.put \in Where(run.rec)
      BY <1>1, <1>11, <2>1, PutTyped
    <2>4. Typed'
      BY <1>1, <1>9, <2>2, <2>3, GoesOn DEF Steady
    <2> QED BY <1>1, <1>4, <1>9, <2>4 DEF placed
  <1> QED BY <1>4, <1>10, <1>11

LEMMA WriteFailsTyped ==
  ASSUME Typed, WriteFails
  PROVE  /\ Typed' /\ Steady /\ Takes("file") /\ ~Linkable
         /\ Target(Out) # Nowhere /\ ~IsNode(Target(Out), "dir")
         /\ WriteBytes(Target(Out), <<>>) /\ instance' = instance
         /\ run' = [run EXCEPT !.at = "raised"]
PROOF
  <1>1. /\ Steady /\ Walking /\ Takes("file") /\ ~Linkable
        /\ Target(Out) # Nowhere /\ ~IsNode(Target(Out), "dir")
        /\ WriteBytes(Target(Out), <<>>) /\ instance' = instance
        /\ run' = [run EXCEPT !.at = "raised"]
    BY DEF WriteFails, Goto, Takes, Steady, Walking
  <1>2. Target(Out) \in Paths /\ <<>> \in Bodies
    BY <1>1, TargetFacts DEF Takes, Bodies
  <1>3. nodes' \in Seq(Node) /\ names' \in [Paths -> Nat] /\ \A p \in Paths : names'[p] <= Len(nodes')
    BY <1>1, <1>2, Written
  <1>4. Quiet
    BY <1>1 DEF Quiet
  <1>5. instance' \in Instances
    BY <1>1 DEF Typed
  <1>6. Typed'
    BY <1>1, <1>3, <1>4, <1>5, QuietTyped, GoesOn DEF Steady
  <1> QED BY <1>1, <1>6

LEMMA SymlinkTyped ==
  ASSUME Typed, MakeSymlink
  PROVE  /\ Typed' /\ Steady /\ Takes("symlink") /\ instance' = instance
         /\ \/ Quiet /\ UNCHANGED <<names, nodes>>
            \/ /\ Create(Out, [kind |-> "symlink", body |-> <<run.dest>> \o Entry.blobs])
               /\ Put(Out)
PROOF
  <1> DEFINE link == [kind |-> "symlink", body |-> <<run.dest>> \o Entry.blobs]
  <1>1. Steady /\ Walking /\ Takes("symlink") /\ instance' = instance
    BY DEF MakeSymlink, Takes, Steady, Walking
  <1>2. \/ Quiet /\ UNCHANGED <<names, nodes>>
        \/ Create(Out, link) /\ Put(Out)
    BY DEF MakeSymlink, Quiet, Fail, Goto, fs
  <1>3. link \in Node /\ Out \in Paths /\ instance' \in Instances
    BY <1>1, HereFacts DEF Node, Kinds, Typed
  <1> HIDE DEF link
  <1>4. CASE Quiet /\ UNCHANGED <<names, nodes>>
    <2>1. Typed'
      BY <1>1, <1>3, <1>4, QuietTyped, GoesOn DEF Typed, Steady
    <2> QED BY <1>1, <1>2, <2>1 DEF link
  <1>5. CASE Create(Out, link) /\ Put(Out)
    <2>1. nodes' \in Seq(Node) /\ names' \in [Paths -> Nat] /\ \A p \in Paths : names'[p] <= Len(nodes')
      BY <1>3, <1>5, Created
    <2>2. /\ run' \in Runs /\ run'.at = "walk" /\ run'.rec = run.rec /\ run'.put \in Where(run.rec)
      BY <1>1, <1>3, <1>5, PutTyped
    <2>3. Typed'
      BY <1>1, <1>3, <2>1, <2>2, GoesOn DEF Steady
    <2> QED BY <1>1, <1>2, <2>3 DEF link
  <1> QED BY <1>2, <1>4, <1>5

LEMMA SymlinkFailsTyped ==
  ASSUME Typed, SymlinkFails
  PROVE  /\ Typed' /\ Steady /\ Takes("symlink") /\ UNCHANGED <<nodes, instance>> /\ Quiet
         /\ names' = names \/ names' = [names EXCEPT ![Out] = 0]
PROOF
  <1>1. /\ Steady /\ Walking /\ Takes("symlink") /\ UNCHANGED <<nodes, instance>> /\ Quiet
        /\ names' = names \/ names' = [names EXCEPT ![Out] = 0]
    BY DEF SymlinkFails, Takes, Steady, Walking, Unlinked, Quiet, Fail
  <1>2. names' \in [Paths -> Nat] /\ \A p \in Paths : names'[p] <= Len(nodes')
    <2>1. /\ names \in [Paths -> Nat] /\ \A p \in Paths : names[p] <= Len(nodes)
          /\ Len(nodes) \in Nat /\ nodes' = nodes /\ Out \in Paths
      BY <1>1, HereFacts DEF Typed
    <2>2. names' = [names EXCEPT ![Out] = 0] => names' \in [Paths -> Nat] /\ \A p \in Paths : names'[p] <= Len(nodes)
      BY <2>1
    <2> QED BY <1>1, <2>1, <2>2
  <1>3. Typed'
    BY <1>1, <1>2, QuietTyped, GoesOn DEF Typed, Steady
  <1> QED BY <1>1, <1>3

LEMMA FinishTyped ==
  ASSUME Typed, Finish
  PROVE  /\ Typed' /\ Steady /\ UNCHANGED <<names, nodes, instance>>
         /\ run' = [run EXCEPT !.at = "ended"] /\ run.next > Len(Records[run.rec])
PROOF
  <1>1. /\ Steady /\ UNCHANGED <<names, nodes, instance>>
        /\ run' = [run EXCEPT !.at = "ended"] /\ run.next > Len(Records[run.rec])
    BY DEF Finish, Goto, fs, Steady
  <1>2. run \in Runs /\ run.put \in Where(run.rec)
    BY <1>1 DEF Typed, Steady
  <1>3. run' \in Runs /\ run'.at = "ended" /\ run'.rec = run.rec /\ run'.put = run.put
    BY <1>1, <1>2 DEF Runs, Places
  <1>4. Typed'
    BY <1>1, <1>2, <1>3, GoesOn DEF Typed, Steady
  <1> QED BY <1>1, <1>4

LEMMA LeaveTyped ==
  ASSUME Typed, Leave
  PROVE  /\ Typed' /\ UNCHANGED <<setting, names, nodes>> /\ run' = Idle /\ instance' = Fresh
         /\ began' = [names |-> names, nodes |-> nodes]
BY IdleFacts DEF Leave, fs, Typed, Arq5

LEMMA LoseTyped ==
  ASSUME Typed, NEW b, Lose(b)
  PROVE  Typed' /\ UNCHANGED <<setting, names, nodes, instance, run, began>>
BY DEF Lose, fs, Typed, Arq5

LEMMA StillTyped == ASSUME Typed, UNCHANGED vars PROVE Typed'
BY DEF vars, fs, Typed, Arq5
----------------------------------------------------------------------------
(* What a restore found stays. *)

\* Where a run goes on within its record and directory.
SameRun == UNCHANGED <<setting, began>> /\ run'.rec = run.rec /\ run'.dest = run.dest

LEMMA StaysKept ==
  ASSUME Typed, OriginalsStay, SameRun,
         setting.policy # "overwrite" =>
           /\ \A p \in Paths \ Relinked : names[p] # 0 => names'[p] = names[p]
           /\ \A n \in 1..Len(nodes) : nodes'[n] = nodes[n]
  PROVE  OriginalsStay'
PROOF
  <1>1. Relinked' = Relinked
    BY DEF SameRun, Relinked
  <1>2. SUFFICES ASSUME setting.policy # "overwrite", NEW p \in Paths \ Relinked, began.names[p] # 0
                 PROVE  names'[p] = began.names[p] /\ nodes'[names'[p]] = began.nodes[names'[p]]
    BY <1>1 DEF OriginalsStay, SameRun
  <1>3. names[p] = began.names[p] /\ nodes[names[p]] = began.nodes[names[p]]
    BY <1>2 DEF OriginalsStay
  <1>4. names[p] \in 1..Len(nodes)
    BY <1>2, <1>3 DEF Typed
  <1> QED BY <1>2, <1>3, <1>4

\* Quiet steps and steps of the walk are within a run.
LEMMA WithinRun ==
  ASSUME Typed, Steady,
         \/ Quiet
         \/ Walking /\ \E p \in Paths : Put(p)
         \/ run' = [run EXCEPT !.next = @ + 1]
         \/ run' = [run EXCEPT !.next = @ + 1, !.dead = @ \cup {Entry.path},
                               !.failed = @ \cup {run.next}]
         \/ run' = [run EXCEPT !.tried = @ \cup {run.next}]
         \/ run' = [run EXCEPT !.at = "ended"]
  PROVE  SameRun
PROOF
  <1>1. run \in Runs
    BY DEF Typed
  <1>2. (Walking /\ \E p \in Paths : Put(p)) => run'.rec = run.rec /\ run'.dest = run.dest
    BY PutTyped
  <1>3. ~(Walking /\ \E p \in Paths : Put(p)) => run'.rec = run.rec /\ run'.dest = run.dest
    BY <1>1 DEF Quiet, Runs
  <1> QED BY <1>2, <1>3 DEF SameRun, Steady

\* Writing where the policy is not to overwrite makes something new.
LEMMA WriteStays ==
  ASSUME Typed, Takes("file"), Target(Out) # Nowhere, NEW body \in Bodies,
         WriteBytes(Target(Out), body), setting.policy # "overwrite"
  PROVE  /\ \A p \in Paths : names[p] # 0 => names'[p] = names[p]
         /\ \A n \in 1..Len(nodes) : nodes'[n] = nodes[n]
PROOF
  <1>1. Target(Out) \in Paths /\ names[Target(Out)] = 0
    BY TargetFacts DEF Takes
  <1>2. Create(Target(Out), [kind |-> "file", body |-> body])
    BY <1>1, Written
  <1>3. [kind |-> "file", body |-> body] \in Node
    BY DEF Node, Kinds
  <1> QED BY <1>1, <1>2, <1>3, Created

\* Entries that replace what is there.
LEMMA ReplacesOnly ==
  ASSUME Typed, Walking, Linkable \/ Entry.kind = "symlink"
  PROVE  Out \in Relinked
BY HereFacts DEF Relinked, Linkable, OutOf

LEMMA NextKept == Kept /\ [Next]_vars => Kept'
PROOF
  <1> SUFFICES ASSUME Kept, [Next]_vars PROVE Kept'
    OBVIOUS
  <1>a. Typed /\ OriginalsStay
    BY DEF Kept
  <1>1. ASSUME NEW r \in Recs, NEW dest \in Dests, NEW keep \in Asked, Begin(r, dest, keep)
        PROVE  Kept'
    <2>1. Typed' /\ began' = [names |-> names, nodes |-> nodes] /\ names' = names /\ nodes' = nodes
      BY <1>a, <1>1, BeginTyped
    <2> QED BY <2>1 DEF Kept, OriginalsStay
  <1>2. CASE Plan
    <2>1. run \in Runs /\ run'.rec = run.rec /\ run'.dest = run.dest /\ began' = began
      <3>1. run \in Runs
        BY <1>a DEF Typed
      <3>2. \E told : run' = [run EXCEPT !.at = "walk", !.told = told]
        BY <1>2 DEF Plan
      <3> QED BY <1>2, <3>1, <3>2 DEF Plan, Runs
    <2> QED BY <1>a, <1>2, <2>1, PlanTyped, StaysKept DEF Kept, SameRun
  <1>3. CASE PassOver
    BY <1>a, <1>3, PassOverTyped, WithinRun, StaysKept DEF Kept
  <1>4. CASE EnterDirectory
    <2>1. Typed' /\ SameRun
      BY <1>a, <1>4, EnterTyped, WithinRun DEF Quiet
    <2>2. [kind |-> "dir", body |-> <<>>] \in Node
      BY DEF Node, Kinds, Bodies
    <2>3. /\ \A p \in Paths : names[p] # 0 => names'[p] = names[p]
          /\ \A n \in 1..Len(nodes) : nodes'[n] = nodes[n]
      <3>1. CASE names' = names /\ nodes' = nodes
        BY <3>1
      <3>2. CASE names[Out] = 0 /\ Create(Out, [kind |-> "dir", body |-> <<>>])
        BY <1>a, <2>2, <3>2, Created
      <3> QED BY <1>a, <1>4, <3>1, <3>2, EnterTyped
    <2> QED BY <1>a, <2>1, <2>3, StaysKept DEF Kept
  <1>5. CASE Link
    <2>1. /\ Typed' /\ Steady /\ Walking /\ Linkable /\ Put(Out) /\ nodes' = nodes
          /\ names' = [names EXCEPT ![Out] = names[First]]
      BY <1>a, <1>5, LinkTyped DEF Takes
    <2>2. Out \in Paths /\ Out \in Relinked
      BY <1>a, <2>1, HereFacts, ReplacesOnly
    <2>3. SameRun
      BY <1>a, <2>1, <2>2, WithinRun
    <2>4. \A p \in Paths \ Relinked : names'[p] = names[p]
      BY <1>a, <2>1, <2>2 DEF Typed
    <2> QED BY <1>a, <2>1, <2>3, <2>4, StaysKept DEF Kept
  <1>6. CASE LinkFails
    <2>1. /\ Typed' /\ Steady /\ Walking /\ Linkable /\ nodes' = nodes
          /\ names' = names \/ names' = [names EXCEPT ![Out] = 0]
          /\ run' = [run EXCEPT !.tried = @ \cup {run.next}]
      BY <1>a, <1>6, LinkFailsTyped DEF Takes
    <2>2. Out \in Paths /\ Out \in Relinked
      BY <1>a, <2>1, HereFacts, ReplacesOnly
    <2>3. SameRun
      BY <1>a, <2>1, WithinRun
    <2>4. \A p \in Paths \ Relinked : names'[p] = names[p]
      BY <1>a, <2>1, <2>2 DEF Typed
    <2> QED BY <1>a, <2>1, <2>3, <2>4, StaysKept DEF Kept
  <1>7. CASE WriteFile
    <2>1. Typed' /\ Steady /\ Walking /\ Takes("file") /\ Entry.blobs \in Bodies
      BY <1>a, <1>7, WriteTyped, HereFacts DEF Takes
    <2>2. CASE Quiet /\ UNCHANGED <<names, nodes>>
      BY <1>a, <2>1, <2>2, WithinRun, StaysKept DEF Kept
    <2>3. CASE Target(Out) # Nowhere /\ WriteBytes(Target(Out), Entry.blobs) /\ Put(Target(Out))
      <3>1. Target(Out) \in Paths
        BY <1>a, <2>1, <2>3, TargetFacts DEF Takes
      <3>2. SameRun
        BY <1>a, <2>1, <2>3, <3>1, WithinRun
      <3> QED BY <1>a, <2>1, <2>3, <3>2, WriteStays, StaysKept DEF Kept
    <2> QED BY <1>a, <1>7, <2>2, <2>3, WriteTyped
  <1>8. CASE WriteFails
    <2>1. /\ Typed' /\ Steady /\ Takes("file") /\ Target(Out) # Nowhere
          /\ WriteBytes(Target(Out), <<>>) /\ Quiet /\ <<>> \in Bodies
      BY <1>a, <1>8, WriteFailsTyped DEF Quiet, Bodies
    <2> QED BY <1>a, <2>1, WithinRun, WriteStays, StaysKept DEF Kept
  <1>9. CASE MakeSymlink
    <2>1. Typed' /\ Steady /\ Walking /\ Entry.kind = "symlink"
      BY <1>a, <1>9, SymlinkTyped DEF Takes, Kind
    <2>2. Out \in Paths /\ Out \in Relinked
      BY <1>a, <2>1, HereFacts, ReplacesOnly
    <2>3. CASE Quiet /\ UNCHANGED <<names, nodes>>
      BY <1>a, <2>1, <2>3, WithinRun, StaysKept DEF Kept
    <2>4. CASE Create(Out, [kind |-> "symlink", body |-> <<run.dest>> \o Entry.blobs]) /\ Put(Out)
      <3>1. [kind |-> "symlink", body |-> <<run.dest>> \o Entry.blobs] \in Node
        BY <1>a, <2>1, HereFacts DEF Node, Kinds
      <3>2. /\ \A p \in Paths \ Relinked : names'[p] = names[p]
            /\ \A n \in 1..Len(nodes) : nodes'[n] = nodes[n]
        BY <1>a, <2>2, <2>4, <3>1, Created
      <3>3. SameRun
        BY <1>a, <2>1, <2>2, <2>4, WithinRun
      <3> QED BY <1>a, <2>1, <3>2, <3>3, StaysKept DEF Kept
    <2> QED BY <1>a, <1>9, <2>3, <2>4, SymlinkTyped
  <1>10. CASE Finish
    BY <1>a, <1>10, FinishTyped, WithinRun, StaysKept DEF Kept
  <1>11. CASE Leave
    BY <1>a, <1>11, LeaveTyped DEF Kept, OriginalsStay
  <1>12. ASSUME NEW b \in Blobs, Lose(b) PROVE Kept'
    BY <1>a, <1>12, LoseTyped, StaysKept DEF Kept, SameRun
  <1>13. CASE UNCHANGED vars
    BY <1>a, <1>13, StillTyped, StaysKept DEF Kept, SameRun, vars, fs
  <1>14. CASE PlanRaises
    <2>1. Typed' /\ SameRun /\ names' = names /\ nodes' = nodes
      BY <1>a, <1>14, PlanRaisesTyped DEF SameRun, Typed, Runs
    <2> QED BY <1>a, <2>1, StaysKept DEF Kept
  <1>15. CASE SymlinkFails
    <2>1. /\ Typed' /\ Steady /\ Walking /\ Entry.kind = "symlink" /\ nodes' = nodes /\ Quiet
          /\ names' = names \/ names' = [names EXCEPT ![Out] = 0]
      BY <1>a, <1>15, SymlinkFailsTyped DEF Takes, Kind
    <2>2. Out \in Paths /\ Out \in Relinked
      BY <1>a, <2>1, HereFacts, ReplacesOnly
    <2>3. SameRun
      BY <1>a, <2>1, WithinRun
    <2>4. \A p \in Paths \ Relinked : names'[p] = names[p]
      BY <1>a, <2>1, <2>2 DEF Typed
    <2> QED BY <1>a, <2>1, <2>3, <2>4, StaysKept DEF Kept
  <1> QED
    BY <1>1, <1>2, <1>3, <1>4, <1>5, <1>6, <1>7, <1>8, <1>9, <1>10, <1>11, <1>12, <1>13,
       <1>14, <1>15, RestoreAssumption
    DEF Next, FromBrowser, FromCommandLine, FromArq5, Asked

\* Where the policy is to skip or to rename, a restore leaves what it found as
\* it was, but where the record has a link: see OriginalsStay.  This holds
\* whatever links there are in the directory, in the record or from earlier
\* restores, and whatever fails (_resolve_conflict_target, _restore_file_node).
THEOREM FoundFilesStay == Spec => []OriginalsStay
PROOF
  <1>1. Init => Kept
    <2>1. Init => OriginalsStay
      BY DEF Init, OriginalsStay
    <2> QED BY <2>1, InitTyped DEF Kept
  <1>2. Kept => OriginalsStay
    BY DEF Kept
  <1> QED BY <1>1, <1>2, NextKept, PTL DEF Spec
----------------------------------------------------------------------------
(* Where entries are put. *)

\* No other entry has been put where this one goes.
LEMMA OutIsFree ==
  ASSUME PutInv, SiblingsApart, Walking, NEW i \in DOMAIN run.put, run.put[i] # Nowhere
  PROVE  run.put[i] # Out /\ i # run.next
PROOF
  <1> DEFINE e == Records[run.rec][i]
  <1>1. /\ Typed /\ i < run.next /\ PutBy(i)
        /\ i \in DOMAIN Records[run.rec] /\ run.next \in DOMAIN Records[run.rec]
        /\ run.rec \in Recs /\ run.dest \in Dests /\ run.next \in Nat /\ i \in Nat
        /\ e \in Entries(run.rec) /\ e \in AllEntries
        /\ Entry \in Entries(run.rec) /\ Entry \in AllEntries /\ Entry = Records[run.rec][run.next]
    BY HereFacts, EntryFacts DEF PutInv, PutsStay
  <1>2. e.path # Entry.path
    <2>1. \A j, k \in DOMAIN Records[run.rec] : Records[run.rec][j].path = Records[run.rec][k].path => j = k
      BY <1>1, RecordsAssumption
    <2>2. i # run.next
      BY <1>1
    <2> HIDE DEF e
    <2> QED BY <1>1, <2>1, <2>2 DEF e
  <1>3. At(run.dest, e) # Out
    BY <1>1, <1>2, AtInjective DEF Out
  <1>4. e.kind = "file" => \A n \in DOMAIN RestoredNs : Sibling(At(run.dest, e), n) # Out
    BY <1>1 DEF SiblingsApart, Out
  <1> QED BY <1>1, <1>3, <1>4 DEF PutBy, OutOf

LEMMA PutsKept ==
  ASSUME PutInv, Typed', SameRun, run'.put = run.put, run'.next >= run.next,
         \A i \in DOMAIN run.put : run.put[i] # Nowhere => names'[run.put[i]] # 0
  PROVE  PutsStay'
PROOF
  <1>1. DOMAIN run.put \subseteq Nat /\ run.next \in Nat /\ run'.next >= run.next
    <2>1. run.put = <<>> \/ DOMAIN run.put = DOMAIN Records[run.rec]
      BY IdleFacts DEF PutInv, Typed, Where
    <2>2. run.rec \in Recs /\ run.next \in Nat
      BY DEF PutInv, Typed, Runs
    <2> QED BY <2>1, <2>2, EntryFacts
  <1>a. run'.next \in Nat
    BY DEF Typed, Runs
  <1>2. SUFFICES ASSUME NEW i \in DOMAIN run.put, run.put[i] # Nowhere
                 PROVE  i < run'.next /\ PutBy(i)' /\ names'[run.put[i]] # 0
    BY DEF PutsStay
  <1>3. i < run.next /\ PutBy(i)
    BY <1>2 DEF PutInv, PutsStay
  <1>4. OutOf(i)' = OutOf(i) /\ run'.rec = run.rec /\ run'.put = run.put
    BY DEF OutOf, SameRun
  <1>5. PutBy(i)'
    <2>1. CASE run.put[i] = OutOf(i)
      BY <1>4, <2>1 DEF PutBy
    <2>2. CASE Records[run.rec][i].kind = "file" /\ \E n \in DOMAIN RestoredNs : run.put[i] = Sibling(OutOf(i), n)
      <3>1. PICK n \in DOMAIN RestoredNs : run.put[i] = Sibling(OutOf(i), n)
        BY <2>2
      <3>2. run'.put[i] = Sibling(OutOf(i)', n)
        BY <1>4, <3>1
      <3> QED BY <1>4, <2>2, <3>2 DEF PutBy
    <2> QED BY <1>3, <2>1, <2>2 DEF PutBy
  <1> QED BY <1>1, <1>a, <1>2, <1>3, <1>5

LEMMA PutsGrown ==
  ASSUME PutInv, SameRun, Walking, NEW p \in Paths, Put(p), names'[p] # 0,
         \/ p = Out
         \/ Entry.kind = "file" /\ \E n \in DOMAIN RestoredNs : p = Sibling(Out, n),
         \A i \in DOMAIN run.put : run.put[i] # Nowhere => names'[run.put[i]] # 0
  PROVE  PutsStay'
PROOF
  <1>1. /\ Typed /\ run.next \in Nat /\ DOMAIN run.put \subseteq Nat
        /\ Entry = Records[run.rec][run.next] /\ Out = OutOf(run.next)
    BY HereFacts DEF PutInv
  <1>2. /\ run'.put[run.next] = p /\ run'.next = run.next + 1 /\ DOMAIN run'.put = DOMAIN run.put
        /\ \A i \in DOMAIN run.put : i # run.next => run'.put[i] = run.put[i]
    BY <1>1, PutTyped
  <1>3. \A i : OutOf(i)' = OutOf(i)
    BY DEF OutOf, SameRun
  <1>4. SUFFICES ASSUME NEW i \in DOMAIN run.put, run'.put[i] # Nowhere
                 PROVE  i < run'.next /\ PutBy(i)' /\ names'[run'.put[i]] # 0
    BY <1>2 DEF PutsStay
  <1>5. CASE i = run.next
    <2>1. PutBy(i)'
      BY <1>1, <1>2, <1>3, <1>5 DEF PutBy, SameRun
    <2> QED BY <1>1, <1>2, <1>5, <2>1
  <1>6. CASE i # run.next
    <2>1. i < run.next /\ PutBy(i) /\ run'.put[i] = run.put[i]
      BY <1>2, <1>4, <1>6 DEF PutInv, PutsStay
    <2>2. PutBy(i)'
      BY <1>3, <2>1 DEF PutBy, SameRun
    <2> QED BY <1>1, <1>2, <1>4, <2>1, <2>2
  <1> QED BY <1>5, <1>6

\* Where the run goes on quietly.
LEMMA QuietPuts ==
  ASSUME PutInv, Steady,
         \/ Quiet
         \/ run' = [run EXCEPT !.next = @ + 1]
         \/ run' = [run EXCEPT !.next = @ + 1, !.dead = @ \cup {Entry.path},
                               !.failed = @ \cup {run.next}]
         \/ run' = [run EXCEPT !.tried = @ \cup {run.next}]
         \/ run' = [run EXCEPT !.at = "ended"]
  PROVE  SameRun /\ run'.put = run.put /\ run'.next >= run.next
PROOF
  <1>1. Typed /\ run \in Runs
    BY DEF PutInv, Typed
  <1>2. run'.put = run.put /\ run'.next \in {run.next, run.next + 1} /\ run.next \in Nat
    BY <1>1 DEF Quiet, Runs
  <1>3. SameRun
    BY <1>1, WithinRun
  <1> QED BY <1>2, <1>3

LEMMA NextPuts == ASSUME SiblingsApart PROVE PutInv /\ [Next]_vars => PutInv'
PROOF
  <1> SUFFICES ASSUME PutInv, [Next]_vars PROVE PutInv'
    OBVIOUS
  <1>a. Typed /\ PutsStay
    BY DEF PutInv
  <1>b. \A i \in DOMAIN run.put : run.put[i] # Nowhere => run.put[i] \in Paths /\ names[run.put[i]] # 0
    <2>1. run.put = <<>> \/ run.put \in Where(run.rec)
      BY <1>a, IdleFacts DEF Typed
    <2> QED BY <1>a, <2>1 DEF PutsStay, Where
  <1>1. ASSUME NEW r \in Recs, NEW dest \in Dests, NEW keep \in Asked, Begin(r, dest, keep)
        PROVE  PutInv'
    <2>1. Typed'
      BY <1>a, <1>1, BeginTyped
    <2>2. PICK at \in {"raised", "walk", "plan"} :
            /\ run' = [Idle EXCEPT !.at = at, !.rec = r, !.dest = dest, !.keep = keep,
                         !.put = [i \in DOMAIN Records[r] |-> Nowhere]]
      BY <1>a, <1>1, BeginTyped
    <2>3. run'.put = [i \in DOMAIN Records[r] |-> Nowhere]
      BY <2>2, IdleFacts DEF Runs
    <2> QED BY <2>1, <2>3 DEF PutInv, PutsStay
  <1>2. CASE Plan
    <2>1. Typed' /\ UNCHANGED <<setting, names, nodes>>
      BY <1>a, <1>2, PlanTyped
    <2>2. \E told : run' = [run EXCEPT !.at = "walk", !.told = told]
      BY <1>2 DEF Plan
    <2>3. SameRun /\ run'.put = run.put /\ run'.next = run.next /\ run.next \in Nat
      <3>1. run \in Runs /\ began' = began
        BY <1>a, <1>2 DEF Typed, Plan
      <3> QED BY <2>1, <2>2, <3>1 DEF SameRun, Runs
    <2> QED BY <1>b, <2>1, <2>3, PutsKept DEF PutInv
  <1>3. CASE PassOver
    BY <1>a, <1>b, <1>3, PassOverTyped, QuietPuts, PutsKept DEF PutInv
  <1>4. CASE EnterDirectory
    <2>1. Typed' /\ SameRun /\ run'.put = run.put /\ run'.next >= run.next
      BY <1>a, <1>4, EnterTyped, QuietPuts DEF Quiet
    <2>2. [kind |-> "dir", body |-> <<>>] \in Node
      BY DEF Node, Kinds, Bodies
    <2>3. \A p \in Paths : names[p] # 0 => names'[p] # 0
      <3>1. CASE names' = names /\ nodes' = nodes
        BY <3>1
      <3>2. CASE names[Out] = 0 /\ Create(Out, [kind |-> "dir", body |-> <<>>])
        BY <1>a, <2>2, <3>2, Created
      <3> QED BY <1>a, <1>4, <3>1, <3>2, EnterTyped
    <2> QED BY <1>b, <2>1, <2>3, PutsKept DEF PutInv
  <1>5. CASE Link
    <2>1. /\ Typed' /\ Steady /\ Walking /\ Linkable /\ Put(Out)
          /\ names' = [names EXCEPT ![Out] = names[First]]
      BY <1>a, <1>5, LinkTyped DEF Takes
    <2>2. Out \in Paths
      BY <1>a, <2>1, HereFacts
    <2>3. SameRun
      BY <1>a, <2>1, <2>2, WithinRun
    <2>4. names'[Out] # 0
      BY <1>a, <2>1, <2>2 DEF Typed, Linkable
    <2>5. \A i \in DOMAIN run.put : run.put[i] # Nowhere => names'[run.put[i]] # 0
      BY <1>a, <1>b, <2>1, OutIsFree DEF Typed
    <2> QED BY <2>1, <2>2, <2>3, <2>4, <2>5, PutsGrown DEF PutInv
  <1>6. CASE LinkFails
    <2>1. /\ Typed' /\ Steady /\ Walking
          /\ names' = names \/ names' = [names EXCEPT ![Out] = 0]
          /\ run' = [run EXCEPT !.tried = @ \cup {run.next}]
      BY <1>a, <1>6, LinkFailsTyped DEF Takes
    <2>2. \A i \in DOMAIN run.put : run.put[i] # Nowhere => names'[run.put[i]] # 0
      BY <1>a, <1>b, <2>1, OutIsFree DEF Typed
    <2> QED BY <2>1, <2>2, QuietPuts, PutsKept DEF PutInv
  <1>7. CASE WriteFile
    <2>1. Typed' /\ Steady /\ Walking /\ Takes("file") /\ Entry.blobs \in Bodies
      BY <1>a, <1>7, WriteTyped, HereFacts DEF Takes
    <2>2. CASE Quiet /\ UNCHANGED <<names, nodes>>
      BY <1>b, <2>1, <2>2, QuietPuts, PutsKept DEF PutInv
    <2>3. CASE Target(Out) # Nowhere /\ WriteBytes(Target(Out), Entry.blobs) /\ Put(Target(Out))
      <3>1. /\ Target(Out) \in Paths
            /\ \/ Target(Out) = Out
               \/ Entry.kind = "file" /\ \E n \in DOMAIN RestoredNs : Target(Out) = Sibling(Out, n)
        BY <1>a, <2>1, <2>3, TargetFacts DEF Takes
      <3>2. SameRun
        BY <1>a, <2>1, <2>3, <3>1, WithinRun
      <3>3. names'[Target(Out)] # 0 /\ \A q \in Paths : names[q] # 0 => names'[q] # 0
        BY <1>a, <2>1, <2>3, <3>1, Written
      <3> QED BY <1>b, <2>1, <2>3, <3>1, <3>2, <3>3, PutsGrown DEF PutInv
    <2> QED BY <1>a, <1>7, <2>2, <2>3, WriteTyped
  <1>8. CASE WriteFails
    <2>1. /\ Typed' /\ Steady /\ Takes("file") /\ Target(Out) # Nowhere
          /\ WriteBytes(Target(Out), <<>>) /\ Quiet /\ <<>> \in Bodies
      BY <1>a, <1>8, WriteFailsTyped DEF Quiet, Bodies
    <2>2. Target(Out) \in Paths
      BY <1>a, <2>1, TargetFacts DEF Takes
    <2>3. \A q \in Paths : names[q] # 0 => names'[q] # 0
      BY <1>a, <2>1, <2>2, Written
    <2> QED BY <1>b, <2>1, <2>3, QuietPuts, PutsKept DEF PutInv
  <1>9. CASE MakeSymlink
    <2>1. Typed' /\ Steady /\ Walking /\ Out \in Paths
      BY <1>a, <1>9, SymlinkTyped, HereFacts DEF Takes
    <2>2. CASE Quiet /\ UNCHANGED <<names, nodes>>
      BY <1>b, <2>1, <2>2, QuietPuts, PutsKept DEF PutInv
    <2>3. CASE Create(Out, [kind |-> "symlink", body |-> <<run.dest>> \o Entry.blobs]) /\ Put(Out)
      <3> DEFINE link == [kind |-> "symlink", body |-> <<run.dest>> \o Entry.blobs]
      <3>1. link \in Node /\ Create(Out, link)
        BY <1>a, <2>1, <2>3, HereFacts DEF Node, Kinds
      <3> HIDE DEF link
      <3>a. /\ Len(nodes) \in Nat /\ names'[Out] = Len(nodes) + 1
            /\ \A q \in Paths : q # Out => names'[q] = names[q]
        BY <1>a, <2>1, <3>1, Created
      <3>2. names'[Out] # 0 /\ \A q \in Paths : names[q] # 0 => names'[q] # 0
        BY <3>a
      <3>3. SameRun
        BY <1>a, <2>1, <2>3, WithinRun
      <3> QED BY <1>b, <2>1, <2>3, <3>2, <3>3, PutsGrown DEF PutInv
    <2> QED BY <1>a, <1>9, <2>2, <2>3, SymlinkTyped
  <1>10. CASE Finish
    BY <1>a, <1>b, <1>10, FinishTyped, QuietPuts, PutsKept DEF PutInv
  <1>11. CASE Leave
    BY <1>a, <1>11, LeaveTyped, IdleFacts DEF PutInv, PutsStay
  <1>12. ASSUME NEW b \in Blobs, Lose(b) PROVE PutInv'
    <2>1. Typed' /\ UNCHANGED <<setting, names, nodes, instance, run, began>> /\ run.next \in Nat
      BY <1>a, <1>12, LoseTyped DEF Typed, Runs
    <2> QED BY <1>b, <2>1, PutsKept DEF PutInv, SameRun
  <1>13. CASE UNCHANGED vars
    <2>1. Typed' /\ UNCHANGED <<setting, names, nodes, instance, run, began>> /\ run.next \in Nat
      BY <1>a, <1>13, StillTyped DEF Typed, Runs, vars, fs
    <2> QED BY <1>b, <2>1, PutsKept DEF PutInv, SameRun
  <1>14. CASE PlanRaises
    <2>1. /\ Typed' /\ SameRun /\ names' = names
          /\ run'.put = run.put /\ run'.next = run.next /\ run.next \in Nat
      BY <1>a, <1>14, PlanRaisesTyped DEF SameRun, Typed, Runs
    <2> QED BY <1>b, <2>1, PutsKept DEF PutInv
  <1>15. CASE SymlinkFails
    <2>1. /\ Typed' /\ Steady /\ Walking /\ Quiet
          /\ names' = names \/ names' = [names EXCEPT ![Out] = 0]
      BY <1>a, <1>15, SymlinkFailsTyped DEF Takes
    <2>2. \A i \in DOMAIN run.put : run.put[i] # Nowhere => names'[run.put[i]] # 0
      BY <1>a, <1>b, <2>1, OutIsFree DEF Typed
    <2> QED BY <1>b, <2>1, <2>2, QuietPuts, PutsKept DEF PutInv
  <1> QED
    BY <1>1, <1>2, <1>3, <1>4, <1>5, <1>6, <1>7, <1>8, <1>9, <1>10, <1>11, <1>12, <1>13,
       <1>14, <1>15, RestoreAssumption
    DEF Next, FromBrowser, FromCommandLine, FromArq5, Asked

LEMMA InitPuts == Init => PutInv
BY InitTyped, IdleFacts DEF Init, PutInv, PutsStay

\* Every variable of a restore keeps its type, only trees are kept in memory,
\* and what was put anywhere stays, later links and failed links included,
\* where no record has a file of a name with our suffix (restore,
\* _restore_file_node).
THEOREM RestoreTyped ==
  ASSUME SiblingsApart
  PROVE  Spec => []TypeOK
PROOF
  <1>1. PutInv => TypeOK
    <2> SUFFICES ASSUME PutInv PROVE TypeOK
      OBVIOUS
    <2>1. nodes \in Seq(Node) /\ Len(nodes) \in Nat /\ DOMAIN nodes = 1..Len(nodes)
      BY DEF PutInv, Typed
    <2>2. names \in [Paths -> 0..Len(nodes)]
      BY <2>1 DEF PutInv, Typed
    <2>3. \A n \in DOMAIN nodes : nodes[n].kind \in Kinds
      <3>1. \A n \in DOMAIN nodes : nodes[n] \in Node
        BY <2>1
      <3> QED BY <3>1 DEF Node
    <2>4. instance \in Instances /\ run.at \in Places
      BY DEF PutInv, Typed, Runs
    <2> QED BY <2>2, <2>3, <2>4 DEF PutInv, PutsStay, TypeOK, Instances, Places
  <1> QED BY <1>1, InitPuts, NextPuts, PTL DEF Spec
----------------------------------------------------------------------------
(* What is said of entries. *)

\* Below more directories that cannot be read there is less to come to.
LEMMA ListingShrinks ==
  ASSUME NEW r, NEW keep, NEW dead, NEW more, dead \subseteq more
  PROVE  Listing(r, keep, more) \subseteq Listing(r, keep, dead)
BY DEF Listing, Under

\* The numbers of a record's entries.
LEMMA PutNumbers ==
  ASSUME Typed
  PROVE  /\ run.rec \in Recs /\ run.next \in Nat
         /\ run.at = "idle" => run.put = <<>> /\ DOMAIN run.put = {}
         /\ run.at # "idle" => run.put \in Where(run.rec) /\ DOMAIN run.put = DOMAIN Records[run.rec]
         /\ DOMAIN run.put \subseteq Nat
         /\ \A i \in DOMAIN run.put : run.put[i] # Nowhere => run.put[i] \in Paths
PROOF
  <1>1. run \in Runs /\ run.rec \in Recs /\ run.next \in Nat
    BY DEF Typed, Runs
  <1>2. run.at = "idle" => run.put = <<>> /\ DOMAIN run.put = {}
    BY IdleFacts DEF Typed
  <1>3. run.at # "idle" => run.put \in Where(run.rec) /\ DOMAIN run.put = DOMAIN Records[run.rec]
    BY DEF Typed, Where
  <1>4. DOMAIN Records[run.rec] \subseteq Nat
    BY <1>1, EntryFacts
  <1> QED BY <1>1, <1>2, <1>3, <1>4 DEF Where

\* Each entry the walk leaves behind is accounted for, once.
LEMMA VerdictsKept ==
  ASSUME PutInv, Verdicts, Typed', SameRun, run.at # "idle", run'.at # "idle",
         run'.keep = run.keep, run.dead \subseteq run'.dead,
         \A i \in DOMAIN run.put : i # run.next => run'.put[i] = run.put[i],
         \A i : i # run.next =>
           (i \in run'.skipped \cup run'.failed <=> i \in run.skipped \cup run.failed),
         \/ /\ run'.next = run.next /\ run'.put = run.put
            /\ run'.skipped = run.skipped /\ run'.failed = run.failed
         \/ /\ run'.next = run.next + 1
            /\ \/ ~Entered(run.next) \/ run'.put[run.next] # Nowhere
               \/ run.next \in run'.skipped \cup run'.failed
            /\ run'.put[run.next] # Nowhere => run.next \notin run'.skipped \cup run'.failed
  PROVE  Verdicts'
PROOF
  <1> DEFINE told == run.skipped \cup run.failed
             said == run'.skipped \cup run'.failed
  <1>1. /\ DOMAIN run'.put = DOMAIN run.put /\ DOMAIN run.put \subseteq Nat /\ run.next \in Nat
        /\ run'.rec = run.rec
    BY PutNumbers DEF PutInv, SameRun, Typed, Where
  <1>2. \A i : Entered(i)' => Entered(i)
    BY ListingShrinks DEF SameRun, Entered
  <1>3. /\ \A i \in DOMAIN run.put : i < run.next /\ Entered(i) => run.put[i] # Nowhere \/ i \in told
        /\ \A i \in told : i < run.next
        /\ \A i \in DOMAIN run.put : run.put[i] # Nowhere => i \notin told
        /\ told \subseteq Nat /\ said \subseteq Nat
    <2>1. told \subseteq Nat /\ said \subseteq Nat
      BY DEF PutInv, Typed, Runs
    <2> QED BY <2>1 DEF Verdicts, Restored
  <1> HIDE DEF told, said
  <1>4. CASE run'.next = run.next /\ run'.put = run.put /\ said = told
    BY <1>1, <1>2, <1>3, <1>4 DEF Verdicts, Restored, told, said
  <1>5. CASE /\ run'.next = run.next + 1
             /\ ~Entered(run.next) \/ run'.put[run.next] # Nowhere \/ run.next \in said
             /\ run'.put[run.next] # Nowhere => run.next \notin said
    <2>1. \A i : i # run.next => (i \in said <=> i \in told)
      BY DEF said, told
    <2>2. ASSUME NEW i \in DOMAIN run'.put, i < run'.next, Entered(i)'
          PROVE  run'.put[i] # Nowhere \/ i \in said
      <3>1. CASE i = run.next
        BY <1>2, <1>5, <2>2, <3>1
      <3>2. CASE i # run.next
        <4>1. i < run.next /\ run'.put[i] = run.put[i]
          BY <1>1, <1>5, <2>2, <3>2
        <4> QED BY <1>1, <1>2, <1>3, <2>1, <2>2, <3>2, <4>1
      <3> QED BY <3>1, <3>2
    <2>3. ASSUME NEW i \in said PROVE i < run'.next
      <3>1. i = run.next \/ i < run.next
        BY <1>3, <2>1
      <3> QED BY <1>1, <1>3, <1>5, <3>1
    <2>4. ASSUME NEW i \in DOMAIN run'.put, run'.put[i] # Nowhere PROVE i \notin said
      <3>1. CASE i = run.next
        BY <1>5, <2>4, <3>1
      <3>2. CASE i # run.next
        BY <1>1, <1>3, <2>1, <2>4, <3>2
      <3> QED BY <3>1, <3>2
    <2> QED BY <2>2, <2>3, <2>4 DEF Verdicts, Restored, said
  <1> QED BY <1>4, <1>5 DEF said, told

\* What a quiet step leaves alone, and what it says.
LEMMA QuietFields ==
  ASSUME Typed, Walking, Quiet
  PROVE  /\ run'.keep = run.keep /\ run'.dead = run.dead /\ run'.put = run.put
         /\ run'.told = run.told /\ run'.tried = run.tried /\ run'.at # "idle" /\ run'.at # "plan"
         /\ \A i : i # run.next =>
              (i \in run'.skipped \cup run'.failed <=> i \in run.skipped \cup run.failed)
         /\ \/ /\ run'.next = run.next
               /\ run'.skipped = run.skipped /\ run'.failed = run.failed
            \/ /\ run'.next = run.next + 1
               /\ run.next \in run'.skipped \cup run'.failed
PROOF
  <1>1. run \in Runs /\ run.at = "walk"
    BY DEF Typed, Walking
  <1>2. CASE run' = [run EXCEPT !.at = "raised"]
    BY <1>1, <1>2 DEF Runs
  <1>3. CASE run' = [run EXCEPT !.next = @ + 1, !.failed = @ \cup {run.next}]
    BY <1>1, <1>3 DEF Runs
  <1>4. CASE run' = [run EXCEPT !.next = @ + 1, !.skipped = @ \cup {run.next}]
    BY <1>1, <1>4 DEF Runs
  <1> QED BY <1>2, <1>3, <1>4 DEF Quiet

\* Nothing has been put for the entry the walk is at, and nothing said of it.
LEMMA NextIsOpen ==
  ASSUME PutInv, Verdicts, Walking
  PROVE  /\ run.put[run.next] = Nowhere /\ run.next \notin run.skipped \cup run.failed
         /\ run.next \in DOMAIN run.put
PROOF
  <1>1. Typed /\ run.next \in Nat /\ run.next \in DOMAIN run.put
    BY HereFacts DEF PutInv
  <1>2. ~(run.next < run.next)
    BY <1>1
  <1> QED BY <1>1, <1>2 DEF PutInv, PutsStay, Verdicts

\* An entry that is put somewhere is said to be nothing else.
LEMMA VerdictsGrown ==
  ASSUME PutInv, Verdicts, Typed', SameRun, Walking, NEW p \in Paths, Put(p)
  PROVE  Verdicts'
PROOF
  <1>1. Typed /\ p # Nowhere
    BY PathsTyped DEF PutInv
  <1>2. /\ run'.put[run.next] = p /\ run'.at = "walk" /\ run'.next = run.next + 1
        /\ \A i \in DOMAIN run.put : i # run.next => run'.put[i] = run.put[i]
        /\ run'.keep = run.keep /\ run'.dead = run.dead
        /\ run'.skipped = run.skipped /\ run'.failed = run.failed
    BY <1>1, PutTyped
  <1>3. run.next \notin run'.skipped \cup run'.failed
    BY <1>2, NextIsOpen
  <1>4. run.at # "idle" /\ run'.at # "idle"
    BY <1>2 DEF Walking
  <1> QED BY <1>1, <1>2, <1>3, <1>4, VerdictsKept

\* A step after which nothing more is put.
LEMMA VerdictsQuiet ==
  ASSUME PutInv, Verdicts, Typed', SameRun, Walking, Quiet
  PROVE  Verdicts'
PROOF
  <1>1. Typed /\ run.at # "idle"
    BY DEF PutInv, Walking
  <1>2. run.put[run.next] = Nowhere
    BY NextIsOpen
  <1>3. /\ run'.keep = run.keep /\ run'.dead = run.dead /\ run'.put = run.put /\ run'.at # "idle"
        /\ \A i : i # run.next =>
             (i \in run'.skipped \cup run'.failed <=> i \in run.skipped \cup run.failed)
        /\ \/ /\ run'.next = run.next
              /\ run'.skipped = run.skipped /\ run'.failed = run.failed
           \/ /\ run'.next = run.next + 1
              /\ run.next \in run'.skipped \cup run'.failed
    BY <1>1, QuietFields
  <1> QED BY <1>1, <1>2, <1>3, VerdictsKept

\* What is kept in memory keeps what was counted within reach.
LEMMA PromisedKept ==
  ASSUME Typed, Promised, SameRun, run'.keep = run.keep, run'.told = run.told,
         instance.trees \subseteq instance'.trees, run'.at # "idle", run'.at # "plan",
         \/ run'.dead = run.dead
         \/ /\ Walking /\ Takes("dir") /\ ~Cached(Entry)
            /\ run'.dead = run.dead \cup {Entry.path}
  PROVE  Promised'
PROOF
  <1>1. \A e : Cached(e) => Cached(e)'
    BY DEF Cached, Arq5, SameRun
  <1>2. \A e \in Trees(run.rec) : \A t \in run.told :
          Descends(run.keep, e.path) /\ IsStrictPrefix(e.path, t.path) => Cached(e)
    BY DEF Promised
  <1>3. run.told \subseteq Listing(run.rec, run.keep, run'.dead)
    <2>1. CASE run'.dead = run.dead
      BY <2>1 DEF Promised
    <2>2. CASE /\ Walking /\ Takes("dir") /\ ~Cached(Entry)
               /\ run'.dead = run.dead \cup {Entry.path}
      <3>1. Entry \in Trees(run.rec) /\ Descends(run.keep, Entry.path)
        BY <2>2, HereFacts DEF Takes, Kind, Trees, Selected
      <3>2. \A t \in run.told : ~IsStrictPrefix(Entry.path, t.path)
        BY <1>2, <2>2, <3>1
      <3>3. run.told \subseteq Listing(run.rec, run.keep, run.dead)
        BY DEF Promised
      <3> QED BY <2>2, <3>2, <3>3 DEF Listing, Under
    <2> QED BY <2>1, <2>2
  <1>4. Arq5' = Arq5 /\ (Arq5 => run.told = {})
    BY DEF Promised, Arq5, SameRun
  <1>6. Trees(run.rec)' = Trees(run.rec)
    BY DEF SameRun
  <1>7. (Arq5 \/ run.at \in {"idle", "plan"} => run.told = {})'
    BY <1>4 DEF Promised
  <1> QED BY <1>1, <1>2, <1>3, <1>4, <1>6, <1>7 DEF Promised, SameRun

\* Counting keeps in memory every tree it has read; what it counts lies under
\* no tree it could not read.
LEMMA PlanPromises == ASSUME Typed, Promised, Plan PROVE Promised'
PROOF
  <1>0. PICK missed \in SUBSET Planned :
          /\ run' = [run EXCEPT !.at = "walk",
               !.told = Listing(run.rec, run.keep, {e.path : e \in Lost \cup missed})]
          /\ instance' = [instance EXCEPT
               !.trees = @ \cup UNION {ToSet(e.blobs) : e \in Counted(Lost \cup missed)}]
    BY DEF Plan, Counted
  <1> DEFINE lost == Lost \cup missed
             dead == {e.path : e \in lost}
             read == Counted(lost)
             told == Listing(run.rec, run.keep, dead)
             trees == instance.trees \cup UNION {ToSet(e.blobs) : e \in read}
  <1>1. /\ run' = [run EXCEPT !.at = "walk", !.told = told] /\ run.at = "plan"
        /\ instance' = [instance EXCEPT !.trees = trees] /\ UNCHANGED setting
    BY <1>0 DEF Plan
  <1>2. run \in Runs /\ instance \in Instances /\ run.rec \in Recs
    BY DEF Typed, Runs
  <1> HIDE DEF told, trees
  <1>3. /\ run'.at = "walk" /\ run'.told = told /\ run'.dead = run.dead /\ run'.rec = run.rec
        /\ run'.keep = run.keep /\ instance'.trees = trees
    BY <1>1, <1>2 DEF Runs, Instances
  <1>4. ~Arq5 /\ ~Arq5' /\ run'.dead = {}
    BY <1>1, <1>3 DEF Promised, Arq5
  <1>5. told \subseteq Listing(run.rec, run.keep, {})
    BY ListingShrinks DEF told
  <1>6. ASSUME NEW e \in Trees(run.rec), NEW t \in told,
               Descends(run.keep, e.path), IsStrictPrefix(e.path, t.path)
        PROVE  Cached(e)'
    <2>1. t \in Entries(run.rec) /\ \A d \in dead : ~IsStrictPrefix(d, t.path)
      BY DEF told, Listing, Under
    <2>2. e \in Planned /\ e \notin lost
      BY <1>6, <2>1 DEF Planned
    <2>3. ~Under(dead, e)
      <3> SUFFICES ASSUME NEW d \in dead, IsStrictPrefix(d, e.path) PROVE FALSE
        BY DEF Under
      <3>1. d \in Seq(Parts) /\ e.path \in Seq(Parts) /\ t.path \in Seq(Parts)
        <4>1. \A f \in Entries(run.rec) : f.path \in Seq(Parts)
          BY <1>2, EntryFacts DEF EntryType
        <4>2. dead \subseteq Seq(Parts)
          BY <4>1 DEF Lost, Planned, Trees
        <4> QED BY <2>1, <4>1, <4>2 DEF Trees
      <3>2. IsStrictPrefix(d, t.path)
        BY <1>6, <3>1, AboveAbove
      <3> QED BY <2>1, <3>2
    <2>4. ToSet(e.blobs) \subseteq trees
      <3>1. e \in read
        BY <2>2, <2>3 DEF Counted
      <3> QED BY <3>1 DEF trees
    <2> QED BY <1>3, <1>4, <2>4 DEF Cached
  <1> QED BY <1>3, <1>4, <1>5, <1>6 DEF Promised

LEMMA NextAnswered == ASSUME SiblingsApart PROVE Answered /\ [Next]_vars => Answered'
PROOF
  <1> SUFFICES ASSUME Answered, [Next]_vars PROVE Verdicts' /\ Promised'
    BY NextPuts DEF Answered
  <1>a. PutInv /\ Typed /\ Verdicts /\ Promised /\ Typed' /\ run \in Runs /\ run.next \in Nat
    BY NextPuts DEF Answered, PutInv, Typed, Runs
  <1>1. ASSUME NEW r \in Recs, NEW dest \in Dests, NEW keep \in Asked, Begin(r, dest, keep)
        PROVE  Verdicts' /\ Promised'
    <2>1. PICK at \in {"raised", "walk", "plan"} :
            /\ run' = [Idle EXCEPT !.at = at, !.rec = r, !.dest = dest, !.keep = keep,
                         !.put = [i \in DOMAIN Records[r] |-> Nowhere]]
      BY <1>a, <1>1, BeginTyped
    <2>2. at = "plan" => ~Arq5'
      BY <1>1, <2>1, IdleFacts DEF Begin, Runs, Arq5
    <2>3. /\ run'.put = [i \in DOMAIN Records[r] |-> Nowhere] /\ run'.next = 1 /\ run'.dead = {}
          /\ run'.at = at /\ run'.rec = r /\ run'.told = {} /\ run'.skipped = {} /\ run'.failed = {}
      BY <2>1, IdleFacts DEF Runs, Idle
    <2>4. \A i \in DOMAIN run'.put : ~(i < run'.next) /\ run'.put[i] = Nowhere
      BY <2>3, EntryFacts
    <2> QED BY <2>2, <2>3, <2>4 DEF Verdicts, Restored, Promised
  <1>2. CASE Plan
    <2>1. PICK told : run' = [run EXCEPT !.at = "walk", !.told = told]
      BY <1>2 DEF Plan
    <2>2. /\ run'.put = run.put /\ run'.next = run.next /\ run'.rec = run.rec /\ run'.dest = run.dest
          /\ run'.keep = run.keep /\ run'.dead = run.dead /\ run'.at = "walk"
          /\ run'.skipped = run.skipped /\ run'.failed = run.failed
      BY <1>a, <2>1 DEF Runs
    <2>3. SameRun /\ run.at # "idle"
      BY <1>2, <2>2 DEF Plan, SameRun
    <2>4. Verdicts'
      BY <1>a, <2>2, <2>3, VerdictsKept
    <2> QED BY <1>a, <1>2, <2>4, PlanPromises
  <1>3. CASE PassOver
    <2>1. /\ Steady /\ Walking /\ UNCHANGED <<names, nodes, instance>>
          /\ run' = [run EXCEPT !.next = @ + 1]
          /\ ~Selected(run.keep, Entry) \/ Under(run.dead, Entry)
      BY <1>a, <1>3, PassOverTyped
    <2>2. SameRun /\ ~Entered(run.next)
      BY <1>a, <2>1, WithinRun DEF Entered, Entry, Listing
    <2>3. /\ run'.put = run.put /\ run'.next = run.next + 1 /\ run'.keep = run.keep
          /\ run'.dead = run.dead /\ run'.told = run.told /\ run'.at = "walk"
          /\ run'.skipped = run.skipped /\ run'.failed = run.failed
      BY <1>a, <2>1 DEF Runs, Steady
    <2>4. run.put[run.next] = Nowhere /\ run.at # "idle" /\ instance'.trees = instance.trees
      BY <1>a, <2>1, NextIsOpen DEF Steady
    <2>5. Verdicts'
      BY <1>a, <2>2, <2>3, <2>4, VerdictsKept
    <2> QED BY <1>a, <2>2, <2>3, <2>4, <2>5, PromisedKept
  <1>4. CASE EnterDirectory
    <2>1. /\ Steady /\ Walking /\ Takes("dir") /\ instance.trees \subseteq instance'.trees /\ SameRun
          /\ \/ run' = [run EXCEPT !.at = "raised"]
             \/ run' = [run EXCEPT !.next = @ + 1]
             \/ /\ ~Cached(Entry)
                /\ run' = [run EXCEPT !.next = @ + 1, !.dead = @ \cup {Entry.path},
                                      !.failed = @ \cup {run.next}]
      BY <1>a, <1>4, EnterTyped, QuietPuts DEF Quiet
    <2>2. run.put[run.next] = Nowhere /\ run.at = "walk" /\ ~Entered(run.next)
      BY <1>a, <2>1, NextIsOpen DEF Steady, Entered, Listing, Takes, Kind, Entry
    <2>3. CASE run' = [run EXCEPT !.at = "raised"]
      <3>1. Quiet
        BY <2>3 DEF Quiet
      <3> QED BY <1>a, <2>1, <3>1, VerdictsQuiet, QuietFields, PromisedKept
    <2>4. CASE run' = [run EXCEPT !.next = @ + 1]
      <3>1. /\ run'.put = run.put /\ run'.next = run.next + 1 /\ run'.keep = run.keep
            /\ run'.dead = run.dead /\ run'.told = run.told /\ run'.at = "walk"
            /\ run'.skipped = run.skipped /\ run'.failed = run.failed
        BY <1>a, <2>2, <2>4 DEF Runs
      <3>2. Verdicts'
        BY <1>a, <2>1, <2>2, <3>1, VerdictsKept
      <3> QED BY <1>a, <2>1, <3>1, <3>2, PromisedKept
    <2>5. CASE /\ ~Cached(Entry)
               /\ run' = [run EXCEPT !.next = @ + 1, !.dead = @ \cup {Entry.path},
                                     !.failed = @ \cup {run.next}]
      <3>1. /\ run'.put = run.put /\ run'.next = run.next + 1 /\ run'.keep = run.keep
            /\ run'.dead = run.dead \cup {Entry.path} /\ run'.told = run.told /\ run'.at = "walk"
            /\ run'.skipped = run.skipped /\ run'.failed = run.failed \cup {run.next}
        BY <1>a, <2>2, <2>5 DEF Runs
      <3>2. Verdicts'
        BY <1>a, <2>1, <2>2, <3>1, VerdictsKept
      <3> QED BY <1>a, <2>1, <2>5, <3>1, <3>2, PromisedKept
    <2> QED BY <2>1, <2>3, <2>4, <2>5
  <1>5. CASE Link
    <2>1. Steady /\ Walking /\ Put(Out) /\ UNCHANGED instance /\ Out \in Paths
      BY <1>a, <1>5, LinkTyped, HereFacts DEF Takes
    <2>2. SameRun
      BY <1>a, <2>1, WithinRun
    <2> QED BY <1>a, <2>1, <2>2, VerdictsGrown, PutTyped, PromisedKept
  <1>6. CASE LinkFails
    <2>1. Steady /\ Walking /\ UNCHANGED instance /\ run' = [run EXCEPT !.tried = @ \cup {run.next}]
      BY <1>a, <1>6, LinkFailsTyped DEF Takes
    <2>2. SameRun
      BY <1>a, <2>1, WithinRun
    <2>3. /\ run'.put = run.put /\ run'.next = run.next /\ run'.keep = run.keep
          /\ run'.dead = run.dead /\ run'.told = run.told /\ run'.at = "walk" /\ run.at # "idle"
          /\ run'.skipped = run.skipped /\ run'.failed = run.failed
      BY <1>a, <2>1 DEF Runs, Steady
    <2>4. Verdicts'
      BY <1>a, <2>2, <2>3, VerdictsKept
    <2> QED BY <1>a, <2>1, <2>2, <2>3, <2>4, PromisedKept
  <1>7. CASE WriteFile
    <2>1. Steady /\ Walking /\ Takes("file") /\ instance'.trees = instance.trees
      BY <1>a, <1>7, WriteTyped DEF Takes
    <2>2. CASE Quiet
      BY <1>a, <2>1, <2>2, WithinRun, VerdictsQuiet, QuietFields, PromisedKept
    <2>3. CASE Target(Out) # Nowhere /\ Put(Target(Out))
      <3>1. Target(Out) \in Paths
        BY <1>a, <2>1, <2>3, TargetFacts DEF Takes
      <3>2. SameRun
        BY <1>a, <2>1, <2>3, <3>1, WithinRun
      <3> QED BY <1>a, <2>1, <2>3, <3>1, <3>2, VerdictsGrown, PutTyped, PromisedKept
    <2> QED BY <1>a, <1>7, <2>2, <2>3, WriteTyped
  <1>8. CASE WriteFails
    <2>1. Steady /\ Walking /\ UNCHANGED instance /\ Quiet
      BY <1>a, <1>8, WriteFailsTyped DEF Quiet, Takes
    <2> QED BY <1>a, <2>1, WithinRun, VerdictsQuiet, QuietFields, PromisedKept
  <1>9. CASE MakeSymlink
    <2>1. Steady /\ Walking /\ UNCHANGED instance /\ Out \in Paths
      BY <1>a, <1>9, SymlinkTyped, HereFacts DEF Takes
    <2>2. CASE Quiet
      BY <1>a, <2>1, <2>2, WithinRun, VerdictsQuiet, QuietFields, PromisedKept
    <2>3. CASE Put(Out)
      BY <1>a, <2>1, <2>3, WithinRun, VerdictsGrown, PutTyped, PromisedKept
    <2> QED BY <1>a, <1>9, <2>2, <2>3, SymlinkTyped
  <1>10. CASE Finish
    <2>1. Steady /\ UNCHANGED instance /\ run' = [run EXCEPT !.at = "ended"]
      BY <1>a, <1>10, FinishTyped
    <2>2. SameRun
      BY <1>a, <2>1, WithinRun
    <2>3. /\ run'.put = run.put /\ run'.next = run.next /\ run'.keep = run.keep
          /\ run'.dead = run.dead /\ run'.told = run.told /\ run'.at = "ended" /\ run.at # "idle"
          /\ run'.skipped = run.skipped /\ run'.failed = run.failed
      BY <1>a, <2>1 DEF Runs, Steady
    <2>4. Verdicts'
      BY <1>a, <2>2, <2>3, VerdictsKept
    <2> QED BY <1>a, <2>1, <2>2, <2>3, <2>4, PromisedKept
  <1>11. CASE Leave
    BY <1>a, <1>11, LeaveTyped, IdleFacts DEF Verdicts, Promised, Idle
  <1>12. ASSUME NEW b \in Blobs, Lose(b) PROVE Verdicts' /\ Promised'
    BY <1>a, <1>12, LoseTyped DEF Verdicts, Entered, Restored, Promised, Cached, Arq5
  <1>13. CASE UNCHANGED vars
    BY <1>a, <1>13 DEF vars, Verdicts, Entered, Restored, Promised, Cached, Arq5
  <1>14. CASE PlanRaises
    <2>1. /\ run'.put = run.put /\ run'.next = run.next /\ run'.keep = run.keep
          /\ run'.dead = run.dead /\ run'.told = run.told /\ run'.at = "raised" /\ run.at = "plan"
          /\ run'.skipped = run.skipped /\ run'.failed = run.failed
          /\ SameRun /\ instance' = instance
      BY <1>a, <1>14, PlanRaisesTyped DEF SameRun, Runs
    <2>2. Verdicts'
      BY <1>a, <2>1, VerdictsKept
    <2> QED BY <1>a, <2>1, <2>2, PromisedKept
  <1>15. CASE SymlinkFails
    <2>1. Steady /\ Walking /\ UNCHANGED instance /\ Quiet
      BY <1>a, <1>15, SymlinkFailsTyped DEF Takes
    <2> QED BY <1>a, <2>1, WithinRun, VerdictsQuiet, QuietFields, PromisedKept
  <1> QED
    BY <1>1, <1>2, <1>3, <1>4, <1>5, <1>6, <1>7, <1>8, <1>9, <1>10, <1>11, <1>12, <1>13,
       <1>14, <1>15, RestoreAssumption
    DEF Next, FromBrowser, FromCommandLine, FromArq5, Asked

LEMMA InitAnswered == Init => Answered
BY InitPuts, IdleFacts DEF Init, Answered, Verdicts, Promised, Idle
----------------------------------------------------------------------------
(* The names of one file. *)

\* What is written over, removed or made is not where an entry was put.
PutsUntouched == \A i \in DOMAIN run.put : Restored(i) => names'[run.put[i]] = names[run.put[i]]

LEMMA EntrySharing ==
  ASSUME Typed, Walking
  PROVE  Shared(run.next) <=> ~Arq5 /\ Entry.kind = "file" /\ Entry.inode # 0
BY DEF Shared, Inode, Entry

LEMMA SharedInode ==
  ASSUME Typed, NEW i \in DOMAIN run.put, Shared(i)
  PROVE  Inode(i) \in Inodes
PROOF
  <1>1. run.rec \in Recs /\ i \in DOMAIN Records[run.rec]
    BY PutNumbers
  <1>2. Records[run.rec][i] \in EntryType
    BY <1>1, EntryFacts
  <1> QED BY <1>2 DEF EntryType, Shared, Inode

LEMMA LinkedKept ==
  ASSUME Typed, Linked, SameRun, PutsUntouched, run'.put = run.put,
         instance'.placed = instance.placed, run.tried \subseteq run'.tried
  PROVE  Linked'
PROOF
  <1>1. \A i : Shared(i)' = Shared(i) /\ Inode(i)' = Inode(i) /\ Restored(i)' = Restored(i)
    BY DEF Shared, Inode, Restored, SameRun, Arq5
  <1>2. \A n \in Inodes : instance.placed[n] # Nowhere =>
           names'[instance.placed[n]] = names[instance.placed[n]]
    BY DEF Linked, PutsUntouched
  <1>3. \A i \in DOMAIN run.put : Restored(i) /\ Shared(i) =>
           /\ instance.placed[Inode(i)] # Nowhere
           /\ \/ names'[run.put[i]] = names'[instance.placed[Inode(i)]]
              \/ \E k \in run'.tried : Inode(k) = Inode(i)
    <2> SUFFICES ASSUME NEW i \in DOMAIN run.put, Restored(i), Shared(i)
                 PROVE  /\ instance.placed[Inode(i)] # Nowhere
                        /\ \/ names'[run.put[i]] = names'[instance.placed[Inode(i)]]
                           \/ \E k \in run'.tried : Inode(k) = Inode(i)
      OBVIOUS
    <2>1. /\ instance.placed[Inode(i)] # Nowhere
          /\ \/ names[run.put[i]] = names[instance.placed[Inode(i)]]
             \/ \E k \in run.tried : Inode(k) = Inode(i)
      BY DEF Linked
    <2>2. names'[run.put[i]] = names[run.put[i]]
      BY DEF PutsUntouched
    <2>3. names'[instance.placed[Inode(i)]] = names[instance.placed[Inode(i)]]
      BY <1>2, <2>1, SharedInode
    <2> QED BY <2>1, <2>2, <2>3
  <1> QED BY <1>1, <1>3 DEF Linked

LEMMA LinkedGrown ==
  ASSUME PutInv, SiblingsApart, Linked, SameRun, Walking, PutsUntouched, NEW p \in Paths, Put(p),
         \/ ~Shared(run.next) /\ instance'.placed = instance.placed
         \/ /\ instance'.placed = instance.placed /\ instance.placed[Inode(run.next)] # Nowhere
            /\ names'[p] = names[instance.placed[Inode(run.next)]]
         \/ /\ Shared(run.next)
            /\ instance'.placed = [instance.placed EXCEPT ![Inode(run.next)] = p]
            /\ instance.placed[Inode(run.next)] = Nowhere \/ run.next \in run.tried
  PROVE  Linked'
PROOF
  <1> DEFINE was == instance.placed
             is == instance'.placed
             n == Inode(run.next)
  <1>1. Typed /\ p # Nowhere /\ run.next \in DOMAIN run.put /\ was \in [Inodes -> Paths \cup {Nowhere}]
    BY HereFacts, PathsTyped DEF PutInv, Typed, Instances
  <1>2. /\ run'.put[run.next] = p /\ run'.tried = run.tried /\ DOMAIN run'.put = DOMAIN run.put
        /\ \A i \in DOMAIN run.put : i # run.next => run'.put[i] = run.put[i]
    BY <1>1, PutTyped
  <1>3. \A i : Shared(i)' = Shared(i) /\ Inode(i)' = Inode(i)
    BY DEF Shared, Inode, SameRun, Arq5
  <1>4. \A i \in DOMAIN run.put : Restored(i) => i # run.next /\ run'.put[i] = run.put[i]
    BY <1>2, OutIsFree DEF Restored
  <1>5. \A m \in Inodes : was[m] # Nowhere =>
           /\ names'[was[m]] = names[was[m]]
           /\ \E i \in DOMAIN run.put : /\ Restored(i) /\ run'.put[i] = was[m]
                                        /\ Shared(i) /\ Inode(i) = m
    BY <1>4 DEF Linked, PutsUntouched
  <1>6. ASSUME NEW m \in Inodes, is[m] # Nowhere
        PROVE  \E i \in DOMAIN run'.put : /\ run'.put[i] # Nowhere /\ run'.put[i] = is[m]
                                          /\ Shared(i) /\ Inode(i) = m
    <2>1. CASE is[m] = was[m]
      BY <1>2, <1>5, <1>6, <2>1
    <2>2. CASE is[m] # was[m]
      <3>1. Shared(run.next) /\ is = [was EXCEPT ![n] = p]
        BY <2>2
      <3>2. m = n /\ is[m] = p
        BY <1>1, <2>2, <3>1
      <3> QED BY <1>1, <1>2, <3>1, <3>2
    <2> QED BY <2>1, <2>2
  <1>7. ASSUME NEW i \in DOMAIN run'.put, run'.put[i] # Nowhere, Shared(i)
        PROVE  /\ is[Inode(i)] # Nowhere
               /\ \/ names'[run'.put[i]] = names'[is[Inode(i)]]
                  \/ \E k \in run'.tried : Inode(k) = Inode(i)
    <2>1. Inode(i) \in Inodes
      BY <1>1, <1>2, <1>7, SharedInode
    <2>2. CASE i = run.next
      <3>1. CASE is = was /\ was[n] # Nowhere /\ names'[p] = names[was[n]]
        BY <1>2, <1>5, <2>1, <2>2, <3>1
      <3>2. CASE is = [was EXCEPT ![n] = p]
        <4>1. is[n] = p
          BY <1>1, <2>1, <2>2, <3>2
        <4> QED BY <1>1, <1>2, <2>2, <4>1
      <3> QED BY <1>7, <2>2, <3>1, <3>2
    <2>3. CASE i # run.next
      <3>1. /\ Restored(i) /\ run'.put[i] = run.put[i] /\ was[Inode(i)] # Nowhere
            /\ \/ names[run.put[i]] = names[was[Inode(i)]]
               \/ \E k \in run.tried : Inode(k) = Inode(i)
        BY <1>2, <1>7, <2>3 DEF Restored, Linked
      <3>2. names'[run.put[i]] = names[run.put[i]] /\ names'[was[Inode(i)]] = names[was[Inode(i)]]
        BY <1>2, <1>5, <2>1, <3>1 DEF PutsUntouched
      <3>3. CASE is[Inode(i)] = was[Inode(i)]
        BY <1>2, <3>1, <3>2, <3>3
      <3>4. CASE is[Inode(i)] # was[Inode(i)]
        <4>1. /\ is = [was EXCEPT ![n] = p] /\ Shared(run.next)
              /\ was[n] = Nowhere \/ run.next \in run.tried
          BY <3>4
        <4>2. Inode(i) = n /\ is[n] = p
          BY <1>1, <2>1, <3>4, <4>1
        <4>3. run.next \in run.tried
          BY <3>1, <4>1, <4>2
        <4> QED BY <1>1, <1>2, <4>2, <4>3
      <3> QED BY <3>3, <3>4
    <2> QED BY <2>2, <2>3
  <1> HIDE DEF was, is, n
  <1>8. \A m \in Inodes : is[m] # Nowhere =>
          \E i \in DOMAIN run'.put : /\ run'.put[i] # Nowhere /\ run'.put[i] = is[m]
                                     /\ Shared(i)' /\ Inode(i)' = m
    BY <1>3, <1>6
  <1>9. \A i \in DOMAIN run'.put : run'.put[i] # Nowhere /\ Shared(i)' =>
          /\ is[Inode(i)'] # Nowhere
          /\ \/ names'[run'.put[i]] = names'[is[Inode(i)']]
             \/ \E k \in run'.tried : Inode(k)' = Inode(i)'
    BY <1>3, <1>7
  <1> QED BY <1>8, <1>9 DEF Linked, Restored, is

\* Writing a file takes nothing from any path.
LEMMA WriteUntouched ==
  ASSUME Typed, NEW p, NEW body \in Bodies, WriteBytes(p, body)
  PROVE  \A q \in Paths : names[q] # 0 => names'[q] = names[q]
PROOF
  <1>1. [kind |-> "file", body |-> body] \in Node
    BY DEF Node, Kinds
  <1>2. CASE names[Follow(p)] = 0
    <2>1. Create(Follow(p), [kind |-> "file", body |-> body])
      BY <1>2 DEF WriteBytes
    <2> QED BY <1>1, <1>2, <2>1, Created
  <1>3. CASE names[Follow(p)] # 0
    BY <1>3 DEF WriteBytes
  <1> QED BY <1>2, <1>3

\* Changing what a path leads to that nothing was put under.
LEMMA OutUntouched ==
  ASSUME PutInv, SiblingsApart, Walking, \A q \in Paths : q # Out => names'[q] = names[q]
  PROVE  PutsUntouched
BY OutIsFree, PutNumbers DEF PutsUntouched, Restored, PutInv

LEMMA MoreUntouched ==
  ASSUME PutInv, \A q \in Paths : names[q] # 0 => names'[q] = names[q]
  PROVE  PutsUntouched
BY PutNumbers DEF PutsUntouched, Restored, PutInv, PutsStay

LEMMA NextLinked == ASSUME SiblingsApart PROVE PutInv /\ Linked /\ [Next]_vars => Linked'
PROOF
  <1> SUFFICES ASSUME PutInv, Linked, [Next]_vars PROVE Linked'
    OBVIOUS
  <1>a. Typed /\ run \in Runs
    BY DEF PutInv, Typed
  <1>1. ASSUME NEW r \in Recs, NEW dest \in Dests, NEW keep \in Asked, Begin(r, dest, keep)
        PROVE  Linked'
    <2>1. PICK at \in {"raised", "walk", "plan"} :
            /\ run' = [Idle EXCEPT !.at = at, !.rec = r, !.dest = dest, !.keep = keep,
                         !.put = [i \in DOMAIN Records[r] |-> Nowhere]]
      BY <1>a, <1>1, BeginTyped
    <2>2. run'.put = [i \in DOMAIN Records[r] |-> Nowhere]
      BY <2>1, IdleFacts DEF Runs
    <2>3. instance' = Fresh
      BY <1>a, <1>1 DEF Begin, Typed
    <2> QED BY <2>2, <2>3, IdleFacts DEF Linked, Restored
  <1>2. CASE Plan
    <2>1. PICK told, trees : /\ run' = [run EXCEPT !.at = "walk", !.told = told]
                             /\ instance' = [instance EXCEPT !.trees = trees]
                             /\ UNCHANGED <<setting, names, nodes, began>>
      BY <1>2 DEF Plan, fs
    <2>2. /\ run'.put = run.put /\ run'.rec = run.rec /\ run'.dest = run.dest /\ run'.tried = run.tried
          /\ instance'.placed = instance.placed
      BY <1>a, <2>1 DEF Runs, Typed, Instances
    <2> QED BY <1>a, <2>1, <2>2, LinkedKept DEF SameRun, PutsUntouched
  <1>3. CASE PassOver
    <2>1. /\ Steady /\ Walking /\ UNCHANGED <<names, nodes, instance>>
          /\ run' = [run EXCEPT !.next = @ + 1]
      BY <1>a, <1>3, PassOverTyped
    <2>2. SameRun /\ run'.put = run.put /\ run'.tried = run.tried
      BY <1>a, <2>1, WithinRun DEF Runs
    <2> QED BY <1>a, <2>1, <2>2, LinkedKept DEF PutsUntouched
  <1>4. CASE EnterDirectory
    <2>1. /\ Steady /\ Walking /\ instance'.placed = instance.placed
          /\ \/ run' = [run EXCEPT !.at = "raised"]
             \/ run' = [run EXCEPT !.next = @ + 1]
             \/ run' = [run EXCEPT !.next = @ + 1, !.dead = @ \cup {Entry.path},
                                   !.failed = @ \cup {run.next}]
      BY <1>a, <1>4, EnterTyped
    <2>2. SameRun /\ run'.put = run.put /\ run'.tried = run.tried
      BY <1>a, <2>1, WithinRun DEF Runs, Quiet
    <2>3. [kind |-> "dir", body |-> <<>>] \in Node
      BY DEF Node, Kinds, Bodies
    <2>4. \A p \in Paths : names[p] # 0 => names'[p] = names[p]
      BY <1>a, <1>4, <2>3, EnterTyped, Created
    <2> QED BY <1>a, <2>1, <2>2, <2>4, MoreUntouched, LinkedKept
  <1>5. CASE Link
    <2>1. /\ Steady /\ Walking /\ Linkable /\ Put(Out) /\ instance' = instance /\ First # Out
          /\ names' = [names EXCEPT ![Out] = names[First]]
      BY <1>a, <1>5, LinkTyped DEF Takes, Link
    <2>2. Out \in Paths
      BY <1>a, <2>1, HereFacts
    <2>3. SameRun
      BY <1>a, <2>1, <2>2, WithinRun
    <2>4. (\A q \in Paths : q # Out => names'[q] = names[q]) /\ names'[Out] = names[First]
      BY <1>a, <2>1, <2>2 DEF Typed
    <2>5. First = instance.placed[Inode(run.next)] /\ First # Nowhere
      BY <2>1 DEF Linkable, First, Inode, Entry
    <2>6. PutsUntouched
      BY <2>1, <2>4, OutUntouched
    <2> QED BY <2>1, <2>2, <2>3, <2>4, <2>5, <2>6, LinkedGrown
  <1>6. CASE LinkFails
    <2>1. /\ Steady /\ Walking /\ instance' = instance
          /\ names' = names \/ names' = [names EXCEPT ![Out] = 0]
          /\ run' = [run EXCEPT !.tried = @ \cup {run.next}]
      BY <1>a, <1>6, LinkFailsTyped DEF Takes
    <2>2. SameRun /\ run'.put = run.put /\ run.tried \subseteq run'.tried
      BY <1>a, <2>1, WithinRun DEF Runs
    <2>3. \A q \in Paths : q # Out => names'[q] = names[q]
      BY <1>a, <2>1 DEF Typed
    <2> QED BY <1>a, <2>1, <2>2, <2>3, OutUntouched, LinkedKept
  <1>7. CASE WriteFile
    <2> DEFINE n == Entry.inode
    <2>1. /\ Steady /\ Walking /\ Takes("file") /\ ~Linkable /\ Entry.blobs \in Bodies
          /\ instance'.placed = IF n # 0 /\ ~Arq5 /\ run'.put[run.next] # Nowhere
                                THEN [instance.placed EXCEPT ![n] = Target(Out)] ELSE instance.placed
      BY <1>a, <1>7, WriteTyped, HereFacts DEF Takes
    <2>2. CASE Quiet /\ UNCHANGED <<names, nodes>>
      <3>1. run'.put = run.put /\ run'.tried = run.tried /\ SameRun
        BY <1>a, <2>1, <2>2, QuietFields, WithinRun
      <3>2. run.put[run.next] = Nowhere
        BY <1>a, <2>1, OutIsFree, HereFacts
      <3>3. instance'.placed = instance.placed
        BY <2>1, <3>1, <3>2
      <3> QED BY <1>a, <2>2, <3>1, <3>3, LinkedKept DEF PutsUntouched
    <2>3. CASE Target(Out) # Nowhere /\ WriteBytes(Target(Out), Entry.blobs) /\ Put(Target(Out))
      <3>1. Target(Out) \in Paths
        BY <1>a, <2>1, <2>3, TargetFacts DEF Takes
      <3>2. SameRun
        BY <1>a, <2>1, <2>3, <3>1, WithinRun
      <3>3. PutsUntouched
        BY <1>a, <2>1, <2>3, WriteUntouched, MoreUntouched
      <3>4. run'.put[run.next] = Target(Out)
        BY <1>a, <2>1, <2>3, <3>1, PutTyped
      <3>5. n = Inode(run.next) /\ (Shared(run.next) <=> ~Arq5 /\ Entry.kind = "file" /\ n # 0)
        BY <1>a, <2>1, EntrySharing DEF Inode, Entry
      <3>6. CASE Shared(run.next)
        <4>1. instance'.placed = [instance.placed EXCEPT ![Inode(run.next)] = Target(Out)]
          BY <2>1, <2>3, <3>4, <3>5, <3>6
        <4>2. n \in Inodes
          BY <1>a, <2>1, <3>5, <3>6, SharedInode, HereFacts
        <4>3. First # Nowhere => names[First] # 0
          BY <4>2 DEF Linked, First, PutInv, PutsStay, Restored
        <4>4. First = Nowhere \/ run.next \in run.tried
          BY <2>1, <3>5, <3>6, <4>3 DEF Linkable
        <4> QED BY <2>1, <2>3, <3>1, <3>2, <3>3, <3>5, <3>6, <4>1, <4>4, LinkedGrown DEF First
      <3>7. CASE ~Shared(run.next)
        <4>1. n # 0 => Arq5 \/ Entry.kind # "file"
          BY <3>5, <3>7
        <4>2. ~Arq5 => Entry.kind = "file"
          BY <2>1 DEF Takes, Kind
        <4>3. instance'.placed = instance.placed
          BY <2>1, <4>1, <4>2
        <4> QED BY <2>1, <2>3, <3>1, <3>2, <3>3, <3>7, <4>3, LinkedGrown
      <3> QED BY <3>6, <3>7
    <2> QED BY <1>a, <1>7, <2>2, <2>3, WriteTyped
  <1>8. CASE WriteFails
    <2>1. /\ Steady /\ Walking /\ instance' = instance /\ Quiet
          /\ WriteBytes(Target(Out), <<>>) /\ <<>> \in Bodies
      BY <1>a, <1>8, WriteFailsTyped DEF Quiet, Takes, Bodies
    <2> QED BY <1>a, <2>1, WithinRun, QuietFields, WriteUntouched, MoreUntouched, LinkedKept
  <1>9. CASE MakeSymlink
    <2>1. /\ Steady /\ Walking /\ instance' = instance /\ Out \in Paths /\ Takes("symlink")
      BY <1>a, <1>9, SymlinkTyped, HereFacts DEF Takes
    <2>2. CASE Quiet /\ UNCHANGED <<names, nodes>>
      BY <1>a, <2>1, <2>2, WithinRun, QuietFields, LinkedKept DEF PutsUntouched
    <2>3. CASE Create(Out, [kind |-> "symlink", body |-> <<run.dest>> \o Entry.blobs]) /\ Put(Out)
      <3>1. ~Shared(run.next)
        BY <1>a, <2>1, EntrySharing DEF Takes, Kind
      <3>2. \A q \in Paths : q # Out => names'[q] = names[q]
        BY <1>a, <2>1, <2>3 DEF Create, Typed
      <3> QED BY <1>a, <2>1, <2>3, <3>1, <3>2, WithinRun, OutUntouched, LinkedGrown
    <2> QED BY <1>a, <1>9, <2>2, <2>3, SymlinkTyped
  <1>10. CASE Finish
    <2>1. Steady /\ UNCHANGED <<names, nodes, instance>> /\ run' = [run EXCEPT !.at = "ended"]
      BY <1>a, <1>10, FinishTyped
    <2>2. SameRun /\ run'.put = run.put /\ run'.tried = run.tried
      BY <1>a, <2>1, WithinRun DEF Runs
    <2> QED BY <1>a, <2>1, <2>2, LinkedKept DEF PutsUntouched
  <1>11. CASE Leave
    BY <1>a, <1>11, LeaveTyped, IdleFacts DEF Linked
  <1>12. ASSUME NEW b \in Blobs, Lose(b) PROVE Linked'
    BY <1>a, <1>12, LoseTyped, LinkedKept DEF SameRun, PutsUntouched
  <1>13. CASE UNCHANGED vars
    BY <1>a, <1>13, StillTyped, LinkedKept DEF SameRun, PutsUntouched, vars, fs
  <1>14. CASE PlanRaises
    <2>1. /\ SameRun /\ instance' = instance /\ names' = names
          /\ run'.put = run.put /\ run'.tried = run.tried
      BY <1>a, <1>14, PlanRaisesTyped DEF SameRun, Runs
    <2> QED BY <1>a, <2>1, LinkedKept DEF PutsUntouched
  <1>15. CASE SymlinkFails
    <2>1. /\ Steady /\ Walking /\ instance' = instance /\ Quiet
          /\ names' = names \/ names' = [names EXCEPT ![Out] = 0]
      BY <1>a, <1>15, SymlinkFailsTyped DEF Takes
    <2>2. \A q \in Paths : q # Out => names'[q] = names[q]
      BY <1>a, <2>1 DEF Typed
    <2> QED BY <1>a, <2>1, <2>2, WithinRun, QuietFields, OutUntouched, LinkedKept
  <1> QED
    BY <1>1, <1>2, <1>3, <1>4, <1>5, <1>6, <1>7, <1>8, <1>9, <1>10, <1>11, <1>12, <1>13,
       <1>14, <1>15, RestoreAssumption
    DEF Next, FromBrowser, FromCommandLine, FromArq5, Asked
----------------------------------------------------------------------------
(* What is where. *)

LEMMA PutsAre ==
  ASSUME PutInv
  PROVE  /\ Puts \subseteq Paths /\ \A x \in Puts : names[x] \in 1..Len(nodes)
         /\ \A i \in DOMAIN run.put : Restored(i) => run.put[i] \in Puts
         /\ nodes \in Seq(Node) /\ Len(nodes) \in Nat
PROOF
  <1>1. Typed /\ nodes \in Seq(Node) /\ Len(nodes) \in Nat
    BY DEF PutInv, Typed
  <1>2. \A p \in Paths : names[p] \in Nat /\ names[p] <= Len(nodes)
    BY <1>1 DEF Typed
  <1>3. Puts \subseteq Paths /\ \A x \in Puts : names[x] # 0
    BY <1>1, PutNumbers DEF Puts, PutInv, PutsStay
  <1>4. \A x \in Puts : names[x] \in 1..Len(nodes)
    BY <1>1, <1>2, <1>3
  <1> QED BY <1>1, <1>3, <1>4 DEF Puts, Restored

\* What entries lead to stays as it is.
PutsSame ==
  /\ PutsUntouched
  /\ \A x \in Puts : nodes'[names[x]] = nodes[names[x]]

LEMMA ContentKept ==
  ASSUME PutInv, Content, SameRun, PutsSame, run'.put = run.put
  PROVE  Content'
PROOF
  <1>1. \A i \in DOMAIN run.put : Restored(i) =>
          names'[run.put[i]] = names[run.put[i]] /\ nodes'[names[run.put[i]]] = nodes[names[run.put[i]]]
    BY PutsAre DEF PutsSame, PutsUntouched
  <1>2. \A e, node : MadeOf(e, node)' <=> MadeOf(e, node')
    BY DEF MadeOf, Kind, Arq5, SameRun
  <1>3. \A i \in DOMAIN run.put : Restored(i) => MadeOf(Records[run.rec][i], nodes'[names'[run.put[i]]])
    BY <1>1 DEF Content
  <1> QED BY <1>2, <1>3 DEF Content, Restored, SameRun

LEMMA ContentGrown ==
  ASSUME PutInv, SiblingsApart, Content, SameRun, PutsSame, Walking, NEW p \in Paths, Put(p),
         MadeOf(Entry, nodes'[names'[p]])
  PROVE  Content'
PROOF
  <1>1. Typed /\ run.next \in DOMAIN run.put /\ Entry = Records[run.rec][run.next]
    BY HereFacts DEF PutInv
  <1>2. /\ run'.put[run.next] = p /\ DOMAIN run'.put = DOMAIN run.put
        /\ \A i \in DOMAIN run.put : i # run.next => run'.put[i] = run.put[i]
    BY <1>1, PutTyped
  <1>3. \A i \in DOMAIN run.put : Restored(i) => MadeOf(Records[run.rec][i], nodes[names[run.put[i]]])
    BY DEF Content
  <1>4. \A i \in DOMAIN run.put : Restored(i) =>
          names'[run.put[i]] = names[run.put[i]] /\ nodes'[names[run.put[i]]] = nodes[names[run.put[i]]]
    BY PutsAre DEF PutsSame, PutsUntouched
  <1>5. ASSUME NEW i \in DOMAIN run'.put, run'.put[i] # Nowhere
        PROVE  MadeOf(Records[run.rec][i], nodes'[names'[run'.put[i]]])
    <2>1. CASE i = run.next
      BY <1>1, <1>2, <2>1
    <2>2. CASE i # run.next
      <3>1. Restored(i) /\ run'.put[i] = run.put[i]
        BY <1>2, <1>5, <2>2 DEF Restored
      <3> QED BY <1>2, <1>3, <1>4, <3>1
    <2> QED BY <2>1, <2>2
  <1>6. \A e, node : MadeOf(e, node)' <=> MadeOf(e, node')
    BY DEF MadeOf, Kind, Arq5, SameRun
  <1> QED BY <1>5, <1>6 DEF Content, Restored, SameRun

LEMMA PutsGrow ==
  ASSUME PutInv, SiblingsApart, Walking, NEW p \in Paths, Put(p)
  PROVE  Puts' = Puts \cup {p}
PROOF
  <1>1. Typed /\ run.next \in DOMAIN run.put /\ p # Nowhere
    BY HereFacts, PathsTyped DEF PutInv
  <1>2. /\ run'.put[run.next] = p /\ DOMAIN run'.put = DOMAIN run.put
        /\ \A i \in DOMAIN run.put : i # run.next => run'.put[i] = run.put[i]
    BY <1>1, PutTyped
  <1>3. \A i \in DOMAIN run.put : run.put[i] # Nowhere => i # run.next
    BY OutIsFree
  <1>4. Puts' = {run'.put[i] : i \in DOMAIN run'.put} \ {Nowhere}
    BY DEF Puts
  <1>5. \A x \in Puts' : x \in Puts \cup {p}
    BY <1>2, <1>4 DEF Puts
  <1>6. \A x \in Puts : x \in Puts'
    BY <1>2, <1>3, <1>4 DEF Puts
  <1>7. p \in Puts'
    BY <1>1, <1>2, <1>4
  <1> QED BY <1>5, <1>6, <1>7

LEMMA AloneStill ==
  ASSUME PutInv, Alone, SameRun, run'.put = run.put, names' = names,
         \A n \in 1..Len(nodes) : nodes'[n].kind = nodes[n].kind
  PROVE  Alone'
PROOF
  <1>1. Puts' = Puts
    BY DEF Puts
  <1>2. \A q \in Paths : names[q] # 0 => names[q] \in 1..Len(nodes)
    BY DEF PutInv, Typed
  <1>3. \A q \in Paths : names[q] # 0 => (IsNode(q, "symlink")' <=> IsNode(q, "symlink"))
    BY <1>2 DEF IsNode
  <1> QED BY <1>1, <1>3 DEF Alone, SameRun

\* One path changes, that nothing was put under.
LEMMA AloneStep ==
  ASSUME PutInv, Alone, SameRun, NEW c \in Paths \ Puts,
         \A q \in Paths : q # c => names'[q] = names[q],
         \A n \in 1..Len(nodes) : nodes'[n].kind = nodes[n].kind,
         \/ /\ Puts' = Puts
            /\ \/ names'[c] \in {0, names[c]}
               \/ names'[c] = Len(nodes) + 1 /\ nodes'[Len(nodes) + 1].kind # "symlink"
         \/ /\ Puts' = Puts \cup {c}
            /\ \/ names'[c] = Len(nodes) + 1
               \/ setting.policy = "overwrite" /\ names'[c] = names[c] /\ names[c] # 0
               \/ names'[c] \in {names[x] : x \in Puts}
  PROVE  Alone'
PROOF
  <1>1. /\ \A q \in Paths : names[q] \in Nat /\ names[q] <= Len(nodes)
        /\ Len(nodes) \in Nat /\ Puts \subseteq Paths
    BY PutsAre DEF PutInv, Typed
  <1>2. \A q \in Paths \ Puts : names[q] # 0 =>
          /\ \A x \in Puts : names[q] # names[x]
          /\ setting.policy = "overwrite" =>
               ~IsNode(q, "symlink") /\ \A p \in Paths : names[p] = names[q] => p = q
    BY DEF Alone
  <1>3. ASSUME NEW q \in Paths \ Puts', names'[q] # 0, NEW x \in Puts'
        PROVE  names'[q] # names'[x]
    <2>1. CASE q # c /\ x # c
      BY <1>1, <1>2, <1>3, <2>1
    <2>2. CASE q = c
      <3>1. Puts' = Puts /\ x \in Puts /\ x # c
        BY <1>3, <2>2
      <3> QED BY <1>1, <1>2, <1>3, <2>2, <3>1
    <2>3. CASE q # c /\ x = c
      <3>1. Puts' = Puts \cup {c} /\ q \in Paths \ Puts /\ names'[q] = names[q]
        BY <1>3, <2>3
      <3> QED BY <1>1, <1>2, <1>3, <2>3, <3>1
    <2> QED BY <2>1, <2>2, <2>3
  <1>4. ASSUME NEW q \in Paths \ Puts', names'[q] # 0, setting.policy = "overwrite"
        PROVE  ~IsNode(q, "symlink")'
    <2>1. CASE names'[q] = names[q]
      <3>1. names[q] \in 1..Len(nodes) /\ q \in Paths \ Puts
        BY <1>1, <1>4, <2>1
      <3>2. ~IsNode(q, "symlink")
        BY <1>2, <1>4, <2>1, <3>1
      <3> QED BY <1>4, <2>1, <3>1, <3>2 DEF IsNode
    <2>2. CASE names'[q] # names[q]
      BY <1>4, <2>2 DEF IsNode
    <2> QED BY <2>1, <2>2
  <1>5. ASSUME NEW q \in Paths \ Puts', names'[q] # 0, setting.policy = "overwrite",
               NEW p \in Paths, names'[p] = names'[q]
        PROVE  p = q
    <2>1. CASE q # c /\ p # c
      BY <1>2, <1>5, <2>1
    <2>2. CASE q # c /\ p = c
      <3>1. q \in Paths \ Puts /\ names'[q] = names[q]
        BY <1>5, <2>2
      <3> QED BY <1>1, <1>2, <1>5, <2>2, <3>1
    <2>3. CASE q = c /\ p # c
      <3>1. Puts' = Puts /\ names'[p] = names[p]
        BY <1>5, <2>3
      <3> QED BY <1>1, <1>2, <1>5, <2>3, <3>1
    <2> QED BY <2>1, <2>2, <2>3
  <1>6. setting' = setting
    BY DEF SameRun
  <1> QED BY <1>3, <1>4, <1>5, <1>6 DEF Alone

\* A file is written where nothing was put, and into nothing else.
LEMMA PlainWrite ==
  ASSUME PutInv, SiblingsApart, Alone, Takes("file"), Target(Out) # Nowhere,
         ~IsNode(Target(Out), "dir"), NEW body \in Bodies, WriteBytes(Target(Out), body)
  PROVE  LET p == Target(Out) IN
         /\ p \in Paths \ Puts
         /\ \A q \in Paths : q # p => names'[q] = names[q]
         /\ \A n \in 1..Len(nodes) : nodes'[n].kind = nodes[n].kind
         /\ \/ names'[p] = Len(nodes) + 1
            \/ setting.policy = "overwrite" /\ names'[p] = names[p] /\ names[p] # 0
         /\ nodes'[names'[p]] = [kind |-> "file", body |-> body]
         /\ PutsSame
PROOF
  <1> DEFINE p == Target(Out)
             node == [kind |-> "file", body |-> body]
  <1>1. Typed /\ Walking /\ nodes \in Seq(Node) /\ DOMAIN nodes = 1..Len(nodes) /\ Len(nodes) \in Nat
        /\ \A q \in Paths : names[q] \in Nat /\ names[q] <= Len(nodes)
    BY DEF PutInv, Typed, Takes
  <1>2. p \in Paths /\ (names[p] # 0 => p = Out /\ setting.policy = "overwrite")
    BY <1>1, TargetFacts DEF Takes
  <1>3. p \notin Puts
    <2>1. CASE names[p] = 0
      BY <2>1, <1>1, PutsAre
    <2>2. CASE names[p] # 0
      BY <1>1, <1>2, <2>2, OutIsFree DEF Puts
    <2> QED BY <2>1, <2>2
  <1>4. \A q \in Paths : names[q] # 0 => names'[q] = names[q]
    BY <1>1, WriteUntouched
  <1>5. PutsUntouched
    BY <1>4, MoreUntouched
  <1>6. node \in Node
    BY DEF Node, Kinds
  <1>7. CASE names[p] = 0
    <2>1. Create(p, node)
      BY <1>1, <1>2, <1>7, Written
    <2> HIDE DEF p, node
    <2>2. /\ \A q \in Paths : q # p => names'[q] = names[q]
          /\ names'[p] = Len(nodes) + 1 /\ nodes'[Len(nodes) + 1] = node
          /\ \A n \in 1..Len(nodes) : nodes'[n] = nodes[n]
      BY <1>1, <1>2, <1>6, <2>1, Created
    <2>3. \A x \in Puts : nodes'[names[x]] = nodes[names[x]]
      BY <2>2, PutsAre
    <2> QED BY <1>2, <1>3, <1>5, <2>2, <2>3 DEF PutsSame, p, node
  <1>8. CASE names[p] # 0
    <2>1. setting.policy = "overwrite" /\ p \in Paths \ Puts
      BY <1>2, <1>3, <1>8
    <2>2. ~IsNode(p, "symlink") /\ \A x \in Puts : names[p] # names[x]
      BY <1>8, <2>1 DEF Alone
    <2>3. Follow(p) = p
      BY <2>2 DEF Follow
    <2>4. nodes' = [nodes EXCEPT ![names[p]].body = body] /\ names' = names
      BY <1>8, <2>3 DEF WriteBytes
    <2>5. names[p] \in DOMAIN nodes
      BY <1>1, <1>8, <2>1
    <2> HIDE DEF p
    <2>6. /\ nodes' \in Seq(Node) /\ DOMAIN nodes' = DOMAIN nodes
          /\ \A n \in DOMAIN nodes :
               /\ nodes'[n].kind = nodes[n].kind
               /\ n # names[p] => nodes'[n] = nodes[n]
               /\ n = names[p] => nodes'[n].body = body
      BY <1>1, <2>4, Overwritten
    <2>7. nodes'[names[p]] = node
      <3>1. nodes'[names[p]] \in Node /\ nodes[names[p]] \in Node
        BY <1>1, <2>5, <2>6
      <3>2. nodes[names[p]].kind = "file"
        BY <1>8, <2>2, <3>1 DEF IsNode, Node, Kinds, p
      <3>3. nodes'[names[p]].kind = "file" /\ nodes'[names[p]].body = body
        BY <2>5, <2>6, <3>2
      <3> QED BY <3>1, <3>3 DEF Node
    <2>8. \A x \in Puts : nodes'[names[x]] = nodes[names[x]]
      BY <1>1, <2>2, <2>6, PutsAre
    <2> QED BY <1>1, <1>5, <1>8, <2>1, <2>4, <2>6, <2>7, <2>8 DEF PutsSame, p, node
  <1> QED BY <1>7, <1>8

LEMMA NextHeld == ASSUME SiblingsApart PROVE PutInv /\ Linked /\ Held /\ [Next]_vars => Held'
PROOF
  <1> SUFFICES ASSUME PutInv, Linked, Held, [Next]_vars, Plain' PROVE Content' /\ Alone'
    BY DEF Held
  <1>a. Typed /\ run \in Runs /\ nodes \in Seq(Node) /\ Len(nodes) \in Nat
    BY DEF PutInv, Typed
  <1>b. SameRun => Plain /\ Content /\ Alone
    BY DEF Held, Plain, SameRun
  <1>c. ASSUME SameRun, run'.put = run.put, UNCHANGED <<names, nodes>> PROVE Content' /\ Alone'
    BY <1>b, <1>c, ContentKept, AloneStill DEF PutsSame, PutsUntouched
  <1>d. ASSUME \A i \in DOMAIN run'.put : run'.put[i] = Nowhere, UNCHANGED setting,
               began' = [names |-> names, nodes |-> nodes], UNCHANGED <<names, nodes>>
        PROVE  Content' /\ Alone'
    <2>1. Content' /\ Puts' = {}
      BY <1>d DEF Content, Restored, Puts
    <2>2. setting'.policy = "overwrite" =>
            \A q \in Paths : names'[q] # 0 =>
              /\ nodes'[names'[q]].kind # "symlink"
              /\ \A p \in Paths : names'[p] = names'[q] => p = q
      BY <1>d DEF Plain
    <2> QED BY <2>1, <2>2 DEF Alone, IsNode
  <1>1. ASSUME NEW r \in Recs, NEW dest \in Dests, NEW keep \in Asked, Begin(r, dest, keep)
        PROVE  Content' /\ Alone'
    <2>1. PICK at \in {"raised", "walk", "plan"} :
            /\ run' = [Idle EXCEPT !.at = at, !.rec = r, !.dest = dest, !.keep = keep,
                         !.put = [i \in DOMAIN Records[r] |-> Nowhere]]
      BY <1>a, <1>1, BeginTyped
    <2>2. run'.put = [i \in DOMAIN Records[r] |-> Nowhere]
      BY <2>1, IdleFacts DEF Runs
    <2> QED BY <1>a, <1>1, <1>d, <2>2, BeginTyped
  <1>2. CASE Plan
    <2>1. PICK told : run' = [run EXCEPT !.at = "walk", !.told = told]
      BY <1>2 DEF Plan
    <2>2. run'.put = run.put /\ run'.rec = run.rec /\ run'.dest = run.dest
      BY <1>a, <2>1 DEF Runs
    <2> QED BY <1>2, <1>c, <2>2 DEF SameRun, Plan, fs
  <1>3. CASE PassOver
    BY <1>a, <1>3, <1>c, PassOverTyped, WithinRun DEF Runs
  <1>4. CASE EnterDirectory
    <2>1. SameRun /\ Walking /\ run'.put = run.put
      BY <1>a, <1>4, EnterTyped, QuietPuts DEF Quiet
    <2>2. CASE names' = names /\ nodes' = nodes
      BY <1>c, <2>1, <2>2
    <2>3. CASE names[Out] = 0 /\ Create(Out, [kind |-> "dir", body |-> <<>>])
      <3> DEFINE node == [kind |-> "dir", body |-> <<>>]
      <3>1. node \in Node /\ node.kind # "symlink"
        BY DEF Node, Kinds, Bodies
      <3>2. Out \in Paths \ Puts /\ Puts' = Puts
        BY <1>a, <2>1, <2>3, HereFacts, PutsAre DEF Puts
      <3> HIDE DEF node
      <3>3. /\ \A q \in Paths : q # Out => names'[q] = names[q]
            /\ names'[Out] = Len(nodes) + 1 /\ nodes'[Len(nodes) + 1] = node
            /\ \A n \in 1..Len(nodes) : nodes'[n] = nodes[n]
        BY <1>a, <2>3, <3>1, <3>2, Created DEF node
      <3>4. PutsSame
        BY <2>3, <3>3, PutsAre, MoreUntouched DEF PutsSame
      <3> QED BY <1>b, <2>1, <3>1, <3>2, <3>3, <3>4, ContentKept, AloneStep
    <2> QED BY <1>a, <1>4, <2>2, <2>3, EnterTyped
  <1>5. CASE Link
    <2>1. /\ Steady /\ Walking /\ Takes("file") /\ Linkable /\ Put(Out) /\ nodes' = nodes
          /\ names' = [names EXCEPT ![Out] = names[First]]
      BY <1>a, <1>5, LinkTyped DEF Takes
    <2>2. Out \in Paths /\ Entry \in Entries(run.rec) /\ Entry.inode # 0 /\ run.rec \in Recs
          /\ Entry.inode \in Inodes /\ Entry = Records[run.rec][run.next] /\ First # Nowhere
      BY <1>a, <2>1, HereFacts DEF Linkable, EntryType
    <2>3. SameRun
      BY <1>a, <2>1, <2>2, WithinRun
    <2>4. (\A q \in Paths : q # Out => names'[q] = names[q]) /\ names'[Out] = names[First]
      BY <1>a, <2>1, <2>2 DEF Typed
    <2>5. PICK i \in DOMAIN run.put : /\ Restored(i) /\ run.put[i] = First
                                      /\ Shared(i) /\ Inode(i) = Entry.inode
      BY <2>2 DEF Linked, First
    <2> DEFINE e == Records[run.rec][i]
    <2>6. e \in Entries(run.rec) /\ e.kind = "file" /\ e.inode = Entry.inode /\ ~Arq5
      BY <1>a, <2>5, PutNumbers, EntryFacts DEF Shared, Inode, Restored
    <2>7. Entry.kind = "file" /\ Entry.blobs = e.blobs
      BY <2>2, <2>6, RecordsAssumption
    <2>8. nodes[names[First]] = [kind |-> "file", body |-> e.blobs]
      BY <1>b, <2>3, <2>5, <2>6 DEF Content, MadeOf, Kind
    <2>9. MadeOf(Entry, nodes'[names'[Out]])
      BY <2>1, <2>4, <2>7, <2>8 DEF MadeOf, Kind
    <2>10. PutsSame
      BY <2>1, <2>4, OutUntouched DEF PutsSame
    <2>11. Content'
      BY <1>b, <2>1, <2>2, <2>3, <2>9, <2>10, ContentGrown
    <2>12. First \in Puts /\ Out \notin Puts /\ Puts' = Puts \cup {Out}
      BY <2>1, <2>2, <2>5, OutIsFree, PutsAre, PutsGrow DEF Puts
    <2>13. Alone'
      BY <1>b, <2>1, <2>2, <2>3, <2>4, <2>12, AloneStep
    <2> QED BY <2>11, <2>13
  <1>6. CASE LinkFails
    <2>1. /\ Steady /\ Walking /\ nodes' = nodes
          /\ names' = names \/ names' = [names EXCEPT ![Out] = 0]
          /\ run' = [run EXCEPT !.tried = @ \cup {run.next}]
      BY <1>a, <1>6, LinkFailsTyped DEF Takes
    <2>2. SameRun /\ run'.put = run.put /\ Puts' = Puts
      BY <1>a, <2>1, WithinRun DEF Runs, Puts
    <2>3. Out \in Paths /\ Out \notin Puts
      BY <1>a, <2>1, HereFacts, OutIsFree DEF Puts
    <2>4. (\A q \in Paths : q # Out => names'[q] = names[q]) /\ names'[Out] \in {0, names[Out]}
      BY <1>a, <2>1, <2>3 DEF Typed
    <2>5. PutsSame
      BY <2>1, <2>4, OutUntouched DEF PutsSame
    <2> QED BY <1>b, <2>1, <2>2, <2>3, <2>4, <2>5, ContentKept, AloneStep
  <1>7. CASE WriteFile
    <2>1. Steady /\ Walking /\ Takes("file") /\ Entry.blobs \in Bodies
      BY <1>a, <1>7, WriteTyped, HereFacts DEF Takes
    <2>2. CASE Quiet /\ UNCHANGED <<names, nodes>>
      BY <1>a, <1>c, <2>1, <2>2, QuietFields, WithinRun
    <2>3. CASE /\ Target(Out) # Nowhere /\ ~IsNode(Target(Out), "dir")
               /\ WriteBytes(Target(Out), Entry.blobs) /\ Put(Target(Out))
      <3> DEFINE p == Target(Out)
      <3>1. p \in Paths
        BY <1>a, <2>1, <2>3, TargetFacts DEF Takes
      <3>2. SameRun
        BY <1>a, <2>1, <2>3, <3>1, WithinRun
      <3>3. /\ p \in Paths \ Puts
            /\ \A q \in Paths : q # p => names'[q] = names[q]
            /\ \A n \in 1..Len(nodes) : nodes'[n].kind = nodes[n].kind
            /\ \/ names'[p] = Len(nodes) + 1
               \/ setting.policy = "overwrite" /\ names'[p] = names[p] /\ names[p] # 0
            /\ nodes'[names'[p]] = [kind |-> "file", body |-> Entry.blobs]
            /\ PutsSame
        BY <1>b, <2>1, <2>3, <3>2, PlainWrite
      <3>4. MadeOf(Entry, nodes'[names'[p]])
        BY <2>1, <3>3 DEF MadeOf, Takes
      <3> HIDE DEF p
      <3>5. Put(p) /\ Puts' = Puts \cup {p}
        BY <2>1, <2>3, <3>1, PutsGrow DEF p
      <3>6. Content'
        BY <1>b, <2>1, <3>1, <3>2, <3>3, <3>4, <3>5, ContentGrown
      <3>7. Alone'
        BY <1>b, <3>2, <3>3, <3>5, AloneStep
      <3> QED BY <3>6, <3>7
    <2> QED BY <1>a, <1>7, <2>2, <2>3, WriteTyped
  <1>8. CASE WriteFails
    <2>1. /\ Steady /\ Walking /\ Takes("file") /\ Target(Out) # Nowhere /\ ~IsNode(Target(Out), "dir")
          /\ WriteBytes(Target(Out), <<>>) /\ Quiet /\ <<>> \in Bodies
      BY <1>a, <1>8, WriteFailsTyped DEF Quiet, Bodies, Takes
    <2>2. SameRun /\ run'.put = run.put /\ Puts' = Puts
      BY <1>a, <2>1, WithinRun, QuietFields DEF Puts
    <2> DEFINE p == Target(Out)
    <2>3. /\ p \in Paths \ Puts
          /\ \A q \in Paths : q # p => names'[q] = names[q]
          /\ \A n \in 1..Len(nodes) : nodes'[n].kind = nodes[n].kind
          /\ names'[p] = Len(nodes) + 1 \/ names'[p] = names[p]
          /\ nodes'[names'[p]] = [kind |-> "file", body |-> <<>>]
          /\ PutsSame
      BY <1>b, <2>1, <2>2, PlainWrite
    <2> HIDE DEF p
    <2>4. nodes'[names'[p]].kind # "symlink"
      BY <2>3
    <2> QED BY <1>b, <2>2, <2>3, <2>4, ContentKept, AloneStep
  <1>9. CASE MakeSymlink
    <2> DEFINE link == [kind |-> "symlink", body |-> <<run.dest>> \o Entry.blobs]
    <2>1. Steady /\ Walking /\ Takes("symlink") /\ Out \in Paths /\ link \in Node
      BY <1>a, <1>9, SymlinkTyped, HereFacts DEF Takes, Node, Kinds
    <2>2. CASE Quiet /\ UNCHANGED <<names, nodes>>
      BY <1>a, <1>c, <2>1, <2>2, WithinRun, QuietFields
    <2>3. CASE Create(Out, link) /\ Put(Out)
      <3>1. Kind(Entry) = "symlink"
        BY <2>1 DEF Takes
      <3> HIDE DEF link
      <3>2. /\ \A q \in Paths : q # Out => names'[q] = names[q]
            /\ names'[Out] = Len(nodes) + 1 /\ nodes'[Len(nodes) + 1] = link
            /\ \A n \in 1..Len(nodes) : nodes'[n] = nodes[n]
        BY <1>a, <2>1, <2>3, Created
      <3>3. PutsSame
        BY <2>1, <3>2, PutsAre, OutUntouched DEF PutsSame
      <3>4. MadeOf(Entry, nodes'[names'[Out]])
        BY <3>1, <3>2 DEF MadeOf, link
      <3>5. SameRun /\ Out \notin Puts /\ Puts' = Puts \cup {Out}
        BY <1>a, <2>1, <2>3, WithinRun, OutIsFree, PutsGrow DEF Puts
      <3>6. Content'
        BY <1>b, <2>1, <2>3, <3>3, <3>4, <3>5, ContentGrown
      <3>7. Alone'
        BY <1>b, <2>1, <3>2, <3>5, AloneStep
      <3> QED BY <3>6, <3>7
    <2> QED BY <1>a, <1>9, <2>2, <2>3, SymlinkTyped
  <1>10. CASE Finish
    BY <1>a, <1>c, <1>10, FinishTyped, WithinRun DEF Runs
  <1>11. CASE Leave
    BY <1>a, <1>d, <1>11, LeaveTyped, IdleFacts
  <1>12. ASSUME NEW b \in Blobs, Lose(b) PROVE Content' /\ Alone'
    BY <1>a, <1>c, <1>12, LoseTyped DEF SameRun
  <1>13. CASE UNCHANGED vars
    BY <1>c, <1>13 DEF SameRun, vars, fs
  <1>14. CASE PlanRaises
    <2>1. SameRun /\ run'.put = run.put /\ UNCHANGED <<names, nodes>>
      BY <1>a, <1>14, PlanRaisesTyped DEF SameRun, Runs
    <2> QED BY <1>c, <2>1
  <1>15. CASE SymlinkFails
    <2>1. /\ Steady /\ Walking /\ nodes' = nodes /\ Quiet
          /\ names' = names \/ names' = [names EXCEPT ![Out] = 0]
      BY <1>a, <1>15, SymlinkFailsTyped DEF Takes
    <2>2. SameRun /\ run'.put = run.put /\ Puts' = Puts
      BY <1>a, <2>1, WithinRun, QuietFields DEF Puts
    <2>3. Out \in Paths /\ Out \notin Puts
      BY <1>a, <2>1, HereFacts, OutIsFree DEF Puts
    <2>4. (\A q \in Paths : q # Out => names'[q] = names[q]) /\ names'[Out] \in {0, names[Out]}
      BY <1>a, <2>1, <2>3 DEF Typed
    <2>5. PutsSame
      BY <2>1, <2>4, OutUntouched DEF PutsSame
    <2> QED BY <1>b, <2>1, <2>2, <2>3, <2>4, <2>5, ContentKept, AloneStep
  <1> QED
    BY <1>1, <1>2, <1>3, <1>4, <1>5, <1>6, <1>7, <1>8, <1>9, <1>10, <1>11, <1>12, <1>13,
       <1>14, <1>15, RestoreAssumption
    DEF Next, FromBrowser, FromCommandLine, FromArq5, Asked
----------------------------------------------------------------------------
(* What a restore says. *)

LEMMA NextWalked == Typed /\ Walked /\ [Next]_vars => Walked'
PROOF
  <1> SUFFICES ASSUME Typed, Walked, [Next]_vars PROVE Walked'
    OBVIOUS
  <1>a. run \in Runs
    BY DEF Typed
  <1>1. ASSUME NEW r \in Recs, NEW dest \in Dests, NEW keep \in Asked, Begin(r, dest, keep)
        PROVE  Walked'
    <2>1. PICK at \in {"raised", "walk", "plan"} :
            /\ run' = [Idle EXCEPT !.at = at, !.rec = r, !.dest = dest, !.keep = keep,
                         !.put = [i \in DOMAIN Records[r] |-> Nowhere]]
      BY <1>1, BeginTyped
    <2>2. run'.at = at
      BY <2>1, IdleFacts DEF Runs
    <2> QED BY <2>2 DEF Walked
  <1>2. CASE Plan
    BY <1>a, <1>2 DEF Plan, Runs, Walked
  <1>3. CASE PassOver
    BY <1>a, <1>3, PassOverTyped DEF Runs, Walked, Steady
  <1>4. CASE EnterDirectory
    <2>1. /\ Steady
          /\ \/ run' = [run EXCEPT !.at = "raised"]
             \/ run' = [run EXCEPT !.next = @ + 1]
             \/ run' = [run EXCEPT !.next = @ + 1, !.dead = @ \cup {Entry.path},
                                   !.failed = @ \cup {run.next}]
      BY <1>4, EnterTyped
    <2> QED BY <1>a, <2>1 DEF Runs, Walked, Steady
  <1>5. CASE Link
    <2>1. Walking /\ Out \in Paths /\ Put(Out)
      BY <1>5, LinkTyped, HereFacts DEF Takes
    <2> QED BY <2>1, PutTyped DEF Walked
  <1>6. CASE LinkFails
    BY <1>a, <1>6, LinkFailsTyped DEF Runs, Walked, Steady
  <1>7. CASE WriteFile
    <2>1. Walking /\ Takes("file")
      BY <1>7, WriteTyped DEF Takes
    <2>2. CASE Quiet
      BY <2>1, <2>2, QuietTyped DEF Walked
    <2>3. CASE Target(Out) # Nowhere /\ Put(Target(Out))
      BY <2>1, <2>3, TargetFacts, PutTyped DEF Walked, Takes
    <2> QED BY <1>7, <2>2, <2>3, WriteTyped
  <1>8. CASE WriteFails
    BY <1>a, <1>8, WriteFailsTyped DEF Runs, Walked
  <1>9. CASE MakeSymlink
    <2>1. Walking /\ Out \in Paths
      BY <1>9, SymlinkTyped, HereFacts DEF Takes
    <2> QED BY <1>9, <2>1, SymlinkTyped, QuietTyped, PutTyped DEF Walked
  <1>10. CASE Finish
    BY <1>a, <1>10, FinishTyped DEF Runs, Walked
  <1>11. CASE Leave
    BY <1>11, LeaveTyped, IdleFacts DEF Walked
  <1>12. ASSUME NEW b \in Blobs, Lose(b) PROVE Walked'
    BY <1>12, LoseTyped DEF Walked
  <1>13. CASE UNCHANGED vars
    BY <1>13 DEF vars, Walked
  <1>14. CASE PlanRaises
    BY <1>a, <1>14, PlanRaisesTyped DEF Runs, Walked
  <1>15. CASE SymlinkFails
    <2>1. Walking /\ Quiet
      BY <1>15, SymlinkFailsTyped DEF Takes
    <2> QED BY <2>1, QuietTyped DEF Walked
  <1> QED
    BY <1>1, <1>2, <1>3, <1>4, <1>5, <1>6, <1>7, <1>8, <1>9, <1>10, <1>11, <1>12, <1>13,
       <1>14, <1>15, RestoreAssumption
    DEF Next, FromBrowser, FromCommandLine, FromArq5, Asked

LEMMA InitSaid == Init => SaidInv
PROOF
  <1> SUFFICES ASSUME Init PROVE SaidInv
    OBVIOUS
  <1>1. /\ run = Idle /\ instance = Fresh /\ began = [names |-> names, nodes |-> nodes]
        /\ DOMAIN run.put = {} /\ \A n \in Inodes : instance.placed[n] = Nowhere
        /\ run.at = "idle"
    BY IdleFacts DEF Init
  <1>2. Linked /\ Content /\ Walked
    BY <1>1 DEF Linked, Content, Walked
  <1>3. Plain => Alone
    <2>1. Puts = {}
      BY <1>1 DEF Puts
    <2> QED BY <1>1, <2>1 DEF Plain, Alone, IsNode
  <1> QED BY <1>2, <1>3, InitAnswered DEF SaidInv, Held

LEMMA NextSaid == ASSUME SiblingsApart PROVE SaidInv /\ [Next]_vars => SaidInv'
BY NextAnswered, NextLinked, NextHeld, NextWalked DEF SaidInv, Answered, PutInv

LEMMA SaidSuffices == SaidInv /\ Plain => SaidIsRestored
PROOF
  <1> SUFFICES ASSUME SaidInv, Plain, run.at = "ended" PROVE SaidIsRestored
    BY DEF SaidIsRestored
  <1>1. Answered /\ PutInv /\ Typed /\ Verdicts /\ Promised /\ Content /\ Linked /\ Walked
    BY DEF SaidInv, Held, Answered, PutInv
  <1> DEFINE asked == {i \in DOMAIN run.put : Records[run.rec][i] \in Listing(run.rec, run.keep, run.dead)}
  <1>2. /\ run.rec \in Recs /\ DOMAIN run.put = DOMAIN Records[run.rec] /\ run.next \in Nat
        /\ DOMAIN Records[run.rec] = 1..Len(Records[run.rec]) /\ Len(Records[run.rec]) \in Nat
    BY <1>1, PutNumbers, EntryFacts
  <1>3. \A i \in DOMAIN run.put : i < run.next
    BY <1>1, <1>2 DEF Walked
  <1>4. \A i \in asked : Restored(i) \/ i \in run.skipped \cup run.failed
    BY <1>1, <1>3 DEF Verdicts, Entered
  <1>5. \A i \in asked : Restored(i) => i \notin run.skipped \cup run.failed
    BY <1>1 DEF Verdicts
  <1>6. ASSUME NEW i \in asked, Restored(i) PROVE Right(i)
    <2> DEFINE e == Records[run.rec][i]
               p == run.put[i]
    <2>a. MadeOf(e, nodes[names[p]])
      BY <1>1, <1>6 DEF Content
    <2>b. names[p] # 0
      BY <1>1, <1>6 DEF PutInv, PutsStay, Restored
    <2>1. MadeOf(e, nodes[names[p]]) /\ names[p] # 0
      BY <2>a, <2>b
    <2>2. CASE Kind(e) = "symlink"
      <3>1. nodes[names[p]] = [kind |-> "symlink", body |-> <<run.dest>> \o e.blobs]
        BY <2>1, <2>2 DEF MadeOf
      <3>2. nodes[names[p]].kind = "symlink" /\ nodes[names[p]].body = <<run.dest>> \o e.blobs
        BY <3>1
      <3> QED BY <2>1, <2>2, <3>2 DEF Right, IsNode
    <2>3. CASE Kind(e) # "symlink"
      <3>1. nodes[names[p]] = [kind |-> "file", body |-> e.blobs]
        BY <2>1, <2>3 DEF MadeOf
      <3>2. Follow(p) = p
        BY <3>1 DEF Follow, IsNode
      <3> QED BY <2>1, <2>3, <3>1, <3>2 DEF Right
    <2> QED BY <2>2, <2>3
  <1>7. run.told \subseteq {Records[run.rec][i] : i \in asked}
    <2>1. Entries(run.rec) = {Records[run.rec][i] : i \in DOMAIN run.put}
      BY <1>2 DEF Entries, ToSet
    <2>2. run.told \subseteq Listing(run.rec, run.keep, run.dead)
      BY <1>1 DEF Promised
    <2>3. Listing(run.rec, run.keep, run.dead) \subseteq Entries(run.rec)
      BY DEF Listing
    <2> QED BY <2>1, <2>2, <2>3
  <1>8. ASSUME NEW i \in asked, NEW j \in asked, Restored(i), Restored(j), Shared(i), Inode(i) = Inode(j)
        PROVE  SameFile(i, j) \/ \E k \in run.tried : Inode(k) = Inode(i)
    <2> DEFINE e == Records[run.rec][i]
               f == Records[run.rec][j]
    <2>1. e \in Entries(run.rec) /\ f \in Entries(run.rec)
      BY <1>2, EntryFacts
    <2>2. e.kind = "file" /\ e.inode # 0 /\ f.inode = e.inode /\ ~Arq5
      BY <1>8 DEF Shared, Inode
    <2>3. f.kind = "file"
      BY <1>2, <2>1, <2>2, RecordsAssumption
    <2>4. Shared(j)
      BY <2>2, <2>3 DEF Shared, Inode
    <2> QED BY <1>1, <1>8, <2>4 DEF Linked, SameFile
  <1> QED BY <1>4, <1>5, <1>6, <1>7, <1>8 DEF SaidIsRestored

\* A restore that has come to its end has put every file asked for where it
\* says, and it is the record's, or has said that it has not: see
\* SaidIsRestored.  So it is whatever is lost or fails on the way, for a
\* record without files of a name with our suffix, and for a directory that
\* had no links where the policy is to overwrite: a link there is written
\* through, and the files written later change those before (restore,
\* _restore_file_node, _restore_dir_node, _count_tree).
THEOREM RestoreKeepsItsWord ==
  ASSUME SiblingsApart
  PROVE  Spec => [](Plain => SaidIsRestored)
BY InitSaid, NextSaid, SaidSuffices, PTL DEF Spec
=============================================================================
