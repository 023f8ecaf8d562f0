----------------------------- MODULE TargetTree ------------------------------
(***************************************************************************)
(* What can be compared: the trees of universities and departments that    *)
(* universities.service.ts builds, and the collapse of a selection in such *)
(* a tree, which the server (target-collapse.ts) and the browser           *)
(* (targetSelection.ts) carry out with the same text.                      *)
(*                                                                         *)
(* A tree maps the id of a node to the node, which names its parent.  The  *)
(* id of a university or a department is also its key in a selection.      *)
(***************************************************************************)
EXTENDS Absent, Naturals, FiniteSets, SequencesExt

CONSTANTS Ysu,         \* the college the system belongs to
          Universities, \* the other ones
          CollegeSeries, CollegeDepts,
          Remote       \* the region assumed when none is known

VARIABLE targetTree

Plain == [level |-> NULL, up |-> NULL, univ |-> NULL, dept |-> NULL, ysu |-> FALSE,
          members |-> {}, period |-> {}]

Home == <<"root:yeonsung">>

Listed(place) == {u \in DOMAIN place : place[u].type # NULL /\ place[u].city # NULL}

\* Type of school, region, city, university; without a type or a city a
\* university is left out.
OthersTree(place) ==
  LET path(u) == <<"root:others", place[u].type,
                   IF place[u].region = NULL THEN Remote ELSE place[u].region, place[u].city>>
      groups == {<<"root:others">>} \cup {SubSeq(path(u), 1, k) : u \in Listed(place), k \in 1..4}
      group(n) == [Plain EXCEPT !.level = <<"root", "schoolType", "region", "regionCity">>[Len(n)],
                                !.up = IF Len(n) = 1 THEN NULL ELSE Front(n)]
      univ(n) == [Plain EXCEPT !.level = "univ", !.univ = n[1], !.up = path(n[1])]
  IN [n \in groups \cup {<<u>> : u \in Listed(place)} |-> IF n \in groups THEN group(n) ELSE univ(n)]

HomeNode == [Plain EXCEPT !.level = "root", !.univ = Ysu, !.ysu = TRUE]

\* The public tree: the own college as one unit, and the others.
PublicTree(place) ==
  LET others == OthersTree(place)
  IN [n \in DOMAIN others \cup {Home} |-> IF n = Home THEN HomeNode ELSE others[n]]

\* The internal tree: the college as all its departments of the year, and its
\* series with their departments; period holds those of any year asked for (the
\* series list theirs of these too, read only for the union over all nodes).
InternalTree(org, period) ==
  LET sections == {<<"section:univ">>, <<"section:series">>}
      series == {s \in DOMAIN org : org[s] # {}}
  IN [n \in sections |-> [Plain EXCEPT !.level = "section", !.ysu = TRUE,
                                       !.univ = IF n[1] = "section:series" THEN Ysu ELSE NULL]]
     @@ (Home :> [HomeNode EXCEPT !.up = <<"section:univ">>, !.period = period,
                                  !.members = UNION {org[s] : s \in series}])
     @@ [n \in {<<"series", s>> : s \in series} |->
           [Plain EXCEPT !.level = "series", !.up = <<"section:series">>, !.univ = Ysu, !.ysu = TRUE]]
     @@ [n \in {<<Ysu, d>> : d \in UNION {org[s] : s \in series}} |->
           [Plain EXCEPT !.level = "dept", !.up = <<"series", CHOOSE s \in series : n[2] \in org[s]>>,
                         !.univ = Ysu, !.dept = n[2], !.ysu = TRUE]]

-----------------------------------------------------------------------------
(* Nodes that stand for an average                                         *)

Path(t) == LET path[n \in DOMAIN t] == IF t[n].up = NULL THEN {n} ELSE {n} \cup path[t[n].up]
           IN path

Under(t, n) == {m \in DOMAIN t : n \in Path(t)[m]}

CollectDepts(t, n) == {m \in Under(t, n) : t[m].level = "dept"}

CollectUnivCodes(t, n) ==
  {t[m].univ : m \in {k \in Under(t, n) : t[k].level = "univ" \/ (t[k].level = "root" /\ t[k].ysu)}}

IsHome(t, n) == t[n].ysu /\ t[n].level = "root"

MemberDepts(t, n) ==
  IF IsHome(t, n) /\ t[n].members # {} THEN {<<Ysu, d>> : d \in t[n].members} ELSE CollectDepts(t, n)

\* "univ": the average of universities; "dept": of departments;
\* "univ-individual": a university in a row of its own.
Kind(t, n) ==
  IF IsHome(t, n) THEN IF t[n].members = {} THEN "univ-individual" ELSE "dept"
  ELSE IF t[n].level \in {"root", "schoolType", "region", "regionCity"} THEN "univ"
  ELSE IF t[n].level = "series" /\ CollectDepts(t, n) # {} THEN "dept"
  ELSE IF t[n].level = "univ" /\ CollectDepts(t, n) # {} THEN "univ-individual"
  ELSE NULL

\* The nodes that can stand for an average, each with the next one above it.
AggNodes(t) ==
  LET agg == {n \in DOMAIN t : Kind(t, n) # NULL}
      above(n) == (Path(t)[n] \cap agg) \ {n}
  IN [n \in agg |->
        [id |-> n, kind |-> Kind(t, n), depth |-> Cardinality(Path(t)[n]), univ |-> t[n].univ,
         up |-> IF above(n) = {} THEN NULL
                ELSE CHOOSE a \in above(n) : \A b \in above(n) : b \in Path(t)[a],
         univs |-> IF Kind(t, n) = "univ" THEN CollectUnivCodes(t, n) ELSE {t[n].univ},
         depts |-> MemberDepts(t, n)]]

AsSeq(S) == FoldSet(LAMBDA x, acc : Append(acc, x), <<>>, S)

\* From the top down; of one depth, the college before its series.
InOrder(nodes) ==
  LET all == {nodes[n] : n \in DOMAIN nodes}
      level(k) == {a \in all : a.depth = k}
      home(k) == {a \in level(k) : a.id = Home}
  IN FoldLeft(LAMBDA acc, k : acc \o AsSeq(home(k)) \o AsSeq(level(k) \ home(k)), <<>>,
              [k \in 1..Max({1} \cup {a.depth : a \in all}) |-> k])

-----------------------------------------------------------------------------
(* Targets: the rows of a selection                                        *)

Target(key, mode, univ, dept, univs, depts) ==
  [key |-> key, mode |-> mode, univ |-> univ, dept |-> dept, univs |-> univs, depts |-> depts]

Single(univ, dept) ==
  Target(IF dept = NULL THEN <<univ>> ELSE <<univ, dept>>, "individual", univ, dept, {}, {})

\* toDto(), toGroupTarget()
ToTarget(a) ==
  IF a.kind = "univ" THEN Target(a.id, "group", NULL, NULL, a.univs, {})
  ELSE IF a.kind = "univ-individual" \/ (a.id = Home /\ a.depts = {}) THEN Single(a.univ, NULL)
  ELSE Target(a.id, "group", a.univ, NULL, {}, a.depts)

\* The keys chosen: groups, universities, departments; never a group's members.
SelectionKeys(targets) == {targets[i].key : i \in DOMAIN targets}

UnivCovered(u, keys, depts) ==
  LET own == {d \in depts : d[1] = u} IN <<u>> \in keys \/ (own # {} /\ own \subseteq keys)

\* A node is covered by itself, by all its departments, or by all the averages
\* right below it; without those, by all its universities.
CoveredNodes(nodes, keys) ==
  LET below(n) == {m \in DOMAIN nodes : nodes[m].up = n}
      covered[n \in DOMAIN nodes] ==
        LET it == nodes[n] IN
        \/ n \in keys
        \/ /\ it.kind # "univ"
           /\ \/ it.depts # {} /\ it.depts \subseteq keys
              \/ it.kind = "univ-individual" /\ <<it.univ>> \in keys
              \/ below(n) # {} /\ \A m \in below(n) : covered[m]
        \/ /\ it.kind = "univ" /\ below(n) # {} /\ \A m \in below(n) : covered[m]
        \/ /\ it.kind = "univ" /\ below(n) = {}
           /\ it.univs # {} /\ \A u \in it.univs : UnivCovered(u, keys, it.depts)
  IN {n \in DOMAIN nodes : covered[n]}

Consumed(acc, t) ==
  [rows |-> Append(acc.rows, t), univs |-> acc.univs \cup t.univs, depts |-> acc.depts \cup t.depts]

Slip_TakeNode(covered, acc, a) ==
  IF a.id \notin covered \/ a.univs \subseteq acc.univs THEN acc
  ELSE IF a.kind = "univ"
  THEN [Consumed(acc, ToTarget(a)) EXCEPT !.depts = @ \cup a.depts]
  ELSE [rows |-> Append(acc.rows, ToTarget(a)), depts |-> acc.depts \cup a.depts, univs |-> acc.univs]

\* A covered node becomes a row unless what it stands for is in the rows already.
TakeNode(covered, acc, a) ==
  IF a.id \notin covered \/ a.univs \subseteq acc.univs THEN acc
  ELSE IF a.kind = "univ"
  THEN [Consumed(acc, ToTarget(a)) EXCEPT !.depts = @ \cup a.depts]
  ELSE IF a.depts # {} /\ a.depts \subseteq acc.depts THEN acc
  ELSE [rows |-> Append(acc.rows, ToTarget(a)), depts |-> acc.depts \cup a.depts,
        univs |-> IF a.kind = "univ-individual" \/ a.id = Home THEN acc.univs \cup {a.univ}
                  ELSE acc.univs]

HasRow(acc, t) == \E i \in DOMAIN acc.rows : acc.rows[i].key = t.key

\* A chosen target no average took in stays as it is.
KeepTarget(acc, t) ==
  IF t.mode = "group"
  THEN IF \/ HasRow(acc, t)
          \/ t.key # Home /\ \/ t.univs # {} /\ t.univs \subseteq acc.univs
                             \/ t.depts # {} /\ t.depts \subseteq acc.depts
       THEN acc ELSE Consumed(acc, t)
  ELSE IF t.univ \in acc.univs \/ (t.dept # NULL /\ t.key \in acc.depts) THEN acc
  ELSE [rows |-> Append(acc.rows, t),
        univs |-> IF t.dept = NULL THEN acc.univs \cup {t.univ} ELSE acc.univs,
        depts |-> IF t.dept = NULL THEN acc.depts ELSE acc.depts \cup {t.key}]

\* Without integration the targets stay, except a college without departments,
\* which becomes its public row.
Normalized(t) == IF t.key = Home /\ t.depts = {} THEN Single(t.univ, NULL) ELSE t

\* collapsePivotTargets(), collapseSelectedTargets()
Collapse(targets, t, integrate) ==
  IF targets = <<>> \/ DOMAIN t = {} THEN targets
  ELSE IF ~integrate THEN [i \in DOMAIN targets |-> Normalized(targets[i])]
  ELSE LET nodes == AggNodes(t)
           covered == CoveredNodes(nodes, SelectionKeys(targets))
           taken == FoldLeft(LAMBDA acc, a : TakeNode(covered, acc, a),
                             [rows |-> <<>>, univs |-> {}, depts |-> {}], InOrder(nodes))
       IN FoldLeft(LAMBDA acc, x : KeepTarget(acc, Normalized(x)), taken, targets).rows

-----------------------------------------------------------------------------
(* What the boxes of the tree on screen choose (TargetTree.tsx)            *)

\* The target of a node, or NULL where there is nothing to tick.
BuildGroup(t, n) ==
  IF Kind(t, n) = "univ" THEN IF CollectUnivCodes(t, n) = {} THEN NULL
                              ELSE Target(n, "group", NULL, NULL, CollectUnivCodes(t, n), {})
  ELSE IF IsHome(t, n) /\ t[n].members = {} THEN Single(t[n].univ, NULL)
  ELSE IF Kind(t, n) = "dept" THEN Target(n, "group", t[n].univ, NULL, {}, MemberDepts(t, n))
  ELSE IF t[n].level = "univ" THEN Single(t[n].univ, NULL)
  ELSE IF t[n].level = "dept" THEN Single(t[n].univ, t[n].dept)
  ELSE NULL

\* What ticking a node unticks: everything below a group, nothing below a leaf.
DescendantKeys(t, n) ==
  IF IsHome(t, n) /\ t[n].members # {} THEN {n}
  ELSE IF BuildGroup(t, n).mode = "group" THEN Under(t, n) ELSE {BuildGroup(t, n).key}
=============================================================================
