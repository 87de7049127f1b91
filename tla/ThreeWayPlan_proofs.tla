------------------------ MODULE ThreeWayPlan_proofs ------------------------
(***************************************************************************)
(* What BuildPlan does, for folders over any paths and contents.           *)
(***************************************************************************)
EXTENDS ThreeWayPlan, TLAPS

Kinds == {"none", "serverSends", "clientSends", "serverDeletes", "clientDeletes",
          "deleteModify", "modifyDelete", "bothModified"}

\* The switch of BuildPlan, case by case, as a three-way merge: each kind is
\* chosen exactly when its row of the table in docs/architecture.md says so.
LEMMA DecisionCases ==
  ASSUME NEW s \in File, NEW c \in File, NEW b \in File
  PROVE  /\ Decision(s, c, b) \in Kinds
         /\ Decision(s, c, b) = "none" <=> s = c
         /\ Decision(s, c, b) = "serverSends" <=> s # c /\ c = b /\ s # NoFile
         /\ Decision(s, c, b) = "clientSends" <=> s # c /\ s = b /\ c # NoFile
         /\ Decision(s, c, b) = "clientDeletes" <=> s # c /\ c = b /\ s = NoFile
         /\ Decision(s, c, b) = "serverDeletes" <=> s # c /\ s = b /\ c = NoFile
         /\ Decision(s, c, b) = "deleteModify" <=> s # c /\ b \notin {s, c} /\ s = NoFile
         /\ Decision(s, c, b) = "modifyDelete" <=> s # c /\ b \notin {s, c} /\ c = NoFile
         /\ Decision(s, c, b) = "bothModified" <=>
              s # c /\ b \notin {s, c} /\ s # NoFile /\ c # NoFile
  BY DEF Decision, Changed, Kinds

At(server, client, baseline, kinds) ==
  {p \in Path : Decision(server[p], client[p], baseline[p]) \in kinds}

\* A plan is well formed whatever the three manifests are.
LEMMA BuildPlanType ==
  ASSUME NEW server \in Folder, NEW client \in Folder, NEW baseline \in Folder,
         NEW s \in Session
  PROVE  BuildPlan(server, client, baseline, s) \in Plan
<1> DEFINE plan == BuildPlan(server, client, baseline, s)
           K(p) == Decision(server[p], client[p], baseline[p])
           At1(kinds) == {p \in Path : K(p) \in kinds}
           both == At1({"bothModified"})
<1>0. \A p \in Path : server[p] \in File /\ client[p] \in File /\ baseline[p] \in File
  BY DEF Folder
<1>1. \A p \in At1({"serverSends", "modifyDelete"}) \cup both : server[p] \in Hash
  BY <1>0, DecisionCases, ZenonT(30) DEF File
<1>2. \A p \in At1({"clientSends", "deleteModify"}) \cup both : client[p] \in Hash
  BY <1>0, DecisionCases, ZenonT(30) DEF File
<1>3. \A p \in both : ConflictName(p, s) \in Path
  BY PlanAssumption
<1>4. plan.serverSends \subseteq Transfer
  BY <1>1, <1>2, <1>3 DEF BuildPlan, AsIs, CopiesBack, Send, Transfer
<1>5. plan.clientSends \subseteq Transfer
  BY <1>2, <1>3 DEF BuildPlan, AsIs, CopiesUp, Send, Transfer
<1>6. plan.serverDeletes \subseteq Path /\ plan.clientDeletes \subseteq Path
  BY DEF BuildPlan
<1>7. plan.conflicts \subseteq Conflict
  BY <1>0, <1>3 DEF BuildPlan, Conflict
<1>8. plan = [serverSends |-> plan.serverSends, clientSends |-> plan.clientSends,
              serverDeletes |-> plan.serverDeletes, clientDeletes |-> plan.clientDeletes,
              conflicts |-> plan.conflicts]
  BY DEF BuildPlan
<1> QED BY <1>4, <1>5, <1>6, <1>7, <1>8 DEF Plan

\* One transfer to a path settles what is there at the end.
LEMMA InstalledReceived ==
  ASSUME NEW folder, NEW received, NEW deleted, NEW q \in Path, NEW h,
         \E t \in received : t.dest = q,
         \A t \in received : t.dest = q => t.hash = h
  PROVE  Installed(folder, received, deleted)[q] = h
  BY DEF Installed

LEMMA InstalledOther ==
  ASSUME NEW folder, NEW received, NEW deleted, NEW q \in Path,
         \A t \in received : t.dest # q
  PROVE  Installed(folder, received, deleted)[q]
           = IF q \in deleted THEN NoFile ELSE folder[q]
  BY DEF Installed

\* The names of a round's conflict copies are unused and told apart.
FreshCopies(server, client, baseline, s) ==
  \A p \in At(server, client, baseline, {"bothModified"}) :
    LET q == ConflictName(p, s) IN
    /\ server[q] = NoFile /\ client[q] = NoFile
    /\ \A r \in At(server, client, baseline, {"bothModified"}) :
         ConflictName(r, s) = q => r = p

\* The outcome of a round at a path, on both devices.
Merged(server, client, baseline, s, q) ==
  LET kind == Decision(server[q], client[q], baseline[q])
      both == At(server, client, baseline, {"bothModified"})
  IN IF \E p \in both : q = ConflictName(p, s)
     THEN client[CHOOSE p \in both : q = ConflictName(p, s)]
     ELSE IF kind \in {"clientSends", "deleteModify", "serverDeletes"} THEN client[q]
     ELSE server[q]

\* The transfers of a plan, by the kinds of the paths they are for.
LEMMA PlanTransfers ==
  ASSUME NEW server, NEW client, NEW baseline, NEW s
  PROVE  LET plan == BuildPlan(server, client, baseline, s)
             P(kinds) == At(server, client, baseline, kinds)
             both == P({"bothModified"})
         IN /\ plan.serverSends =
                 {Send(p, p, server[p]) : p \in P({"serverSends", "modifyDelete"}) \cup both}
                   \cup {Send(ConflictName(p, s), ConflictName(p, s), client[p]) : p \in both}
            /\ plan.clientSends =
                 {Send(p, p, client[p]) : p \in P({"clientSends", "deleteModify"})}
                   \cup {Send(p, ConflictName(p, s), client[p]) : p \in both}
            /\ plan.serverDeletes = P({"serverDeletes"})
            /\ plan.clientDeletes = P({"clientDeletes"})
  BY DEF BuildPlan, AsIs, CopiesUp, CopiesBack, At

\* What a plan says of a path, in terms of the outcome there: whatever is sent
\* to it is the outcome, a deleted path has none, and a device that neither
\* receives nor deletes the path has the outcome already.
LEMMA PlanOutcome ==
  ASSUME NEW server \in Folder, NEW client \in Folder, NEW baseline \in Folder,
         NEW s \in Session,
         FreshCopies(server, client, baseline, s),
         NEW q \in Path
  PROVE  LET plan == BuildPlan(server, client, baseline, s)
             end == Merged(server, client, baseline, s, q)
         IN /\ \A t \in plan.serverSends \cup plan.clientSends : t.dest = q => t.hash = end
            /\ q \in plan.serverDeletes \cup plan.clientDeletes => end = NoFile
            /\ \/ q \in plan.serverDeletes \/ \E t \in plan.clientSends : t.dest = q
               \/ server[q] = end
            /\ \/ q \in plan.clientDeletes \/ \E t \in plan.serverSends : t.dest = q
               \/ client[q] = end
<1> DEFINE plan == BuildPlan(server, client, baseline, s)
           K(p) == Decision(server[p], client[p], baseline[p])
           P(kinds) == At(server, client, baseline, kinds)
           both == P({"bothModified"})
           end == Merged(server, client, baseline, s, q)
<1>0. \A p \in Path : server[p] \in File /\ client[p] \in File /\ baseline[p] \in File
  BY DEF Folder
<1>1. \A kinds : \A p \in Path : p \in P(kinds) <=> K(p) \in kinds
  BY DEF At
<1>2. /\ \A t \in plan.serverSends :
           \/ \E p \in Path : /\ K(p) \in {"serverSends", "modifyDelete", "bothModified"}
                              /\ t.dest = p /\ t.hash = server[p]
           \/ \E p \in both : t.dest = ConflictName(p, s) /\ t.hash = client[p]
      /\ \A t \in plan.clientSends :
           \/ \E p \in Path : /\ K(p) \in {"clientSends", "deleteModify"}
                              /\ t.dest = p /\ t.hash = client[p]
           \/ \E p \in both : t.dest = ConflictName(p, s) /\ t.hash = client[p]
  <2>1. \A p, r, h : Send(r, p, h).dest = p /\ Send(r, p, h).hash = h
    BY DEF Send
  <2>2. both \subseteq Path /\ \A kinds : P(kinds) \subseteq Path
    BY DEF At
  <2> HIDE DEF P, K, plan
  <2> QED BY PlanTransfers, <1>1, <2>1, <2>2 DEF plan, P, K
<1>3. /\ q \in plan.serverDeletes <=> K(q) = "serverDeletes"
      /\ q \in plan.clientDeletes <=> K(q) = "clientDeletes"
  BY PlanTransfers, <1>1
<1>4. CASE \E p \in both : q = ConflictName(p, s)
  <2> PICK p \in both : q = ConflictName(p, s) BY <1>4
  <2>1. end = client[p]
    BY DEF Merged, FreshCopies
  <2>2. server[q] = NoFile /\ client[q] = NoFile /\ K(q) = "none"
    BY <1>0, DecisionCases DEF FreshCopies
  <2>3. \A r \in both : ConflictName(r, s) = q => r = p
    BY DEF FreshCopies
  <2>4. /\ Send(q, q, client[p]) \in plan.serverSends
        /\ Send(p, q, client[p]) \in plan.clientSends
    BY PlanTransfers DEF At
  <2>5. Send(q, q, client[p]).dest = q /\ Send(p, q, client[p]).dest = q
    BY DEF Send
  <2>6. \A t \in plan.serverSends \cup plan.clientSends : t.dest = q => t.hash = client[p]
    BY <1>2, <2>2, <2>3
  <2> HIDE DEF plan, end, K
  <2> QED BY <1>3, <2>1, <2>2, <2>4, <2>5, <2>6 DEF plan, end
<1>5. CASE ~ \E p \in both : q = ConflictName(p, s)
  <2>1. end = IF K(q) \in {"clientSends", "deleteModify", "serverDeletes"}
              THEN client[q] ELSE server[q]
    BY <1>5 DEF Merged
  <2>2. /\ \A t \in plan.serverSends : t.dest = q =>
             t.hash = server[q] /\ K(q) \in {"serverSends", "modifyDelete", "bothModified"}
        /\ \A t \in plan.clientSends : t.dest = q =>
             t.hash = client[q] /\ K(q) \in {"clientSends", "deleteModify"}
    BY <1>2, <1>5
  <2>3. /\ K(q) \in {"serverSends", "modifyDelete", "bothModified"} =>
             Send(q, q, server[q]) \in plan.serverSends
        /\ K(q) \in {"clientSends", "deleteModify"} =>
             Send(q, q, client[q]) \in plan.clientSends
    BY PlanTransfers, <1>1
  <2>4. Send(q, q, server[q]).dest = q /\ Send(q, q, client[q]).dest = q
    BY DEF Send
  <2>5. /\ K(q) \in Kinds
        /\ K(q) = "none" => server[q] = client[q]
        /\ K(q) = "clientDeletes" => server[q] = NoFile
        /\ K(q) = "serverDeletes" => client[q] = NoFile
    BY <1>0, DecisionCases
  <2> HIDE DEF plan, K, end
  <2>6. \A t \in plan.serverSends \cup plan.clientSends : t.dest = q => t.hash = end
    BY <2>1, <2>2
  <2>7. q \in plan.serverDeletes \cup plan.clientDeletes => end = NoFile
    BY <1>3, <2>1, <2>5
  <2>8. q \in plan.serverDeletes \/ (\E t \in plan.clientSends : t.dest = q) \/ server[q] = end
    BY <1>3, <2>1, <2>3, <2>4
  <2>9. q \in plan.clientDeletes \/ (\E t \in plan.serverSends : t.dest = q) \/ client[q] = end
    BY <1>3, <2>1, <2>3, <2>4, <2>5 DEF Kinds
  <2> QED BY <2>6, <2>7, <2>8, <2>9 DEF plan, end
<1> QED BY <1>4, <1>5

\* Carrying out a plan leaves the same file at every path of both devices:
\* the version that changed alone, the server's in a conflict, and the
\* client's in the conflict's copy.
THEOREM PlanMerges ==
  ASSUME NEW server \in Folder, NEW client \in Folder, NEW baseline \in Folder,
         NEW s \in Session,
         FreshCopies(server, client, baseline, s),
         NEW q \in Path
  PROVE  LET plan == BuildPlan(server, client, baseline, s)
         IN /\ Installed(server, plan.clientSends, plan.serverDeletes)[q]
                 = Merged(server, client, baseline, s, q)
            /\ Installed(client, plan.serverSends, plan.clientDeletes)[q]
                 = Merged(server, client, baseline, s, q)
<1> DEFINE plan == BuildPlan(server, client, baseline, s)
           end == Merged(server, client, baseline, s, q)
<1>1. /\ \A t \in plan.serverSends \cup plan.clientSends : t.dest = q => t.hash = end
      /\ q \in plan.serverDeletes \cup plan.clientDeletes => end = NoFile
      /\ q \in plan.serverDeletes \/ (\E t \in plan.clientSends : t.dest = q) \/ server[q] = end
      /\ q \in plan.clientDeletes \/ (\E t \in plan.serverSends : t.dest = q) \/ client[q] = end
  BY PlanOutcome
<1> HIDE DEF plan, end
<1>2. Installed(server, plan.clientSends, plan.serverDeletes)[q] = end
  <2>1. CASE \E t \in plan.clientSends : t.dest = q
    BY <1>1, <2>1, InstalledReceived
  <2>2. CASE \A t \in plan.clientSends : t.dest # q
    BY <1>1, <2>2, InstalledOther
  <2> QED BY <2>1, <2>2
<1>3. Installed(client, plan.serverSends, plan.clientDeletes)[q] = end
  <2>1. CASE \E t \in plan.serverSends : t.dest = q
    BY <1>1, <2>1, InstalledReceived
  <2>2. CASE \A t \in plan.serverSends : t.dest # q
    BY <1>1, <2>2, InstalledOther
  <2> QED BY <2>1, <2>2
<1> QED BY <1>2, <1>3 DEF plan, end

\* Both versions of every conflict of a plan, where there are two, are files
\* of the outcome: at the path itself and, for the client's, at its copy.
LEMMA ConflictsKept ==
  ASSUME NEW server \in Folder, NEW client \in Folder, NEW baseline \in Folder,
         NEW s \in Session,
         FreshCopies(server, client, baseline, s),
         NEW c \in BuildPlan(server, client, baseline, s).conflicts,
         NEW h \in {c.server, c.client} \ {NoFile}
  PROVE  \E q \in Path : Merged(server, client, baseline, s, q) = h
<1> DEFINE K(p) == Decision(server[p], client[p], baseline[p])
           both == At(server, client, baseline, {"bothModified"})
<1>1. PICK p \in Path : /\ K(p) \in {"deleteModify", "modifyDelete", "bothModified"}
                        /\ c.server = server[p] /\ c.client = client[p]
  BY DEF BuildPlan
<1>2. server[p] \in File /\ client[p] \in File /\ baseline[p] \in File
  BY DEF Folder
<1>3. /\ K(p) = "deleteModify" => server[p] = NoFile
      /\ K(p) = "modifyDelete" => client[p] = NoFile
      /\ server[p] # NoFile \/ client[p] # NoFile
  BY <1>1, <1>2, DecisionCases
<1>4. ~ \E r \in both : p = ConflictName(r, s)
  BY <1>3 DEF FreshCopies
<1>5. Merged(server, client, baseline, s, p) = IF K(p) = "deleteModify" THEN client[p] ELSE server[p]
  BY <1>1, <1>4 DEF Merged
<1>6. CASE K(p) = "bothModified"
  <2>1. p \in both /\ ConflictName(p, s) \in Path
    BY <1>6, PlanAssumption DEF At
  <2>2. Merged(server, client, baseline, s, ConflictName(p, s)) = client[p]
    BY <2>1 DEF Merged, FreshCopies
  <2> QED BY <1>1, <1>5, <1>6, <2>1, <2>2
<1>7. CASE K(p) # "bothModified"
  BY <1>1, <1>3, <1>5, <1>7
<1> QED BY <1>6, <1>7
=============================================================================
