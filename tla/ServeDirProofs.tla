--------------------------- MODULE ServeDirProofs ---------------------------
(***************************************************************************)
(* The served directory holds one release, and what was reported populated   *)
(* is all of it: for any releases, entries and number of goroutines.         *)
(***************************************************************************)
EXTENDS ServeDir, TLAPS

\* Once GetTar has begun, staging holds entries of its release and no others;
\* after a restart it may hold anything.
Staged ==
    pc \in {"extract", "remove", "promote"} =>
        \A e \in Entries : stage[e] # None => stage[e] = cid /\ e \in Site[cid]

\* While old entries are removed, all that is left of them is still listed, and
\* staging is complete.
Removing ==
    pc = "remove" =>
        /\ populated = None
        /\ \A e \in Entries : live[e] # None => e \in todo
        /\ \A e \in Site[cid] : stage[e] = cid

\* While new entries are promoted, each is in its place, or in staging and
\* listed; nothing else is in the directory.
Promoting ==
    pc = "promote" =>
        /\ populated = None /\ todo \subseteq Entries
        /\ \A e \in Entries : live[e] # None => live[e] = cid /\ e \in Site[cid]
        /\ \A e \in todo : stage[e] = cid /\ live[e] = None
        /\ \A e \in Site[cid] : live[e] = cid \/ e \in todo

\* Nothing is in the directory that its release does not have.
Genuine == \A e \in Entries : live[e] # None => e \in Site[live[e]]

\* GetTar works for the release that is held: pollMu keeps other polls out.
Calling == pc # "idle" => cid = held

IInv ==
    /\ TypeOK /\ Staged /\ Removing /\ Promoting /\ Genuine /\ Calling
    /\ OneRelease /\ PopulatedIsWhole

\* The steps of the goroutines that GetTar does not wait for, and the end of
\* the process, which leaves the site's entries alone.
Bystander ==
    \/ \E w \in Writers : PropTick(w) \/ PropFails(w) \/ PropOpens(w) \/ PropWrites(w)
    \/ PeersTmp \/ PeersRename

\* Every variable keeps its type.
LEMMA TypeStep == TypeOK /\ [Next]_vars => TypeOK'
<1> SUFFICES ASSUME TypeOK, [Next]_vars
             PROVE  TypeOK'
    OBVIOUS
<1> USE NoneAssumption, SiteAssumption DEF TypeOK
<1>1. CASE UNCHANGED vars
    BY <1>1 DEF vars, getVars, propVars, attVars
<1>2. ASSUME NEW c \in CIDs, Bump(c) PROVE TypeOK'
    BY <1>2 DEF Bump, propVars, attVars
<1>3. CASE GetTarStep
    <2>1. CASE GetFails \/ GetBegins \/ GetTarFails
        BY <2>1 DEF GetFails, GetBegins, GetTarFails, Absent, propVars, attVars
    <2>2. ASSUME NEW e \in Entries, Extract(e) \/ Promote(e) PROVE TypeOK'
        BY <2>2 DEF Extract, Promote, IsNext, propVars, attVars
    <2>3. CASE ListOld
        BY <2>3 DEF ListOld, Present, SideFiles, propVars, attVars
    <2>4. ASSUME NEW e \in Entries \cup SideFiles, Remove(e) PROVE TypeOK'
        BY <2>4 DEF Remove, IsNext
    <2>5. CASE ListNew \/ GetTarReturns
        BY <2>5 DEF ListNew, GetTarReturns, propVars, attVars
    <2> QED
        BY <1>3, <2>1, <2>2, <2>3, <2>4, <2>5 DEF GetTarStep
<1>4. ASSUME NEW w \in Writers, Spawn(w) \/ PropTick(w) PROVE TypeOK'
    BY <1>4 DEF Spawn, PropTick, StartWriter, attVars
<1>5. ASSUME NEW w \in Writers, PropFails(w) \/ PropOpens(w) PROVE TypeOK'
    BY <1>5 DEF PropFails, PropOpens, getVars, attVars
<1>6. ASSUME NEW w \in Writers, PropWrites(w) PROVE TypeOK'
    BY <1>6 DEF PropWrites, getVars, attVars
<1>7. CASE PeersTmp \/ PeersRename
    BY <1>7 DEF PeersTmp, PeersRename, getVars, propVars
<1>8. CASE Restart
    BY <1>8 DEF Restart
<1> QED
    BY <1>1, <1>2, <1>3, <1>4, <1>5, <1>6, <1>7, <1>8 DEF Next

\* A goroutine that GetTar does not wait for changes nothing GetTar relies on.
LEMMA BystanderStep ==
    Bystander => UNCHANGED <<held, live, pc, cid, stage, todo, populated>>
BY DEF Bystander, PropTick, StartWriter, PropFails, PropOpens, PropWrites,
       PeersTmp, PeersRename, getVars

\* A step is one of poll's and GetTar's, a bystander's, or the end of the process.
LEMMA StepCases ==
    Next => \/ \E c \in CIDs : Bump(c)
            \/ GetTarStep \/ Bystander \/ Restart
            \/ \E w \in Writers : Spawn(w)
BY DEF Next, Bystander

\* The inductive step, for the parts other than the types.
LEMMA InvStep == IInv /\ [Next]_vars =>
    /\ Staged' /\ Removing' /\ Promoting' /\ Genuine' /\ Calling'
    /\ OneRelease' /\ PopulatedIsWhole'
<1> DEFINE Goal == /\ Staged' /\ Removing' /\ Promoting' /\ Genuine' /\ Calling'
                   /\ OneRelease' /\ PopulatedIsWhole'
<1> SUFFICES ASSUME IInv, [Next]_vars
             PROVE  Goal
    OBVIOUS
<1> USE NoneAssumption, SiteAssumption
    DEF IInv, TypeOK, Staged, Removing, Promoting, Genuine, Calling, OneRelease,
        PopulatedIsWhole, AllOf
<1>1. CASE UNCHANGED vars
    BY <1>1 DEF vars, getVars
<1>2. ASSUME NEW c \in CIDs, Bump(c) PROVE Goal
    BY <1>2 DEF Bump
<1>3. CASE GetTarStep
    <2>1. CASE GetFails \/ GetBegins \/ GetTarFails
        BY <2>1 DEF GetFails, GetBegins, GetTarFails, Absent
    <2>2. ASSUME NEW e \in Entries, Extract(e) PROVE Goal
        BY <2>2 DEF Extract
    <2>3. CASE ListOld
        <3>1. \A e \in Entries : live[e] # None => e \in todo'
            BY <2>3 DEF ListOld, Present
        <3> QED
            BY <2>3, <3>1 DEF ListOld
    <2>4. ASSUME NEW e \in Entries \cup SideFiles, Remove(e) PROVE Goal
        <3>1. \A f \in Entries : live'[f] = IF f = e THEN None ELSE live[f]
            BY <2>4 DEF Remove, IsNext
        <3>2. \A f \in Entries : live'[f] # None => f \in todo'
            BY <2>4, <3>1 DEF Remove, IsNext
        <3> QED
            BY <2>4, <3>1, <3>2 DEF Remove, IsNext
    <2>5. CASE ListNew
        BY <2>5 DEF ListNew
    <2>6. ASSUME NEW e \in Entries, Promote(e) PROVE Goal
        BY <2>6 DEF Promote, IsNext
    <2>7. CASE GetTarReturns
        <3>1. cid \in CIDs /\ Site[cid] \subseteq Entries
            BY <2>7 DEF GetTarReturns
        <3>2. \A e \in Entries : live[e] = IF e \in Site[cid] THEN cid ELSE None
            BY <2>7, <3>1 DEF GetTarReturns
        <3>3. live = [e \in Entries |-> IF e \in Site[cid] THEN cid ELSE None]
            BY <3>2
        <3> QED
            BY <2>7, <3>1, <3>3 DEF GetTarReturns
    <2> QED
        BY <1>3, <2>1, <2>2, <2>3, <2>4, <2>5, <2>6, <2>7 DEF GetTarStep
<1>4. CASE Bystander
    BY <1>4, BystanderStep
<1>5. ASSUME NEW w \in Writers, Spawn(w) PROVE Goal
    BY <1>5 DEF Spawn, StartWriter
<1>6. CASE Restart
    BY <1>6 DEF Restart
<1> QED
    BY <1>1, <1>2, <1>3, <1>4, <1>5, <1>6, StepCases

\* IInv holds initially and is preserved, so it always holds.
LEMMA ServeDirInvariant == Spec => []IInv
<1>1. Init => IInv
    BY NoneAssumption DEF Init, Absent, IInv, TypeOK, Staged, Removing, Promoting,
        Genuine, Calling, OneRelease, PopulatedIsWhole
<1>2. IInv /\ [Next]_vars => IInv'
    BY TypeStep, InvStep DEF IInv
<1> QED
    BY <1>1, <1>2, PTL DEF Spec

\* Every variable of the directory and of its writers keeps its type.
THEOREM ServeDirTypeCorrect == Spec => []TypeOK
BY ServeDirInvariant, PTL DEF IInv

\* The directory never holds parts of two releases, wherever GetTar fails or the
\* process ends.
THEOREM ServeDirOneRelease == Spec => []OneRelease
BY ServeDirInvariant, PTL DEF IInv

\* What GetTar reported populated stays whole until a later tar has been read.
THEOREM ServeDirPopulatedIsWhole == Spec => []PopulatedIsWhole
BY ServeDirInvariant, PTL DEF IInv

-----------------------------------------------------------------------------
(* The detailed directory implements SiteDir.                               *)

\* ReleaseIn finds the one release whose entries a directory has, if any: two
\* releases that consist of something never look the same.
LEMMA ReleaseInFacts ==
    ASSUME NEW dir \in [Entries -> CIDs \cup {None}]
    PROVE  /\ ReleaseIn(dir) \in CIDs \cup {None}
           /\ \A c \in CIDs : ReleaseIn(dir) = c <=> Site[c] # {} /\ dir = AllOf(c)
<1> DEFINE W == {c \in CIDs : Site[c] # {} /\ dir = AllOf(c)}
<1>1. ReleaseIn(dir) = IF W = {} THEN None ELSE CHOOSE c \in W : TRUE
    BY DEF ReleaseIn
<1>2. \A c, d \in W : c = d
    <2> SUFFICES ASSUME NEW c \in W, NEW d \in W PROVE c = d
        OBVIOUS
    <2>1. PICK e \in Site[c] : TRUE
        OBVIOUS
    <2>2. e \in Entries
        BY <2>1, SiteAssumption
    <2>3. AllOf(c)[e] = c /\ AllOf(d)[e] \in {d, None}
        BY <2>1, <2>2 DEF AllOf
    <2>4. dir[e] = c /\ c # None
        BY <2>3, NoneAssumption
    <2> QED
        BY <2>3, <2>4
<1> HIDE DEF W
<1>3. CASE W = {}
    BY <1>1, <1>3, NoneAssumption DEF W
<1>4. CASE W # {}
    <2>1. ReleaseIn(dir) \in W
        BY <1>1, <1>4
    <2> QED
        BY <2>1, <1>2 DEF W
<1> QED
    BY <1>3, <1>4

\* A directory without one of a release's entries does not have that release.
LEMMA NotUp ==
    ASSUME NEW dir \in [Entries -> CIDs \cup {None}],
           \A c \in CIDs : Site[c] # {} => \E e \in Entries : dir[e] # AllOf(c)[e]
    PROVE  ReleaseIn(dir) = None
BY ReleaseInFacts

\* The removal of an old entry takes the release down, that of anything else
\* leaves it.
LEMMA RemoveTakesDown ==
    ASSUME IInv, NEW e \in Entries \cup SideFiles, Remove(e)
    PROVE  D!TakeDown \/ UNCHANGED <<held, ReleaseIn(live)>>
<1> USE DEF IInv, TypeOK
<1>1. held # None /\ held' = held
    BY NoneAssumption DEF Remove, Calling
<1>2. CASE e \in Entries /\ live[e] # None
    <2>1. live' = [live EXCEPT ![e] = None]
        BY <1>2 DEF Remove
    <2>2. live' \in [Entries -> CIDs \cup {None}] /\ live'[e] = None
        BY <1>2, <2>1
    <2>3. ASSUME NEW c \in CIDs, Site[c] # {}
          PROVE  \E f \in Entries : live'[f] # AllOf(c)[f]
        <3> SUFFICES ASSUME \A f \in Entries : live'[f] = AllOf(c)[f]
                     PROVE  FALSE
            OBVIOUS
        <3>1. PICK f \in Site[c] : TRUE
            BY <2>3
        <3>2. f \in Entries /\ AllOf(c)[f] = c /\ c # None
            BY <3>1, SiteAssumption, NoneAssumption DEF AllOf
        <3>3. f # e /\ live[f] = c
            BY <2>1, <2>2, <3>2
        <3>4. live[e] = c
            BY <1>2, <3>2, <3>3 DEF OneRelease
        <3>5. e \in Site[c]
            BY <1>2, <3>4 DEF Genuine
        <3>6. AllOf(c)[e] = c
            BY <1>2, <3>5 DEF AllOf
        <3> QED
            BY <1>2, <2>2, <3>2, <3>6
    <2>4. ReleaseIn(live') = None
        BY <2>2, <2>3, NotUp
    <2> QED
        BY <1>1, <2>4 DEF D!TakeDown
<1>3. CASE ~(e \in Entries /\ live[e] # None)
    <2>1. live' = live
        BY <1>3 DEF Remove
    <2> QED
        BY <1>1, <2>1
<1> QED
    BY <1>2, <1>3

\* The entry promoted is the last one of the release that is held, which is then
\* up, or there are more to come, and none is; before, none was.
LEMMA PromotePutsUp ==
    ASSUME IInv, NEW e \in Entries, Promote(e)
    PROVE  D!PutUp \/ UNCHANGED <<held, ReleaseIn(live)>>
<1> USE DEF IInv, TypeOK
<1>1. /\ held # None /\ held' = held /\ cid = held /\ cid \in CIDs
      /\ e \in Site[cid] \/ stage[e] = cid
    BY NoneAssumption DEF Promote, IsNext, Calling, Promoting
<1>2. /\ live' = [live EXCEPT ![e] = cid]
      /\ live[e] = None /\ e \in todo
    BY DEF Promote, IsNext, Promoting
<1>3. e \in Site[cid]
    BY <1>2, NoneAssumption DEF Promote, Staged, Promoting
<1>4. /\ \A f \in Entries : live[f] # None => live[f] = cid
      /\ live' \in [Entries -> CIDs \cup {None}]
      /\ \A f \in Entries : live'[f] # None => live'[f] = cid
    BY <1>1, <1>2 DEF Promote, Promoting
<1>5. ReleaseIn(live) = None
    <2>1. ASSUME NEW c \in CIDs, Site[c] # {}
          PROVE  \E f \in Entries : live[f] # AllOf(c)[f]
        <3>1. CASE c = cid
            <4>1. AllOf(c)[e] = c
                BY <1>3, <3>1 DEF AllOf
            <4> QED
                BY <1>2, <4>1, NoneAssumption
        <3>2. CASE c # cid
            <4>1. PICK f \in Site[c] : TRUE
                BY <2>1
            <4>2. f \in Entries /\ AllOf(c)[f] = c /\ c # None
                BY <4>1, SiteAssumption, NoneAssumption DEF AllOf
            <4> QED
                BY <1>4, <3>2, <4>2
        <3> QED
            BY <3>1, <3>2
    <2> QED
        BY <2>1, NotUp
<1>6. ReleaseIn(live') \in {cid, None}
    <2>1. ASSUME NEW c \in CIDs, ReleaseIn(live') = c PROVE c = cid
        <3>1. Site[c] # {} /\ live' = AllOf(c)
            BY <1>4, <2>1, ReleaseInFacts
        <3>2. PICK f \in Site[c] : TRUE
            BY <3>1
        <3>3. f \in Entries /\ AllOf(c)[f] = c /\ c # None
            BY <3>2, SiteAssumption, NoneAssumption DEF AllOf
        <3> QED
            BY <1>4, <3>1, <3>3
    <2> QED
        BY <1>4, <2>1, ReleaseInFacts
<1> QED
    BY <1>1, <1>5, <1>6 DEF D!PutUp

\* Every step of the daemon is a step of SiteDir or leaves its variables alone.
LEMMA SiteDirStep == IInv /\ [Next]_vars => [D!Next]_(D!vars)
<1> SUFFICES ASSUME IInv, [Next]_vars
             PROVE  D!Next \/ UNCHANGED <<held, ReleaseIn(live)>>
    BY DEF D!vars
<1>1. CASE UNCHANGED vars
    BY <1>1 DEF vars
<1>2. ASSUME NEW c \in CIDs, Bump(c)
      PROVE  D!Hold
    BY <1>2 DEF Bump, D!Hold
<1>3. CASE GetTarStep
    <2>1. CASE \/ GetFails \/ GetBegins \/ GetTarFails \/ ListOld \/ ListNew
               \/ GetTarReturns
        BY <2>1 DEF GetFails, GetBegins, GetTarFails, ListOld, ListNew, GetTarReturns
    <2>2. ASSUME NEW e \in Entries, Extract(e)
          PROVE  UNCHANGED <<held, ReleaseIn(live)>>
        BY <2>2 DEF Extract
    <2>3. ASSUME NEW e \in Entries \cup SideFiles, Remove(e)
          PROVE  D!TakeDown \/ UNCHANGED <<held, ReleaseIn(live)>>
        BY <2>3, RemoveTakesDown
    <2>4. ASSUME NEW e \in Entries, Promote(e)
          PROVE  D!PutUp \/ UNCHANGED <<held, ReleaseIn(live)>>
        BY <2>4, PromotePutsUp
    <2> QED
        BY <1>3, <2>1, <2>2, <2>3, <2>4 DEF GetTarStep, D!Next
<1>4. CASE Bystander
    BY <1>4, BystanderStep
<1>5. ASSUME NEW w \in Writers, Spawn(w)
      PROVE  UNCHANGED <<held, ReleaseIn(live)>>
    BY <1>5 DEF Spawn, StartWriter
<1>6. CASE Restart
    <2>1. held' \in CIDs \cup {None} /\ UNCHANGED live
        BY <1>6 DEF Restart
    <2>2. D!Hold
        BY <2>1 DEF D!Hold
    <2> QED
        BY <2>2 DEF D!Next
<1> QED
    BY <1>1, <1>2, <1>3, <1>4, <1>5, <1>6, StepCases DEF D!Next

\* Entry by entry, with every failure, the directory puts up whole releases only,
\* of these only the one held, and takes the old one down before.
THEOREM ServeDirImplementsSiteDir == Spec => ImplementsSiteDir
<1>1. Init => D!Init
    <2> SUFFICES ASSUME Init PROVE D!Init
        OBVIOUS
    <2>1. live \in [Entries -> CIDs \cup {None}] /\ \A e \in Entries : live[e] = None
        BY DEF Init, Absent
    <2>2. ASSUME NEW c \in CIDs, Site[c] # {}
          PROVE  \E e \in Entries : live[e] # AllOf(c)[e]
        <3>1. PICK e \in Site[c] : TRUE
            BY <2>2
        <3>2. e \in Entries /\ AllOf(c)[e] = c
            BY <3>1, SiteAssumption DEF AllOf
        <3> QED
            BY <2>1, <3>2, NoneAssumption
    <2> QED
        BY <2>1, <2>2, NotUp DEF Init, D!Init
<1>2. Spec => []IInv
    BY ServeDirInvariant
<1>3. IInv /\ [Next]_vars => [D!Next]_(D!vars)
    BY SiteDirStep
<1> QED
    BY <1>1, <1>2, <1>3, PTL DEF Spec, ImplementsSiteDir, D!Spec
=============================================================================
