----------------------- MODULE AssetSelectionProofs -----------------------
(***************************************************************************)
(* Proofs about AssetSelection, for any phones, compatibility tables and   *)
(* files: what an install builds, and for which device.                    *)
(***************************************************************************)
EXTENDS AssetSelection, FiniteSetTheorems, TLAPS

\* A table that leaves none of its builds, models and products empty, like the
\* one in config/.  The resolver does not ask for it, and takes a field that was
\* not reported for an empty one: a table with an empty model would be for
\* every phone that does not say its own.
NothingEmpty ==
  \A t \in Tables : \A i \in DOMAIN t :
    t[i].build # "" /\ "" \notin t[i].models \cup t[i].products

-----------------------------------------------------------------------------
(***************************************************************************)
(* The inductive invariant                                                 *)
(***************************************************************************)

\* What the command line may name.
Asked ==
  /\ asked \in DOMAIN Devices \cup {None}
  /\ supplied \in Paths

\* The session knows of its device what that has reported, its board for its
\* model perhaps, and nothing of another one.
Reported ==
  pc \in {"informed", "resolved", "built"} =>
    \A f \in Fields :
      \/ info[f] \in {"", Devices[udid][f]}
      \/ f = "hardware" /\ info[f] = Devices[udid].board

\* The group that was selected is for the device as it was reported.
Selected ==
  pc \in {"resolved", "built"} => group # None /\ Fits(group, info)

\* Until it is unpacked, the supplied file has the recorded hash, if it is the
\* asset and nobody replaced it.
Unaltered ==
  /\ pc = "resolved" /\ supplied = group.asset /\ group.sha256 # None /\ ~touched
  => disk[supplied] = group.sha256

SelectionInv ==
  /\ TypeOK
  /\ Asked
  /\ Reported
  /\ Selected
  /\ Unaltered
  /\ RecordedContent

-----------------------------------------------------------------------------
(***************************************************************************)
(* Lemmas about the operators                                              *)
(***************************************************************************)

\* The bundles of a file are finitely many.
LEMMA BundlesOfFile ==
  ASSUME NEW file \in Files
  PROVE  /\ file.payload \subseteq Bundle /\ IsFiniteSet(file.payload)
         /\ file.elsewhere \subseteq Bundle /\ IsFiniteSet(file.elsewhere)
<1>1. /\ file.payload \cup file.elsewhere \subseteq Bundle
      /\ IsFiniteSet(file.payload \cup file.elsewhere)
  BY ConstantAssumption
<1>2. /\ file.payload \in SUBSET (file.payload \cup file.elsewhere)
      /\ file.elsewhere \in SUBSET (file.payload \cup file.elsewhere)
  OBVIOUS
<1>3. IsFiniteSet(file.payload) /\ IsFiniteSet(file.elsewhere)
  BY <1>1, <1>2, FS_Subset
<1>. QED  BY <1>1, <1>3

\* Where the unpacking looks: at an archive's payload, or else anywhere in it,
\* or at a directory that is a bundle itself.
LEMMA FoundWhere ==
  ASSUME NEW name, NEW file \in Files
  PROVE  \/ /\ name \in Ipcc /\ file.kind = "zip"
            /\ Found(name, file)
                 = IF file.payload # {} THEN file.payload ELSE file.elsewhere
         \/ /\ name = Lab /\ file.kind = "directory"
            /\ Found(name, file) = file.payload
         \/ Found(name, file) = {}
<1>1. CASE name \in Ipcc /\ file.kind = "zip"
  BY <1>1 DEF Found
<1>2. CASE name = Lab /\ file.kind = "directory"
  BY <1>2 DEF Found
<1>3. CASE ~(name \in Ipcc /\ file.kind = "zip") /\ ~(name = Lab /\ file.kind = "directory")
  BY <1>3 DEF Found
<1>. QED  BY <1>1, <1>2, <1>3

LEMMA FoundFinite ==
  ASSUME NEW name, NEW file \in Files
  PROVE  Found(name, file) \subseteq Bundle /\ IsFiniteSet(Found(name, file))
BY FoundWhere, BundlesOfFile, FS_EmptySet

\* If one bundle is found, it is all of the payload.
LEMMA FoundAlone ==
  ASSUME NEW name, NEW file \in Files, Cardinality(Found(name, file)) = 1,
         NEW b \in Found(name, file)
  PROVE  /\ Found(name, file) = {b}
         /\ b \in Bundle
         /\ b \in file.payload \cup file.elsewhere
         /\ \A c \in file.payload : c = b
<1>1. Found(name, file) = {b}
  BY FoundFinite, FS_Singleton
<1>2. b \in Bundle
  BY FoundFinite
<1>3. CASE Found(name, file) = IF file.payload # {} THEN file.payload ELSE file.elsewhere
  BY <1>1, <1>2, <1>3
<1>4. CASE Found(name, file) = file.payload
  BY <1>1, <1>2, <1>4
<1>. QED  BY <1>1, <1>2, <1>3, <1>4, FoundWhere

\* The inspector's search finds it, too.
LEMMA InspectFindsIt ==
  ASSUME NEW name, NEW file \in Files, NEW b, Found(name, file) = {b}
  PROVE  b \in inspect(name, file)
<1>1. CASE name \in Ipcc /\ file.kind = "zip"
  <2>1. find_payload_bundle(file) = {b}
    BY <1>1 DEF Found, find_payload_bundle
  <2>2. inspect(name, file)
          = {c \in find_payload_bundle(file) : find_payload_bundle(file) = {c}}
    BY <1>1 DEF inspect
  <2>. QED  BY <2>1, <2>2
<1>2. CASE name = Lab /\ file.kind = "directory"
  <2>1. name \notin Ipcc
    BY <1>2, ConstantAssumption
  <2>2. file.payload = {b}
    BY <1>2, <2>1 DEF Found
  <2>3. inspect(name, file) = file.payload
    BY <1>2, <2>1 DEF inspect
  <2>. QED  BY <2>2, <2>3
<1>3. CASE ~(name \in Ipcc /\ file.kind = "zip") /\ ~(name = Lab /\ file.kind = "directory")
  BY <1>3 DEF Found
<1>. QED  BY <1>1, <1>2, <1>3

\* What Materialize does if it does not refuse.
LEMMA MaterializeBuilds ==
  ASSUME TypeOK, Asked, Materialize, pc' = "built"
  PROVE  /\ pc = "resolved"
         /\ disk[supplied] \in Files
         /\ Cardinality(Found(supplied.name, disk[supplied])) = 1
         /\ bundle' \in Found(supplied.name, disk[supplied])
         /\ Valid(bundle')
<1>1. CASE disk[supplied] = None
  BY <1>1, FS_EmptySet DEF Materialize
<1>2. CASE disk[supplied] # None
  BY <1>2 DEF Materialize, TypeOK, Asked
<1>. QED  BY <1>1, <1>2

-----------------------------------------------------------------------------
(***************************************************************************)
(* Every step keeps the invariant                                          *)
(***************************************************************************)
\* Before a device is connected nothing is known of one.
THEOREM SelectionInvInit == Init => SelectionInv
BY DEF Init, SelectionInv, TypeOK, Asked, Reported, Selected, Unaltered,
       RecordedContent, Unreported

LEMMA ConnectKeeps ==
  ASSUME SelectionInv, Connect
  PROVE  SelectionInv'
<1>1. \A twice \in BOOLEAN : Selectable(twice) \subseteq DOMAIN Devices
  BY DEF Selectable, SelectionInv, TypeOK, Asked
<1>2. TypeOK'
  BY <1>1, ConstantAssumption DEF SelectionInv, TypeOK, Connect
<1>. QED  BY <1>2 DEF SelectionInv, Asked, Connect, Reported, Selected, Unaltered,
                      RecordedContent

LEMMA InfoKeeps ==
  ASSUME SelectionInv, get_device_info
  PROVE  SelectionInv'
<1>1. CASE pc' = "informed"
  <2>1. pc = "session" /\ udid' = udid /\ group' = group
    BY DEF get_device_info
  <2>2. PICK missing \in SUBSET (Fields \cup {"board"}) :
          info' = [f \in Fields |->
            CASE f \notin missing -> Devices[udid][f]
              [] f \in missing /\ f = "hardware" /\ "board" \notin missing ->
                   Devices[udid].board
              [] OTHER -> ""]
    BY <1>1 DEF get_device_info, parse_lockdown_info, Answering
  <2>3. TypeOK'
    <3>1. DOMAIN info' = Fields
      BY <2>2
    <3>. QED  BY <1>1, <2>1, <3>1 DEF SelectionInv, TypeOK, get_device_info
  <2>4. Reported'
    BY <1>1, <2>1, <2>2 DEF Reported
  <2>. QED  BY <1>1, <2>3, <2>4
            DEF SelectionInv, Asked, get_device_info, Selected, Unaltered, RecordedContent
<1>2. CASE pc' = "refused" /\ info' = info
  BY <1>2 DEF SelectionInv, TypeOK, Asked, get_device_info, Reported, Selected,
              Unaltered, RecordedContent
<1>. QED  BY <1>1, <1>2 DEF get_device_info

LEMMA ResolveKeeps ==
  ASSUME SelectionInv, Resolve
  PROVE  SelectionInv'
<1>1. CASE pc' = "resolved"
  <2>1. PICK g \in Matches : HashOk(g) /\ group' = g /\ touched' = (disk[g.asset] = None)
    BY <1>1 DEF Resolve
  <2>2. PICK i \in DOMAIN table : g = table[i] /\ Fits(g, info)
    BY DEF Matches
  <2>3. g # None
    BY <2>2, ConstantAssumption DEF SelectionInv, TypeOK
  <2>4. TypeOK'
    BY <1>1, <2>1, <2>2 DEF SelectionInv, TypeOK, Resolve
  <2>5. Selected'
    BY <1>1, <2>1, <2>2, <2>3 DEF Selected, Resolve, Fits
  <2>6. Unaltered'
    BY <2>1 DEF Unaltered, Resolve, HashOk
  <2>. QED  BY <1>1, <2>4, <2>5, <2>6
            DEF SelectionInv, Asked, Resolve, Reported, RecordedContent
<1>2. CASE pc' = "refused" /\ group' = group /\ touched' = touched
  BY <1>2 DEF SelectionInv, TypeOK, Asked, Resolve, Reported, Selected,
              Unaltered, RecordedContent
<1>. QED  BY <1>1, <1>2 DEF Resolve

LEMMA MaterializeKeeps ==
  ASSUME SelectionInv, Materialize
  PROVE  SelectionInv'
<1>1. CASE pc' = "built"
  <2>1. /\ pc = "resolved"
        /\ disk[supplied] \in Files
        /\ Cardinality(Found(supplied.name, disk[supplied])) = 1
        /\ bundle' \in Found(supplied.name, disk[supplied])
    BY <1>1, MaterializeBuilds DEF SelectionInv
  <2>2. /\ bundle' \in Bundle
        /\ bundle' \in disk[supplied].payload \cup disk[supplied].elsewhere
    BY <2>1, FoundAlone
  <2>3. UNCHANGED <<connected, disk, table, asked, supplied, udid, info, group, touched>>
    BY DEF Materialize
  <2>4. TypeOK'
    BY <1>1, <2>1, <2>2, <2>3 DEF SelectionInv, TypeOK
  <2>5. RecordedContent'
    BY <2>1, <2>2, <2>3 DEF SelectionInv, RecordedContent, Unaltered
  <2>6. Selected'
    BY <2>1, <2>3 DEF SelectionInv, Selected, Fits
  <2>. QED  BY <1>1, <2>1, <2>3, <2>4, <2>5, <2>6
            DEF SelectionInv, Asked, Reported, Unaltered
<1>2. CASE pc' = "refused" /\ bundle' = bundle
  BY <1>2 DEF SelectionInv, TypeOK, Asked, Materialize, Reported, Selected,
              Unaltered, RecordedContent
<1>. QED  BY <1>1, <1>2 DEF Materialize

LEMMA ReplaceKeeps ==
  ASSUME SelectionInv, Replace
  PROVE  SelectionInv'
<1>1. PICK p \in Paths, f \in Files \cup {None} :
        /\ disk' = [disk EXCEPT ![p] = f]
        /\ touched' = (touched \/ (group # None /\ p = group.asset))
  BY DEF Replace
<1>2. /\ pc \in {"start", "session", "informed", "resolved"}
      /\ UNCHANGED <<connected, table, asked, supplied, udid, info, group, bundle, pc>>
  BY DEF Replace, Working
<1>3. TypeOK'
  BY <1>1, <1>2 DEF SelectionInv, TypeOK
<1>4. Unaltered'
  <2>1. SUFFICES ASSUME pc' = "resolved", supplied' = group'.asset,
                        group'.sha256 # None, ~touched'
                 PROVE  disk'[supplied'] = group'.sha256
    BY DEF Unaltered
  <2>2. group # None
    BY <1>2, <2>1 DEF SelectionInv, Selected
  <2>3. p # supplied /\ ~touched
    BY <1>1, <1>2, <2>1, <2>2
  <2>. QED  BY <1>1, <1>2, <2>1, <2>3 DEF SelectionInv, Unaltered, TypeOK
<1>5. Selected'
  BY <1>2 DEF SelectionInv, Selected, Fits
<1>. QED  BY <1>2, <1>3, <1>4, <1>5 DEF SelectionInv, Asked, Reported, RecordedContent

\* The command's steps keep the invariant, and so do phones that come and go and
\* files that are replaced between them.
THEOREM SelectionInvNext == SelectionInv /\ [Next]_vars => SelectionInv'
<1>. SUFFICES ASSUME SelectionInv, [Next]_vars
              PROVE  SelectionInv'
  OBVIOUS
<1>1. CASE ListForWindow
  BY <1>1 DEF SelectionInv, TypeOK, Asked, ListForWindow, Reported, Selected, Fits,
              Unaltered, RecordedContent
<1>2. CASE Plug
  <2>1. connected' \subseteq DOMAIN Devices
    BY <1>2 DEF Plug, SelectionInv, TypeOK
  <2>. QED  BY <1>2, <2>1 DEF SelectionInv, TypeOK, Asked, Plug, Working, Reported,
              Selected, Fits, Unaltered, RecordedContent
<1>3. CASE UNCHANGED vars
  BY <1>3 DEF vars, SelectionInv, TypeOK, Asked, Reported, Selected, Fits, Unaltered,
              RecordedContent
<1>. QED  BY <1>1, <1>2, <1>3, ConnectKeeps, InfoKeeps, ResolveKeeps,
             MaterializeKeeps, ReplaceKeeps DEF Next

\* The invariant, from the first state on.
THEOREM SelectionInvariant == Spec => []SelectionInv
<1>. QED  BY SelectionInvInit, SelectionInvNext, PTL DEF Spec

\* Nothing is asked without a device, and the group is one of the table's.
THEOREM SelectionTyped == Spec => []TypeOK
<1>1. SelectionInv => TypeOK
  BY DEF SelectionInv
<1>. QED  BY <1>1, SelectionInvariant, PTL

-----------------------------------------------------------------------------
(***************************************************************************)
(* What is selected and what is built                                      *)
(***************************************************************************)

\* The asset is for the device of the session, whatever phones come and go
\* between the looks and whatever the device leaves out of its report, if the
\* table names no empty build, model or product.
THEOREM SelectionIsOfDevice ==
  ASSUME NothingEmpty
  PROVE  Spec => []SelectedForThisDevice
<1>1. ASSUME SelectionInv
      PROVE  SelectedForThisDevice
  <2>1. SUFFICES ASSUME pc \in {"resolved", "built"}
                 PROVE  /\ Devices[udid].build = group.build
                        /\ {Devices[udid].hardware, Devices[udid].board}
                             \cap group.models # {}
                        /\ group.products # {} => Devices[udid].product \in group.products
                        /\ group.version # "" /\ info.version # ""
                             => /\ {Devices[udid].version, group.version}
                                     \subseteq DOMAIN Version
                                /\ Version[Devices[udid].version]
                                     = Version[group.version]
    BY DEF SelectedForThisDevice
  <2>2. Fits(group, info) /\ group # None
    BY <1>1, <2>1 DEF SelectionInv, Selected
  <2>3. group.build # "" /\ "" \notin group.models \cup group.products
    BY <1>1, <2>2, NothingEmpty DEF SelectionInv, TypeOK, NothingEmpty
  <2>4. /\ info.build \in {"", Devices[udid].build}
        /\ info.hardware \in {"", Devices[udid].hardware, Devices[udid].board}
        /\ info.product \in {"", Devices[udid].product}
        /\ info.version \in {"", Devices[udid].version}
    BY <1>1, <2>1 DEF SelectionInv, Reported, Fields
  <2>. QED  BY <2>2, <2>3, <2>4 DEF Fits, SameVersion, Versions
<1>. QED  BY <1>1, SelectionInvariant, PTL

\* The bundle has the recorded hash if nobody touched the asset in between.
THEOREM ContentIsRecorded == Spec => []RecordedContent
<1>1. SelectionInv => RecordedContent
  BY DEF SelectionInv
<1>. QED  BY <1>1, SelectionInvariant, PTL

LEMMA OnlyMaterializeBuilds ==
  ASSUME SelectionInv, Next, pc' = "built", pc # "built"
  PROVE  Materialize
BY DEF Next, Connect, ListForWindow, get_device_info, Resolve, Plug, Replace

\* What is built is a complete CarrierLab bundle and the only one of its payload,
\* whatever the file was replaced by since it was resolved.
THEOREM BuiltIsCarrierLab == Spec => OnlyCarrierLab
<1>1. ASSUME SelectionInv, Next, pc' = "built", pc # "built"
      PROVE  /\ bundle'.name = Lab /\ bundle'.identifier = LabId
             /\ bundle'.plists /\ bundle'.sims
             /\ bundle' \in disk[supplied].payload \cup disk[supplied].elsewhere
             /\ \A b \in disk[supplied].payload : b = bundle'
  <2>1. /\ disk[supplied] \in Files
        /\ Cardinality(Found(supplied.name, disk[supplied])) = 1
        /\ bundle' \in Found(supplied.name, disk[supplied])
        /\ Valid(bundle')
    BY <1>1, OnlyMaterializeBuilds, MaterializeBuilds DEF SelectionInv
  <2>. QED  BY <2>1, FoundAlone DEF Valid
<1>2. SelectionInv /\ [Next]_vars
        => [pc' = "built" /\ pc # "built" =>
              LET file == disk[supplied] IN
              /\ bundle'.name = Lab /\ bundle'.identifier = LabId
              /\ bundle'.plists /\ bundle'.sims
              /\ bundle' \in file.payload \cup file.elsewhere
              /\ \A b \in file.payload : b = bundle']_vars
  BY <1>1
<1>. QED  BY <1>2, SelectionInvariant, PTL DEF Spec, OnlyCarrierLab

\* The two searches for the bundle agree on every file that is built from.
THEOREM BuiltIsChecked == Spec => BuiltPassesCheck
<1>1. ASSUME SelectionInv, Next, pc' = "built", pc # "built"
      PROVE  CheckAccepts(supplied.name, disk[supplied])
  <2>1. /\ disk[supplied] \in Files
        /\ Cardinality(Found(supplied.name, disk[supplied])) = 1
        /\ bundle' \in Found(supplied.name, disk[supplied])
        /\ Valid(bundle')
    BY <1>1, OnlyMaterializeBuilds, MaterializeBuilds DEF SelectionInv
  <2>2. Found(supplied.name, disk[supplied]) = {bundle'}
    BY <2>1, FoundAlone
  <2>3. bundle' \in inspect(supplied.name, disk[supplied])
    BY <2>1, <2>2, InspectFindsIt
  <2>. QED  BY <2>1, <2>3 DEF Valid, CheckAccepts
<1>2. SelectionInv /\ [Next]_vars
        => [pc' = "built" /\ pc # "built" =>
              CheckAccepts(supplied.name, disk[supplied])]_vars
  BY <1>1
<1>. QED  BY <1>2, SelectionInvariant, PTL DEF Spec, BuiltPassesCheck
=============================================================================
