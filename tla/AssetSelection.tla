--------------------------- MODULE AssetSelection ---------------------------
(***************************************************************************)
(* Which device an install works on and which bundle it gets: the choice   *)
(* of a connected device (device/), the compatibility table                *)
(* (carrier/resolver.py) and the unpacking of the supplied file            *)
(* (carrier/migration.py).  Phones come and go and files are replaced      *)
(* while the command runs, between its looks at them.                      *)
(*                                                                         *)
(* The table, families of builds of groups in the YAML file, is the        *)
(* sequence of its groups in the order of the file, each with the build    *)
(* and the version above it.  What a file holds stands for its hash.       *)
(***************************************************************************)
EXTENDS Sequences, Integers, FiniteSets

CONSTANTS
  Devices,    \* function: the phones by UDID, each with what it is
  Version,    \* function: the version that a string means, if it means one
  Tables,     \* the compatibility tables that may be configured
  Paths,      \* paths of files: records of a dir and a name
  Ipcc,       \* the names that end in .ipcc
  Lab,        \* CarrierLab.bundle
  LabId,      \* com.apple.CarrierLab
  Files,      \* what there may be at a path
  None        \* no value: no --udid, no file, no hash in the table

Fields == {"product", "hardware", "version", "build"}

\* A bundle: whether it has both property lists, their two entries that are
\* validated, and all else.
Bundle ==
  [name : STRING, plists : BOOLEAN, identifier : STRING, sims : BOOLEAN, data : STRING]

ASSUME ConstantAssumption ==
  /\ \A u \in DOMAIN Devices : DOMAIN Devices[u] = Fields \cup {"board"}
  /\ \A t \in Tables : \A i \in DOMAIN t :
       /\ DOMAIN t[i] = {"build", "version", "models", "products", "asset", "sha256"}
       /\ t[i] # None
  /\ \A p \in Paths : DOMAIN p = {"dir", "name"}
  /\ \A f \in Files : /\ f.kind \in {"zip", "directory", "other"}
                      /\ f.payload \cup f.elsewhere \subseteq Bundle
                      /\ IsFiniteSet(f.payload \cup f.elsewhere)
  /\ None \notin DOMAIN Devices /\ None \notin Files
  /\ Lab \notin Ipcc

VARIABLES
  connected,  \* UDIDs of the phones that are plugged in
  disk,       \* what is at each path, or None
  table,      \* the configured table
  asked,      \* --udid, or None
  supplied,   \* the path on the command line
  udid,       \* the session's device
  info,       \* the session's cached DeviceInfo; "" where nothing was reported
  group,      \* the table's group that was selected, or None
  touched,    \* history: its asset was missing then, or was replaced since
  bundle,     \* the bundle that goes into the desired tree, or None
  pc

vars == <<connected, disk, table, asked, supplied, udid, info, group, touched,
          bundle, pc>>

Unreported == [f \in Fields |-> ""]

Init ==
  /\ connected \in SUBSET DOMAIN Devices
  /\ disk \in [Paths -> Files \cup {None}]
  /\ table \in Tables
  /\ asked \in DOMAIN Devices \cup {None}
  /\ supplied \in Paths
  /\ udid = None
  /\ info = Unreported
  /\ group = None
  /\ touched = FALSE
  /\ bundle = None
  /\ pc = "start"

-----------------------------------------------------------------------------
(***************************************************************************)
(* The device                                                              *)
(***************************************************************************)

SelectableOrNone(twice) ==
  IF asked # None
    THEN IF connected = {} \/ asked \in connected THEN {asked} ELSE {}
    ELSE CASE connected = {} -> {None}
           [] Cardinality(connected) = 1 /\ ~twice -> connected
           [] OTHER -> {}

\* The UDIDs _select_udid may return; none when it raises.  A phone that is
\* listed twice, on the cable and on the network, counts as two.
Selectable(twice) ==
  IF asked # None
    THEN IF connected = {} \/ asked \in connected THEN {asked} ELSE {}
    ELSE IF Cardinality(connected) = 1 /\ ~twice THEN connected ELSE {}

Connect ==
  /\ pc = "start"
  /\ \E twice \in BOOLEAN :
       \/ /\ Selectable(twice) = {}
          /\ pc' = "refused"
          /\ UNCHANGED udid
       \/ /\ udid' \in Selectable(twice)
          /\ pc' = "session"
  /\ UNCHANGED <<connected, disk, table, asked, supplied, info, group, touched, bundle>>

\* refresh() of the window: with one phone in the list it connects by the UDID
\* of that phone, with the same rules, and goes as far as Resolve does.
ListForWindow ==
  /\ pc = "start" /\ asked = None
  /\ Cardinality(connected) = 1
  /\ asked' \in connected
  /\ UNCHANGED <<connected, disk, table, supplied, udid, info, group, touched, bundle, pc>>

\* The devices that may answer a call of the session, which carries its UDID.
Answering == connected \cap {udid}

\* What the phone's answer says of it, without the fields that are missing.  A
\* board stands in for the hardware model.
parse_lockdown_info(phone, missing) ==
  [f \in Fields |->
     CASE f \notin missing -> phone[f]
       [] f \in missing /\ f = "hardware" /\ "board" \notin missing -> phone.board
       [] OTHER -> ""]

\* The phone is asked once and may leave fields out.  Without it the call fails.
get_device_info ==
  /\ pc = "session"
  /\ \/ /\ Answering = {}
        /\ pc' = "refused"
        /\ UNCHANGED info
     \/ /\ \E u \in Answering : \E missing \in SUBSET (Fields \cup {"board"}) :
             info' = parse_lockdown_info(Devices[u], missing)
        /\ pc' = "informed"
  /\ UNCHANGED <<connected, disk, table, asked, supplied, udid, group, touched, bundle>>

-----------------------------------------------------------------------------
(***************************************************************************)
(* The compatibility table                                                 *)
(***************************************************************************)
\* A version is compared if both have one, as versions.  One that is none makes
\* the resolver raise.
Versions(g, d) == {g.version, d.version}

SameVersion(g, d) ==
  \/ "" \in Versions(g, d)
  \/ Versions(g, d) \subseteq DOMAIN Version /\ Version[d.version] = Version[g.version]

Raises(g, d) ==
  /\ d.build = g.build
  /\ "" \notin Versions(g, d) /\ ~(Versions(g, d) \subseteq DOMAIN Version)

FitsIfReported(g, d) ==
  /\ d.build = g.build
  /\ SameVersion(g, d)
  /\ d.hardware \in g.models
  /\ g.products = {} \/ d.product \in g.products \cup {""}

\* Group g of the table is for a device d.
Fits(g, d) ==
  /\ d.build = g.build
  /\ SameVersion(g, d)
  /\ d.hardware \in g.models
  /\ g.products = {} \/ d.product \in g.products

\* The first group of the table for the device, as a set; none if the resolver
\* raises before it has come to it.
Matches ==
  { table[i] : i \in {j \in DOMAIN table :
      /\ Fits(table[j], info)
      /\ \A k \in 1 .. j - 1 : ~Fits(table[k], info) /\ ~Raises(table[k], info)} }

HashIgnored(g) == TRUE

\* The asset of a group may be missing, and the group may have no hash; a hash
\* of a directory cannot be taken.
HashOk(g) == g.sha256 = None \/ disk[g.asset] \in {None, g.sha256}

\* resolver.explain, and the install's comparison of its answer with the file
\* it was given, by name.
Resolve ==
  /\ pc = "informed"
  /\ \/ /\ \E g \in Matches :
             /\ HashOk(g)
             /\ g.asset.name = supplied.name
             /\ group' = g
             /\ touched' = (disk[g.asset] = None)
        /\ pc' = "resolved"
     \/ /\ \A g \in Matches : ~HashOk(g) \/ g.asset.name # supplied.name
        /\ pc' = "refused"
        /\ UNCHANGED <<group, touched>>
  /\ UNCHANGED <<connected, disk, table, asked, supplied, udid, info, bundle>>

-----------------------------------------------------------------------------
(***************************************************************************)
(* The asset                                                               *)
(***************************************************************************)
\* The bundles _materialize_asset finds in a file of that name: those in an
\* archive's Payload or else anywhere in it, or a directory that is one.
Found(name, file) ==
  CASE name \in Ipcc /\ file.kind = "zip" ->
         IF file.payload # {} THEN file.payload ELSE file.elsewhere
    [] name = Lab /\ file.kind = "directory" -> file.payload
    [] OTHER -> {}

NamedLab(b) == b.name = Lab /\ b.plists

\* validate_carrierlab_bundle
Valid(b) == b.name = Lab /\ b.plists /\ b.identifier = LabId /\ b.sims

\* After the backup; the file is read again, whatever it is by now.
Materialize ==
  /\ pc = "resolved"
  /\ LET found == IF disk[supplied] = None THEN {} ELSE Found(supplied.name, disk[supplied]) IN
     \/ /\ Cardinality(found) = 1
        /\ \E b \in found : Valid(b) /\ bundle' = b
        /\ pc' = "built"
     \/ /\ ~(Cardinality(found) = 1 /\ \A b \in found : Valid(b))
        /\ pc' = "refused"
        /\ UNCHANGED bundle
  /\ UNCHANGED <<connected, disk, table, asked, supplied, udid, info, group, touched>>

-----------------------------------------------------------------------------
(***************************************************************************)
(* bundle check: the inspector has its own copy of the search for a bundle *)
(***************************************************************************)
find_payload_bundleAnywhere(file) == file.payload \cup file.elsewhere

find_payload_bundle(file) ==
  IF file.payload # {} THEN file.payload ELSE file.elsewhere

\* The bundles inspect may report on: one of an archive that has just one, or
\* any directory.  Empty when it raises.
inspect(name, file) ==
  CASE name \in Ipcc /\ file.kind = "zip" ->
         {b \in find_payload_bundle(file) : find_payload_bundle(file) = {b}}
    [] name \notin Ipcc /\ file.kind = "directory" -> file.payload
    [] OTHER -> {}

\* cmd_bundle_check calls the file compatible, for a device that resolves.
CheckAccepts(name, file) == \E b \in inspect(name, file) : b.identifier = LabId

(***************************************************************************)
(* What happens around the command                                         *)
(***************************************************************************)
Working == pc \in {"start", "session", "informed", "resolved"}

Plug ==
  /\ Working
  /\ \E u \in DOMAIN Devices :
       connected' = IF u \in connected THEN connected \ {u} ELSE connected \cup {u}
  /\ UNCHANGED <<disk, table, asked, supplied, udid, info, group, touched, bundle, pc>>

Replace ==
  /\ Working
  /\ \E p \in Paths, f \in Files \cup {None} :
       /\ disk' = [disk EXCEPT ![p] = f]
       /\ touched' = (touched \/ (group # None /\ p = group.asset))
  /\ UNCHANGED <<connected, table, asked, supplied, udid, info, group, bundle, pc>>

Next ==
  \/ Connect \/ ListForWindow \/ get_device_info \/ Resolve \/ Materialize
  \/ Plug \/ Replace

Spec == Init /\ [][Next]_vars

-----------------------------------------------------------------------------
(***************************************************************************)
(* Properties                                                              *)
(***************************************************************************)

\* The values the variables range over; nothing is asked without a device, and
\* the asset comes from the configured table.
TypeOK ==
  /\ connected \subseteq DOMAIN Devices
  /\ disk \in [Paths -> Files \cup {None}]
  /\ table \in Tables
  /\ udid \in DOMAIN Devices \cup {None}
  /\ pc \notin {"start", "refused"} => udid # None
  /\ DOMAIN info = Fields
  /\ group \in {table[i] : i \in DOMAIN table} \cup {None}
  /\ touched \in BOOLEAN
  /\ bundle \in Bundle \cup {None}
  /\ pc \in {"start", "session", "informed", "resolved", "built", "refused"}

\* Whatever phones come and go, the asset was selected for the device of the
\* session: its real build, model or board, and product are those of the table's
\* group, and its version means the same if it was reported.  No other field
\* that was not reported is taken for a match.
SelectedForThisDevice ==
  pc \in {"resolved", "built"} =>
    LET d == Devices[udid] IN
    /\ d.build = group.build
    /\ {d.hardware, d.board} \cap group.models # {}
    /\ group.products # {} => d.product \in group.products
    /\ group.version # "" /\ info.version # "" =>
         /\ {d.version, group.version} \subseteq DOMAIN Version
         /\ Version[d.version] = Version[group.version]

\* The bundle comes from a file with the recorded hash if that is the file
\* supplied and nobody replaced it after the comparison.
RecordedContent ==
  pc = "built" /\ supplied = group.asset /\ group.sha256 # None /\ ~touched =>
    bundle \in group.sha256.payload \cup group.sha256.elsewhere

\* Only a complete CarrierLab bundle is built, and only if the supplied file
\* leaves no choice; the file has the asset's name, and may have been replaced
\* by anything since it was resolved.
OnlyCarrierLab ==
  [][pc' = "built" /\ pc # "built" =>
       LET file == disk[supplied] IN
       /\ bundle'.name = Lab /\ bundle'.identifier = LabId
       /\ bundle'.plists /\ bundle'.sims
       /\ bundle' \in file.payload \cup file.elsewhere
       /\ \A b \in file.payload : b = bundle']_vars

\* A file an install builds from is one that "bundle check" calls compatible, for
\* a device that resolves: it is not told apart by two searches for its bundle.
\* (Not the other way round: an install looks at more than the check does.)
BuiltPassesCheck ==
  [][pc' = "built" /\ pc # "built" =>
       CheckAccepts(supplied.name, disk[supplied])]_vars
=============================================================================
