------------------------------- MODULE IfNamer -------------------------------
(***************************************************************************)
(* InterfaceNamer, src/configd/Plugins/InterfaceNamer/ifnamer.c: the      *)
(* configd plugin that gives each network interface a persistent BSD unit *)
(* number.  Every callback runs on the plugin's one run-loop thread; the  *)
(* kernel and IOKit act concurrently: interfaces attach, the registry     *)
(* goes busy and quiet, the IONetworkStack object appears.  IOKit         *)
(* notifications are messages queued on the S_notify port (events); the   *)
(* run loop takes one when the thread is idle.  A callback that calls     *)
(* another (setup_IOKit calls all three, quietCallback calls              *)
(* interfaceArrivalCallback, each callback calls updateInterfaces) pushes *)
(* it on todo, the thread's pending calls.                                *)
(*                                                                         *)
(* All interfaces are of one IOKit interface type (units are allocated    *)
(* per type, so one type is the interesting case); an interface is its    *)
(* hardware address.  Database entries (S_dblist, NetworkInterfaces.plist)*)
(* are records [addr, unit, builtin, info, active], info standing for the *)
(* SCNetworkInterfaceInfo (vendor/product) matchKnown compares.  Kind is  *)
(* the kSCNetworkInterfaceType (Ethernet or IEEE80211) and Mac the bytes  *)
(* of the hardware address, which updatePlatformUUID sorts.               *)
(***************************************************************************)
EXTENDS Integers, Sequences, FiniteSets, FiniteSetsExt, SequencesExt, MacAddress,
        VirtualConfig

CONSTANTS
  Ifs,        \* interfaces that may attach
  Ghosts,     \* addresses known only from the database (absent adaptors)
  Builtin,    \* the built-in interfaces (and ghosts)
  Info,       \* [Ifs \cup Ghosts -> info values]
  Order,      \* the sort order of _SCNetworkInterfaceCompare: a sequence of Ifs
  BootDbs,    \* databases readInterfaceList may return (NONE: no file)
  StackStates,\* whether IONetworkStack exists when the plugin starts
  Flaky,      \* registration may fail transiently
  LookupFails,\* lookupIORegistryEntryID may miss the just-named interface
  MaxUnit,    \* units the kernel hands out: 0..MaxUnit
  MaxEvents,  \* bound on queued IOKit notifications
  Models,     \* hardware model names (sysctl hw.model)
  WriteFails, \* SCPreferencesCommitChanges may fail (read-only volume)
  MaxBoots,   \* bound on configd restarts plus reboots
  Kind,       \* [Ifs \cup Ghosts -> {"Ethernet", "IEEE80211"}]
  Mac,        \* [Ifs \cup Ghosts -> byte strings], one-to-one
  PlatformSetFails, \* IORegistryEntrySetCFProperty(IOPlatformUUID) may fail
  ModelFails, \* hw_model's sysctl(CTL_HW, HW_MODEL) may fail
  OpenFails,  \* IOServiceOpen on the IONetworkStack may fail
  PrefsSetup, \* outcomes of setup_Virtual: "ok", "nostore", "fail"
  IOKitSetupFails \* setup_IOKit may fail after reading the database

ASSUME Builtin \subseteq Ifs \cup Ghosts /\ Ifs \cap Ghosts = {}
ASSUME Order \in Seq(Ifs) /\ Cardinality(ToSet(Order)) = Len(Order)
                         /\ ToSet(Order) = Ifs

\* The retry bound of nameInterfaces: "retries++ < 5".
MaxRetries == 5

Units == 0 .. MaxUnit

Entry == [addr : Ifs \cup Ghosts, unit : Nat, builtin : BOOLEAN,
          info : Range(Info), active : BOOLEAN]

VARIABLES
  phase,      \* "boot" before setup_IOKit, then "run"; "stopped" if setup failed
  kunit,      \* the kernel's unit of each interface, NONE if unnamed
  attached,   \* interfaces published in the IORegistry
  unseen,     \* attached and not yet returned by the S_iter iterator
  stack,      \* IONetworkStack: "absent", "unseen" (not yet from S_stack), "seen"
  busy,       \* IOKit matching in progress
  events,     \* IOKit notifications queued on S_notify
  connect,    \* S_connect # MACH_PORT_NULL
  quietArmed, \* S_quiet # MACH_PORT_NULL, i.e. ~isQuiet()
  timer,      \* S_timer: "none", "armed", or "fired" (one-shot, now invalid)
  iflist,     \* S_iflist: a set of interfaces, or NONE
  plist,      \* the Interfaces array of NetworkInterfaces.plist, or NONE
  fileModel,  \* its Model key, or NONE
  hw,         \* the machine's hardware model
  boots,      \* configd restarts and reboots so far
  uuid,       \* IOPlatformUUID of the device-tree root (its bytes), or NONE
  promised,   \* history: the unit last committed to the plist for each
              \* interface on the current model, or NONE
  db,         \* S_dblist, or NONE
  prev,       \* S_prev_active_list, or NONE
  todo,       \* calls the run-loop thread has still to make
  pc,         \* "idle", "naming", "register" or "post" inside updateInterfaces
  idx,        \* nameInterfaces' loop index i (1-based)
  reg,        \* the registration in progress: [unit, dbdict, retries]
  smodel,     \* S_model: hw_model()'s cached result, NONE until sysctl succeeds
  scheduled   \* S_prefs is scheduled on the run loop (apply callbacks delivered)

vars == <<phase, kunit, attached, unseen, stack, busy, events, connect,
          quietArmed, timer, iflist, plist, fileModel, hw, boots, uuid,
          promised, db, prev, todo, pc, idx, reg, smodel, scheduled, vprefs,
          vcache, vactive, vnotify, vapplies>>

diskVars == <<plist, fileModel, promised>>

\* State that outlives a configd process.
bootVars == <<hw, boots, uuid>>

envVars == <<attached, unseen, stack, busy, events>>

----------------------------------------------------------------------------
\* S_dblist as the helpers read it: a NULL list has no entries.
Db == IF db = NONE THEN {} ELSE db

\* if_list after the sort in updateInterfaces.
List == IF iflist = NONE THEN <<>> ELSE SelectSeq(Order, LAMBDA i : i \in iflist)

IsBuiltin(a) == a \in Builtin

Named(u) == \E k \in Ifs : kunit[k] = u

\* createInterfaceDict for interface i with its kernel unit u.
EntryOf(i, u) ==
  [addr |-> i, unit |-> u, builtin |-> IsBuiltin(i), info |-> Info[i], active |-> TRUE]

\* lookupInterfaceByAddress: the entry with i's type and hardware address.
ByAddress(list, i) == {e \in list : e.addr = i}

\* lookupInterfaceByUnit: the entries with i's type and unit u (none for
\* a NULL list or an interface without a unit).
ByUnit(list, u) == IF list = NONE \/ u = NONE THEN {} ELSE {e \in list : e.unit = u}

\* Variant of replaceInterface without the removal of entries with i's unit.
replaceInterfaceByAddressOnly(i, u) ==
  {e \in Db : e.addr # i} \cup {EntryOf(i, u)}

\* replaceInterface: drop every entry with i's address, then every entry
\* with its unit, then insertInterface (the list is kept sorted by unit).
replaceInterface(i, u) ==
  ((Db \ ByAddress(Db, i)) \ ByUnit(Db, u)) \cup {EntryOf(i, u)}

\* lookupMatchingInterface with matchKnown / matchUnnamed: a single known
\* entry of the same info and built-in-ness, no other interface still to
\* be named after position n that looks the same, and the matched entry's
\* BSD name not in use (SIOCGIFFLAGS fails).
lookupMatchingInterface(i, n) ==
  LET matches == {e \in Db : e.info = Info[i] /\ e.builtin = IsBuiltin(i)}
      later   == {List[k] : k \in n + 1 .. Len(List)}
      twin    == \E k \in later : Info[k] = Info[i] /\ IsBuiltin(k) = IsBuiltin(i)
  IN  IF Cardinality(matches) = 1 /\ ~twin
      THEN LET m == CHOOSE e \in matches : TRUE
           IN  IF Named(m.unit) THEN NONE ELSE m
      ELSE NONE

\* builtinCount(if_list, last, type).
builtinCount(last) == Cardinality({k \in 1 .. last : IsBuiltin(List[k])})

\* getHighestUnitForType over S_dblist, NONE when it has no entry.
getHighestUnitForType == IF Db = {} THEN NONE ELSE Max({e.unit : e \in Db})

\* Variant of NextUnit that skips the reserved slots but not the units
\* already in the database.
NextUnitReservedOnly(i, n) ==
  IF IsBuiltin(i) THEN builtinCount(n - 1) ELSE builtinCount(Len(List))

\* The unit asked for a new interface at position n: built-in interfaces
\* take the reserved slots, others skip them and every known unit.
NextUnit(i, n) ==
  IF IsBuiltin(i) THEN builtinCount(n - 1)
  ELSE LET next == builtinCount(Len(List))
           high == getHighestUnitForType
       IN  IF high # NONE /\ high >= next THEN high + 1 ELSE next

\* isQuiet (l.1306-1310): S_quiet has been released.
isQuiet == ~quietArmed

\* The IONetworkStack's answer: a fixed unit must be free; "lowest unit"
\* gives the lowest free unit from the one asked.
Granted(u, fixed) ==
  LET free == {v \in u .. MaxUnit : ~Named(v)}
  IN  CASE fixed -> IF u \in free THEN u ELSE NONE
        [] free # {} -> Min(free)
        [] OTHER -> NONE

----------------------------------------------------------------------------
TypeOK ==
  /\ phase \in {"boot", "run", "stopped"}
  /\ kunit \in [Ifs -> Units \cup {NONE}]
  /\ attached \subseteq Ifs /\ unseen \subseteq attached
  /\ stack \in {"absent", "unseen", "seen"} /\ busy \in BOOLEAN
  /\ events \in Seq({"stack", "arrival", "quiet"}) /\ Len(events) <= MaxEvents
  /\ connect \in BOOLEAN /\ quietArmed \in BOOLEAN
  /\ timer \in {"none", "armed", "fired"}
  /\ iflist = NONE \/ iflist \subseteq attached
  /\ plist = NONE \/ plist \subseteq Entry
  /\ fileModel \in Models \cup {NONE} /\ hw \in Models
  /\ boots \in 0 .. MaxBoots
  /\ uuid = NONE \/ uuid \in {PlatformUUIDBytes(Mac[a]) : a \in Ifs \cup Ghosts}
  /\ promised \in [Ifs -> Units \cup {NONE}]
  /\ db = NONE \/ (db \subseteq Entry /\ \A e \in db : e.unit \in Units)
  /\ prev = NONE \/ prev \subseteq Entry
  /\ todo \in Seq({"stack", "arrival", "quiet", "uuid", "update"})
  /\ pc \in {"idle", "naming", "register", "post"}
  /\ reg = NONE \/ reg.retries \in 0 .. MaxRetries
  /\ vprefs \in [VKinds -> VConfigs \cup {NONE}]
  /\ vcache \in [VKinds -> VConfigs \cup {NONE}]
  /\ vactive \in [VKinds -> SUBSET Ifs \cup {NONE}]
  /\ vnotify \in BOOLEAN /\ vapplies \in 0 .. MaxApplies
  /\ smodel \in {hw, NONE} /\ scheduled \in BOOLEAN

Init ==
  /\ phase = "boot"
  /\ kunit = [i \in Ifs |-> NONE]
  /\ attached = {} /\ unseen = {}
  /\ stack \in StackStates
  /\ busy \in BOOLEAN
  /\ events = <<>>
  /\ connect = FALSE /\ quietArmed = FALSE /\ timer = "none"
  /\ iflist = NONE
  /\ plist \in BootDbs
  /\ fileModel \in Models \cup {NONE} /\ hw \in Models
  /\ boots = 0 /\ uuid = NONE /\ promised = [i \in Ifs |-> NONE]
  /\ db = NONE /\ prev = NONE
  /\ todo = <<>> /\ pc = "idle" /\ idx = 0 /\ reg = NONE
  /\ smodel = NONE /\ scheduled = FALSE
  /\ vprefs \in [VKinds -> VConfigs \cup {NONE}]
  /\ vcache = NoConfig /\ vactive = NoConfig /\ vnotify = FALSE
  /\ vapplies = 0

\* previouslyActiveInterfaces strips the Active key in S_dblist.
Inactive(e) == [e EXCEPT !.active = FALSE]

\* hw_model (l.241-263): the models hw_model() may return, S_model once a
\* sysctl succeeded; a failed sysctl returns NULL and is not cached.
hw_model == IF smodel # NONE \/ ~ModelFails THEN {hw} ELSE {hw, NONE}

\* readInterfaceList (l.389-441) when hw_model() returns m: the saved
\* Interfaces array, unless the file carries a Model key other than m
\* (NULL included).  hw_model() is called only when there is a Model key.
readInterfaceList(m) ==
  IF fileModel # NONE /\ fileModel # m THEN NONE ELSE plist

\* previouslyActiveInterfaces (l.443-473) over the list read at start-up.
previouslyActiveInterfaces(list) ==
  IF list = NONE THEN NONE ELSE {Inactive(e) : e \in {e \in list : e.active}}

\* setup_IOKit (l.2069-2236): readInterfaceList, previouslyActiveInterfaces,
\* arm the busy-interest notification (S_quiet) and the stack timer, then
\* call stackCallback, interfaceArrivalCallback and, if the registry was
\* not busy, quietCallback.
setup_IOKit ==
  /\ phase' = "run"
  /\ \E m \in hw_model :
       /\ smodel' = IF fileModel # NONE THEN m ELSE smodel
       /\ LET list == readInterfaceList(m)
          IN  /\ db' = IF list = NONE THEN NONE ELSE {Inactive(e) : e \in list}
              /\ prev' = previouslyActiveInterfaces(list)
  /\ quietArmed' = TRUE
  /\ timer' = "armed"
  /\ todo' = <<"stack", "arrival">> \o (IF busy THEN <<>> ELSE <<"quiet">>)
  /\ UNCHANGED <<kunit, envVars, connect, iflist, diskVars, bootVars, virtVars, pc, idx, reg>>

\* setup_IOKit failing after it has read the lists: IOMasterPort,
\* IONotificationPortCreate, IORegistryEntryFromPath, the interest or a
\* matching notification, IOServiceGetBusyState or CFRunLoopTimerCreate
\* fails ("goto done", l.2097-2195).  The last failure comes after
\* stackCallback has run: the IONetworkStack object is consumed and,
\* with S_iflist still NULL, nothing was named.  exec_InterfaceNamer's
\* error path (l.2331-2353) then closes S_connect and releases S_dblist,
\* S_quiet and the timer, but neither S_prev_active_list nor S_prefs:
\* the run loop serves only the preferences callback.
setup_IOKitFailed ==
  /\ phase' = "stopped"
  /\ \E m \in hw_model :
       /\ smodel' = IF fileModel # NONE THEN m ELSE smodel
       /\ prev' = previouslyActiveInterfaces(readInterfaceList(m))
  /\ db' = NONE
  /\ stack' \in {stack, IF stack = "unseen" THEN "seen" ELSE stack}
  /\ UNCHANGED <<kunit, attached, unseen, busy, events, connect, quietArmed,
                 timer, iflist, diskVars, bootVars, virtVars, todo, pc, idx, reg>>

\* exec_InterfaceNamer (l.2273-2364): setup_Virtual, then setup_IOKit, then
\* the run loop.  setup_Virtual (l.2238-2270) fails when SCPreferencesCreate,
\* SetCallback or ScheduleWithRunLoop fails; then setup_IOKit is skipped
\* and the run loop has no source.  ScheduleWithRunLoop failing with
\* kSCStatusNoStoreServer is tolerated, but no apply callback is delivered.
exec_InterfaceNamer ==
  /\ phase = "boot"
  /\ \E r \in PrefsSetup :
       IF r = "fail"
       THEN /\ phase' = "stopped"
            /\ UNCHANGED <<kunit, envVars, connect, quietArmed, timer, iflist,
                           diskVars, smodel, bootVars, virtVars, scheduled, db,
                           prev, todo, pc, idx, reg>>
       ELSE /\ scheduled' = (r = "ok")
            /\ \/ setup_IOKit
               \/ IOKitSetupFails /\ setup_IOKitFailed

\* The run loop hands the next queued IOKit notification to its callback.
Dispatch ==
  /\ phase = "run" /\ pc = "idle" /\ todo = <<>> /\ events # <<>>
  /\ todo' = <<Head(events)>>
  /\ events' = Tail(events)
  /\ UNCHANGED <<phase, kunit, attached, unseen, stack, busy, connect,
                 quietArmed, timer, iflist, diskVars, smodel, bootVars, virtVars, scheduled, db, prev, pc, idx, reg>>

\* timerCallback (l.2048-2067): the one-shot timer fires while the thread
\* is idle; it calls quietCallback as if IOKit had quiesced.
timerCallback ==
  /\ phase = "run" /\ pc = "idle" /\ todo = <<>> /\ timer = "armed"
  /\ timer' = "fired"
  /\ todo' = <<"quiet">>
  /\ UNCHANGED <<phase, kunit, envVars, connect, quietArmed, iflist, diskVars, smodel, bootVars, virtVars, scheduled,
                 db, prev, pc, idx, reg>>

Call(c) == pc = "idle" /\ todo # <<>> /\ Head(todo) = c

\* stackCallback (l.1821-1865): open the stack if the iterator has it and
\* call updateInterfaces; if IOServiceOpen fails the iterator has still
\* consumed the object and S_connect stays NULL.  The stack timer, if still
\* valid, is moved to the (shorter) quiet timeout: still armed.
stackCallback ==
  /\ Call("stack")
  /\ IF stack = "unseen"
     THEN /\ stack' = "seen"
          /\ \/ connect' = TRUE /\ todo' = <<"update">> \o Tail(todo)
             \/ OpenFails /\ todo' = Tail(todo) /\ UNCHANGED connect
     ELSE /\ todo' = Tail(todo) /\ UNCHANGED <<stack, connect>>
  /\ UNCHANGED <<phase, kunit, attached, unseen, busy, events, quietArmed,
                 timer, iflist, diskVars, smodel, bootVars, virtVars, scheduled, db, prev, pc, idx, reg>>

\* interfaceArrivalCallback (l.1789-1809): append every new interface of
\* the iterator to S_iflist, then updateInterfaces.
interfaceArrivalCallback ==
  /\ Call("arrival")
  /\ iflist' = IF unseen = {} THEN iflist
               ELSE (IF iflist = NONE THEN {} ELSE iflist) \cup unseen
  /\ unseen' = {}
  /\ todo' = <<"update">> \o Tail(todo)
  /\ UNCHANGED <<phase, kunit, attached, stack, busy, events, connect,
                 quietArmed, timer, diskVars, smodel, bootVars, virtVars, scheduled, db, prev, pc, idx, reg>>

\* Variant of quietCallback that keeps S_quiet and the timer.
quietCallbackKeepsQuiet ==
  /\ Call("quiet")
  /\ todo' = IF connect THEN <<"arrival", "uuid">> \o Tail(todo) ELSE Tail(todo)
  /\ UNCHANGED <<phase, kunit, envVars, connect, quietArmed, timer, iflist,
                 diskVars, smodel, bootVars, virtVars, scheduled, db, prev, pc, idx, reg>>

\* quietCallback (l.1867-1907) for a "no longer busy" message: without the
\* stack it only logs; otherwise it drops S_quiet and the timer and grabs
\* and names any additional interfaces, then calls updatePlatformUUID.
quietCallback ==
  /\ Call("quiet")
  /\ IF connect
     THEN /\ quietArmed' = FALSE /\ timer' = "none"
          /\ todo' = <<"arrival", "uuid">> \o Tail(todo)
     ELSE /\ todo' = Tail(todo) /\ UNCHANGED <<quietArmed, timer>>
  /\ UNCHANGED <<phase, kunit, envVars, connect, iflist, diskVars, smodel, bootVars, virtVars, scheduled, db, prev,
                 pc, idx, reg>>

\* updateInterfaces (l.1564-1591): nothing without the stack; otherwise
\* sort and name S_iflist.
updateInterfaces ==
  /\ Call("update")
  /\ IF ~connect
     THEN todo' = Tail(todo) /\ UNCHANGED <<pc, idx>>
     ELSE /\ pc' = IF iflist = NONE THEN "post" ELSE "naming"
          /\ idx' = 1
          /\ UNCHANGED todo
  /\ UNCHANGED <<phase, kunit, envVars, connect, quietArmed, timer, iflist,
                 diskVars, smodel, bootVars, virtVars, scheduled, db, prev, reg>>

\* One iteration of nameInterfaces (l.1313-1561) up to the registration.
\* An interface the kernel already named refreshes its database entry.  A
\* new one (not in the database) waits until IOKit is quiet; otherwise
\* the unit is the database's, a matching absent adaptor's, or the next
\* free one.
NameInterface ==
  LET i      == List[idx]
      known  == ByAddress(Db, i)
      dbdict == IF known # {} THEN CHOOSE e \in known : TRUE
                ELSE lookupMatchingInterface(i, idx)
  IN
  /\ pc = "naming" /\ idx <= Len(List)
  /\ CASE kunit[i] # NONE ->
            /\ prev' = IF prev = NONE THEN NONE ELSE prev \ ByAddress(prev, i)
            /\ db' = replaceInterface(i, kunit[i])
            /\ idx' = idx + 1
            /\ UNCHANGED <<pc, reg>>
       [] known = {} /\ ~isQuiet ->
            /\ idx' = idx + 1
            /\ UNCHANGED <<prev, db, pc, reg>>
       [] OTHER ->
            /\ prev' = IF dbdict # NONE /\ prev # NONE THEN prev \ {dbdict} ELSE prev
            /\ reg' = [unit |-> IF dbdict # NONE THEN dbdict.unit ELSE NextUnit(i, idx),
                       dbdict |-> dbdict, retries |-> 0]
            /\ pc' = "register"
            /\ UNCHANGED <<db, idx>>
  /\ UNCHANGED <<phase, kunit, envVars, connect, quietArmed, timer, iflist,
                 diskVars, smodel, bootVars, virtVars, scheduled, todo>>

\* Variant of CanRetry with the bound tested as "retries++ <= 5".
CanRetryInclusive == reg.dbdict # NONE /\ reg.retries <= MaxRetries

\* A failed registration is retried only for a known interface, five
\* times: "(dbdict != NULL) && (retries++ < 5)" (l.1474).
CanRetry == reg.dbdict # NONE /\ reg.retries < MaxRetries

\* Variant of Registered that records the unit it asked for rather than
\* the one the kernel gave.
RegisteredAsRequested(i, u) ==
  /\ kunit' = [kunit EXCEPT ![i] = u]
  /\ prev' = IF IsBuiltin(i) /\ prev # NONE THEN {e \in prev : e.unit # u} ELSE prev
  /\ db' = replaceInterface(i, reg.unit)

\* The kernel named i with unit u and lookupIORegistryEntryID returned it
\* (l.1509-1549): a built-in interface leaves the previously-active list
\* by unit, and replaceInterface records it (l.1557-1559).
Registered(i, u) ==
  /\ kunit' = [kunit EXCEPT ![i] = u]
  /\ prev' = IF IsBuiltin(i) /\ prev # NONE THEN prev \ ByUnit(prev, u) ELSE prev
  /\ db' = replaceInterface(i, u)

\* lookupIORegistryEntryID (l.1139-1188): TRUE when the just-named
\* interface is found again by its registry entry ID, FALSE when
\* IOMasterPort, IOServiceGetMatchingServices or IOIteratorNext fails
\* (the interface went away meanwhile).
lookupIORegistryEntryID == IF LookupFails THEN BOOLEAN ELSE {TRUE}

\* registerInterfaceWith... (l.1429-1555): a known interface asks for its
\* unit (fixed), a new one for the lowest free unit from the one chosen.
\* If the lookup after a successful registration fails, replaceInterface
\* runs on the old, unit-less interface: it drops the entries with i's
\* address and inserts nothing.  A failed registration may be retried; a
\* final failure leaves the interface unnamed and the database untouched.
RegisterInterface ==
  LET i   == List[idx]
      got == Granted(reg.unit, reg.dbdict # NONE)
  IN
  /\ pc = "register"
  /\ \/ /\ got # NONE
        /\ \E found \in lookupIORegistryEntryID :
              IF found THEN Registered(i, got)
              ELSE /\ kunit' = [kunit EXCEPT ![i] = got]
                   /\ db' = Db \ ByAddress(Db, i)
                   /\ UNCHANGED prev
        /\ pc' = "naming" /\ idx' = idx + 1 /\ reg' = NONE
     \/ /\ got = NONE \/ Flaky
        /\ IF CanRetry
           THEN reg' = [reg EXCEPT !.retries = @ + 1] /\ UNCHANGED <<pc, idx>>
           ELSE pc' = "naming" /\ idx' = idx + 1 /\ reg' = NONE
        /\ UNCHANGED <<kunit, prev, db>>
  /\ UNCHANGED <<phase, envVars, connect, quietArmed, timer, iflist, diskVars, smodel, bootVars, virtVars, scheduled, todo>>

\* Variant of writeInterfaceList that keeps the Model key of the file.
writeInterfaceListKeepsModel ==
  IF db = NONE \/ db = plist THEN UNCHANGED <<diskVars, smodel>>
  ELSE \E m \in hw_model :
         /\ smodel' = m
         /\ \/ /\ plist' = db
               /\ promised' = [i \in Ifs |->
                                IF ByAddress(db, i) # {} THEN (CHOOSE e \in ByAddress(db, i) : TRUE).unit
                                ELSE promised[i]]
               /\ UNCHANGED fileModel
            \/ WriteFails /\ UNCHANGED diskVars

\* writeInterfaceList (l.305-386): nothing for a NULL S_dblist or when the
\* file already holds it; otherwise store it, stamped with the model
\* hw_model() returns (the old stamp stays when it returns NULL), unless
\* SCPreferencesCommitChanges fails.  promised follows the committed file
\* (a new stamp starts a new history).
writeInterfaceList ==
  IF db = NONE \/ db = plist THEN UNCHANGED <<diskVars, smodel>>
  ELSE \E m \in hw_model :
         LET stamp == IF m = NONE THEN fileModel ELSE m
         IN  /\ smodel' = m
             /\ \/ /\ plist' = db /\ fileModel' = stamp
                   /\ promised' = [i \in Ifs |->
                                    CASE ByAddress(db, i) # {} -> (CHOOSE e \in ByAddress(db, i) : TRUE).unit
                                      [] stamp # fileModel -> NONE
                                      [] OTHER -> promised[i]]
                \/ WriteFails /\ UNCHANGED diskVars

\* The interfaces the kernel has named.
NamedIfs == {i \in Ifs : kunit[i] # NONE}

\* The end of updateInterfaces (l.1581-1648): once IOKit is quiet, save
\* the database, push the virtual interface configuration again, and drop S_iflist and the previously-active list; before
\* that, drop the list once every previously active interface is named.
UpdateDone ==
  /\ \/ pc = "naming" /\ idx > Len(List)
     \/ pc = "post"
  /\ IF isQuiet
     THEN /\ writeInterfaceList
          /\ updateVirtualNetworkInterfaceConfiguration(TRUE, NamedIfs)
          /\ iflist' = NONE /\ prev' = NONE
     ELSE /\ prev' = IF prev = {} THEN NONE ELSE prev
          /\ UNCHANGED <<diskVars, smodel, iflist, vcache, vactive>>
  /\ pc' = "idle" /\ idx' = 0
  /\ todo' = Tail(todo)
  /\ UNCHANGED <<phase, kunit, envVars, connect, quietArmed, timer, db, reg,
                 bootVars, scheduled, vprefs, vnotify, vapplies>>

\* The S_prefs callback on the run loop (SCPreferencesSetCallback,
\* l.2250): updateVirtualNetworkInterfaceConfiguration for an apply
\* notification.  Notifications coalesce.
prefsCallback ==
  /\ scheduled /\ pc = "idle" /\ todo = <<>> /\ vnotify
  /\ vnotify' = FALSE
  /\ updateVirtualNetworkInterfaceConfiguration(FALSE, NamedIfs)
  /\ UNCHANGED <<phase, kunit, envVars, connect, quietArmed, timer, iflist,
                 diskVars, smodel, scheduled, bootVars, db, prev, todo, pc, idx, reg, vprefs,
                 vapplies>>

\* The MAC addresses updatePlatformUUID collects from S_dblist: those of
\* built-in Ethernet entries, or if there are none, of every IEEE80211
\* entry, each of ETHER_ADDR_LEN bytes.
PlatformAddrs ==
  LET addrs(entries) == {Mac[e.addr] : e \in {e \in entries : Len(Mac[e.addr]) = ETHER_ADDR_LEN}}
      ether == addrs({e \in Db : Kind[e.addr] = "Ethernet" /\ e.builtin})
  IN  IF ether # {} THEN ether ELSE addrs({e \in Db : Kind[e.addr] = "IEEE80211"})

\* updatePlatformUUID (l.1676-1787): unless the device tree already has an
\* IOPlatformUUID, sort the collected addresses with compareMacAddress and
\* set the UUID built from the first; with no address it only logs.  The
\* property set may fail, which is only logged.
updatePlatformUUID ==
  /\ Call("uuid")
  /\ todo' = Tail(todo)
  /\ IF uuid # NONE \/ PlatformAddrs = {}
     THEN UNCHANGED uuid
     ELSE \E addrs \in CFArraySortValues(PlatformAddrs) :
             \/ uuid' = PlatformUUIDBytes(addrs[1])
             \/ PlatformSetFails /\ UNCHANGED uuid
  /\ UNCHANGED <<phase, kunit, envVars, connect, quietArmed, timer, iflist,
                 diskVars, smodel, hw, boots, virtVars, scheduled, db, prev, pc, idx, reg>>

----------------------------------------------------------------------------
(* IOKit and the kernel.                                                   *)

Notify(e) == IF phase = "run" THEN Append(events, e) ELSE events

\* A network interface is published; matching makes the registry busy.
Attach(i) ==
  /\ i \notin attached /\ Len(events) < MaxEvents
  /\ attached' = attached \cup {i} /\ unseen' = unseen \cup {i}
  /\ busy' = TRUE
  /\ events' = Notify("arrival")
  /\ UNCHANGED <<phase, kunit, stack, connect, quietArmed, timer, iflist,
                 diskVars, smodel, bootVars, virtVars, scheduled, db, prev, todo, pc, idx, reg>>

\* The IONetworkStack object is published.
StackAppears ==
  /\ stack = "absent" /\ Len(events) < MaxEvents
  /\ stack' = "unseen" /\ busy' = TRUE
  /\ events' = Notify("stack")
  /\ UNCHANGED <<phase, kunit, attached, unseen, connect, quietArmed, timer,
                 iflist, diskVars, smodel, bootVars, virtVars, scheduled, db, prev, todo, pc, idx, reg>>

\* Matching ends; while S_quiet is registered the busy-interest
\* notification queues a "quiet" message.
Quiesce ==
  /\ busy /\ Len(events) < MaxEvents
  /\ busy' = FALSE
  /\ events' = IF phase = "run" /\ quietArmed THEN Append(events, "quiet") ELSE events
  /\ UNCHANGED <<phase, kunit, attached, unseen, stack, connect, quietArmed,
                 timer, iflist, diskVars, smodel, bootVars, virtVars, scheduled, db, prev, todo, pc, idx, reg>>

\* The plugin's file-scope state as a new configd process starts it
\* (l.115-215), before load_InterfaceNamer runs setup_IOKit.
PluginStarts ==
  /\ phase' = "boot"
  /\ connect' = FALSE /\ quietArmed' = FALSE /\ timer' = "none"
  /\ iflist' = NONE /\ db' = NONE /\ prev' = NONE
  /\ todo' = <<>> /\ pc' = "idle" /\ idx' = 0 /\ reg' = NONE
  /\ smodel' = NONE /\ scheduled' = FALSE
  /\ events' = <<>>

\* configd exits at any point and launchd starts it again
\* (load_InterfaceNamer, l.2366-2390).  The kernel keeps its units; the
\* new matching iterators return every interface and the stack again.
Restart ==
  /\ boots < MaxBoots
  /\ boots' = boots + 1
  /\ PluginStarts
  /\ unseen' = attached
  /\ stack' = IF stack = "absent" THEN "absent" ELSE "unseen"
  /\ vcache' = NoConfig /\ vnotify' = FALSE
  /\ UNCHANGED <<kunit, attached, busy, diskVars, hw, uuid, vprefs, vactive, vapplies>>

\* The machine reboots, possibly with the disk moved to other hardware:
\* no interface is named or attached, the device tree has no platform
\* UUID yet, the plist stays.
Reboot ==
  /\ boots < MaxBoots
  /\ boots' = boots + 1
  /\ PluginStarts
  /\ kunit' = [i \in Ifs |-> NONE]
  /\ attached' = {} /\ unseen' = {}
  /\ stack' \in StackStates /\ busy' \in BOOLEAN /\ hw' \in Models
  /\ uuid' = NONE
  /\ vcache' = NoConfig /\ vactive' = NoConfig /\ vnotify' = FALSE
  /\ UNCHANGED <<vprefs, vapplies>>
  /\ UNCHANGED diskVars

\* An administrator applies new bond, bridge or VLAN preferences; a
\* running plugin gets an apply notification.
PrefsApplied(k, c) ==
  /\ vprefs[k] # c /\ vapplies < MaxApplies
  /\ vapplies' = vapplies + 1
  /\ vprefs' = [vprefs EXCEPT ![k] = c]
  /\ vnotify' = (scheduled \/ vnotify)
  /\ UNCHANGED <<phase, kunit, envVars, connect, quietArmed, timer, iflist,
                 diskVars, smodel, scheduled, bootVars, db, prev, todo, pc, idx, reg, vcache,
                 vactive>>

----------------------------------------------------------------------------
\* The plugin's run-loop thread.
Thread ==
  \/ exec_InterfaceNamer \/ Dispatch \/ timerCallback
  \/ stackCallback \/ interfaceArrivalCallback \/ quietCallback
  \/ updateInterfaces \/ NameInterface \/ RegisterInterface \/ UpdateDone
  \/ updatePlatformUUID \/ prefsCallback

Environment ==
  \/ \E i \in Ifs : Attach(i)
  \/ StackAppears \/ Quiesce
  \/ \E k \in VKinds, c \in VConfigs \cup {NONE} : PrefsApplied(k, c)

Faults == Restart \/ Reboot

Next == Thread \/ Environment \/ Faults

Spec == Init /\ [][Next]_vars
\* The run loop never stops serving its port and timer, so every step of
\* the thread that stays enabled is taken; the kernel eventually publishes
\* the IONetworkStack.  IOKit is not assumed ever to quiesce: that is what
\* the stack timer is for.
Fairness == WF_vars(Thread) /\ WF_vars(StackAppears)

FairSpec == Spec /\ Fairness

----------------------------------------------------------------------------
(* Properties                                                              *)

\* S_dblist has one entry per unit and one per hardware address, whatever
\* order arrivals, dongle swaps, reserved built-in slots and registration
\* failures happen in (replaceInterface's two removal loops).
DbUnique ==
  \A e1, e2 \in Db : e1 # e2 => e1.unit # e2.unit /\ e1.addr # e2.addr

\* Whenever the run loop is idle, every interface the kernel has named is
\* recorded in S_dblist under exactly the kernel's unit, and nothing else
\* in the database claims that unit or that address.  After a configd
\* restart the plist read back may be stale; the re-listed interfaces
\* must bring the database back in line before the thread goes idle.
DbAgreesWithKernel ==
  phase = "run" /\ pc = "idle" /\ todo = <<>> =>
    \A i \in Ifs : kunit[i] # NONE =>
       {e \in Db : e.addr = i \/ e.unit = kunit[i]} = {EntryOf(i, kunit[i])}

\* When nameInterfaces names a non-built-in interface, the unit it gets
\* belongs to no other interface in the database, unless that entry is a
\* single absent adaptor of the same kind (lookupMatchingInterface's
\* dongle swap): new interfaces skip every known unit.
NewNeverStealsKnown ==
  [][\A j \in Ifs \ Builtin :
       kunit[j] = NONE /\ kunit'[j] # NONE =>
         \A e \in Db : e.addr # j /\ e.unit = kunit'[j] =>
            /\ e.info = Info[j] /\ ~e.builtin
            /\ ~Named(e.unit)]_vars

\* "stores the Interface Type, MACAddress, and Unit in permanent storage
\* to give persistent interface names" (ifnamer.c header): on the hardware
\* the plist was written for, an interface once committed with a unit is
\* only ever named with that unit, across configd restarts and reboots.
PersistentNames ==
  fileModel = hw =>
    \A i \in Ifs : promised[i] # NONE /\ kunit[i] # NONE => kunit[i] = promised[i]

\* "sort by MAC address" (updatePlatformUUID, l.1745-1746): the platform
\* UUID the plugin sets carries the lowest of the MAC addresses of the
\* built-in Ethernet interfaces in S_dblist, or if it has none, the lowest
\* Wi-Fi one, whatever order the database and the sort present them in.
PlatformUUIDIsLowestMac ==
  [][uuid = NONE /\ uuid' # NONE =>
       LET macs(S) == {Mac[e.addr] : e \in S}
           ether   == macs({e \in Db : e.builtin /\ Kind[e.addr] = "Ethernet"})
           wifi    == macs({e \in Db : Kind[e.addr] = "IEEE80211"})
       IN  uuid' = PlatformUUIDBytes(LexMin(IF ether # {} THEN ether ELSE wifi))]_vars

\* The bond, bridge and VLAN interfaces the preferences configure are
\* eventually in the kernel, with every member that has a name, unless
\* the administrator removes them: the apply notification pushes a changed
\* configuration, and naming a new interface (updateInterfaces, l.1591)
\* pushes it again so that members that appear late join.  This is asked
\* of a plugin whose setup_IOKit succeeded: after a failed one only an
\* apply notification pushes the configuration.
VirtualInterfacesConfigured ==
  \A k \in VKinds :
     phase = "run" /\ vprefs[k] # NONE /\ vactive[k] # Configured(k, NamedIfs)
       ~> vprefs[k] = NONE \/ vactive[k] = Configured(k, NamedIfs)

\* Whatever the administrator applies, removing every virtual interface
\* of a kind included, eventually is the kernel's configuration (the
\* purpose of the S_prefs apply callback, l.2250).
VirtualConfigApplied ==
  \A k \in VKinds : vactive[k] # Configured(k, NamedIfs) ~> vactive[k] = Configured(k, NamedIfs)

\* Every interface that attaches is eventually named, whether or not IOKit
\* ever quiesces: the stack timer stands in for the quiet notification
\* ("add a timer so we don't wait forever for IOKit to quiesce", l.2144).
EveryInterfaceNamed ==
  \A i \in Ifs : i \in attached ~> kunit[i] # NONE
====
