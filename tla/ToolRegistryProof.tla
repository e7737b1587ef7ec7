-------------------------- MODULE ToolRegistryProof --------------------------
(***************************************************************************)
(* Theorems about ToolRegistry, for every number of directories, manifests *)
(* with any names, routes and requirements, servers, calls and reloads.    *)
(***************************************************************************)
EXTENDS ToolRegistry, TLAPS

-----------------------------------------------------------------------------
(* The inductive invariant of the custom tools                             *)

CallTypes ==
    [at : {"idle", "count", "has", "find", "arc", "server", "kit"},
     route : Routes \cup {None}, kit : Names \cup {None}, server : Servers \cup {None},
     load : 0..MaxLoads, client : 0..MaxLoads]

Loaded == [dir : Dirs, man : Manifests, ok : BOOLEAN]

(* TypeOK with its records as a whole.                                     *)
FilesTyped ==
    /\ disk \in [Dirs -> Contents]
    /\ supplied \in [Dirs -> SUBSET Vars]
    /\ toml = Broken \/ toml \subseteq Servers
    /\ absent \subseteq Commands
    /\ edits \in 0..MaxEdits
RefreshTyped ==
    /\ refresh \in {"idle", "list", "read", "tell"}
    /\ asked \in BOOLEAN
    /\ target \in Names \cup {None}
    /\ next \in 1..(NDirs + 1)
    /\ found \in [Dirs -> Contents]
    /\ have \in [Dirs -> SUBSET Vars]
TablesTyped ==
    /\ client \in [load : 0..MaxLoads, servers : SUBSET Servers]
    /\ routes \in [load : 0..MaxLoads, pairs : SUBSET (Routes \X Servers)]
    /\ tools \subseteq Routes \X Servers
    /\ discovered \subseteq Routes \X Servers
LoadTyped ==
    /\ load \in {"idle", "clear routes", "clear tools", "read",
                 "put client", "put routes", "put tools", "tell"}
    /\ warm \in {"due", "running", "done"}
    /\ loads \in 0..MaxLoads
    /\ dropped \in BOOLEAN
HeardTyped ==
    /\ told \subseteq Routes \X (Names \cup Servers)
    /\ heard \in [Names -> Healths]
    /\ cut \in BOOLEAN
KitsTyped == kits \subseteq Loaded /\ health \in [Names -> Healths]
Typed ==
    /\ FilesTyped /\ KitsTyped /\ RefreshTyped /\ TablesTyped /\ LoadTyped
    /\ HeardTyped /\ call \in [Calls -> CallTypes]

(* The three tables of the custom tools fit each other.                    *)
Consistent ==
    /\ tools \subseteq routes.pairs
    /\ routes.load = client.load
    /\ \A p \in routes.pairs : p[2] \in client.servers

(* What a load, and before it a reload, has done to the tables.            *)
WarmReads == warm = "running" => load \notin {"idle", "clear routes", "clear tools"}
Cleared ==
    /\ load \in {"clear routes", "clear tools"} => client = NoClient
    /\ load = "clear tools" => routes = NoRoutes
    /\ load = "read" /\ Request => client = NoClient /\ routes = NoRoutes /\ tools = {}
Stored ==
    /\ load \in {"put routes", "put tools"} =>
          client = [load |-> loads, servers |-> {p[2] : p \in discovered}]
    /\ load = "put tools" => routes = [load |-> loads, pairs |-> discovered]
Kept ==
    /\ load = "tell" => Consistent
    /\ load \in {"idle", "read"} /\ ~dropped => Consistent

(* Clients get the numbers of ever later loads, routes follow them.        *)
Numbered ==
    /\ routes.load <= loads
    /\ client.load = 0 \/ client.load >= routes.load
    /\ \A c \in Calls : call[c].load <= loads
    /\ \A c \in Calls : call[c].at = "arc" => client.load = 0 \/ client.load >= call[c].load

(* While nothing but the load at start-up goes on, the list is as told,    *)
(* the failures of Kits aside.                                             *)
Unchanged == load = "idle" \/ (warm = "running" /\ load # "tell")
SameMissing == \A n \in Names : "missing" \in {health[n], heard[n]} => health[n] = heard[n]
Told == refresh # "tell" /\ ~cut /\ Unchanged => told = List(kits, heard, tools) /\ SameMissing

(* Only loaded Kits are ill.                                               *)
IllAreLoaded == \A n \in Names : health[n] # "well" => \E k \in kits : NameOf[k.man] = n

TablesInv == WarmReads /\ Cleared /\ Stored /\ Kept
CustomInv == TablesInv /\ Numbered /\ RouteMeetsItsClient /\ IllAreLoaded /\ Told

-----------------------------------------------------------------------------
(* The registry of Kits                                                    *)

Apart(K) == \A k, m \in K : k # m => k.dir # m.dir /\ ~Collide(k.man, m.man)

(* A scan yields Kits that are apart, each from its own directory, and     *)
(* calls the other directories with a manifest invalid.                    *)
LEMMA ScannedKits ==
    ASSUME NEW f \in [Dirs -> Contents], NEW h \in [Dirs -> SUBSET Vars]
    PROVE  /\ Scanned(f, h) \subseteq Loaded
           /\ Apart(Scanned(f, h))
           /\ \A c \in Scanned(f, h) : c.dir \notin Invalid(f) /\ c.man = f[c.dir]
           /\ \A d \in Dirs \ Invalid(f) :
                 f[d] \in Manifests => \E c \in Scanned(f, h) : c.dir = d
<1>1. \A m \in Manifests, vs \in SUBSET Vars : Configured(m, vs) \in BOOLEAN
  BY DEF Configured
<1>2. ASSUME NEW c \in Scanned(f, h)
      PROVE  /\ c \in Loaded /\ c.dir \in Dirs /\ c.man = f[c.dir] /\ c.man \in Manifests
             /\ c = Kit(c.dir, f[c.dir], h[c.dir])
             /\ \A x \in Dirs \ {c.dir} : f[x] \in Manifests => ~Collide(f[c.dir], f[x])
  <2>1. PICK d \in Dirs : /\ c = Kit(d, f[d], h[d]) /\ f[d] \in Manifests
                          /\ \A x \in Dirs \ {d} : f[x] \in Manifests => ~Collide(f[d], f[x])
    BY DEF Scanned
  <2>2. c.dir = d /\ c.man = f[d] /\ h[d] \in SUBSET Vars
    BY <2>1 DEF Kit
  <2>3. c \in Loaded
    BY <1>1, <2>1, <2>2 DEF Kit, Loaded
  <2> QED
    BY <2>1, <2>2, <2>3
<1>3. Scanned(f, h) \subseteq Loaded
  BY <1>2
<1>4. Apart(Scanned(f, h))
  <2> SUFFICES ASSUME NEW k \in Scanned(f, h), NEW m \in Scanned(f, h), k # m
               PROVE  k.dir # m.dir /\ ~Collide(k.man, m.man)
    BY DEF Apart
  <2>1. k.dir # m.dir
    BY <1>2
  <2> QED
    BY <1>2, <2>1
<1>5. \A c \in Scanned(f, h) : c.dir \notin Invalid(f) /\ c.man = f[c.dir]
  BY <1>2, NoneAssumption DEF Invalid
<1>6. ASSUME NEW d \in Dirs \ Invalid(f), f[d] \in Manifests
      PROVE  \E c \in Scanned(f, h) : c.dir = d
  <2>1. Kit(d, f[d], h[d]) \in Scanned(f, h)
    BY <1>6 DEF Scanned, Invalid
  <2>2. Kit(d, f[d], h[d]).dir = d
    BY DEF Kit
  <2> QED
    BY <2>1, <2>2
<1> QED
  BY <1>3, <1>4, <1>5, <1>6

(* Reconciling Kits that are apart with a scan leaves Kits that are apart; *)
(* one that goes was replaced under its name or in its directory, or is    *)
(* this reload's and no longer in its directory.                           *)
LEMMA ReconciledKits ==
    ASSUME NEW K \in SUBSET Loaded, NEW F \in SUBSET Loaded, NEW I, NEW t,
           Apart(K), Apart(F), \A c \in F : c.dir \notin I
    PROVE  /\ Reconciled(K, F, I, t) \subseteq Loaded
           /\ Apart(Reconciled(K, F, I, t))
           /\ \A k \in K :
                 \/ \E m \in Reconciled(K, F, I, t) : NameOf[m.man] = NameOf[k.man] \/ m.dir = k.dir
                 \/ k.dir \notin I /\ \A c \in F : c.dir = k.dir => ~Named(t, c)
<1> DEFINE rejected == Rejected(K, F, I, t)
           fresh    == F \ rejected
           invalid  == I \cup {c.dir : c \in rejected}
           new      == {c \in fresh : Named(t, c)}
           seen     == {NameOf[c.man] : c \in fresh}
           removed  == {k \in K : Named(t, k) /\ NameOf[k.man] \notin seen /\ k.dir \notin invalid}
           kept     == {k \in K \ removed : NameOf[k.man] \notin {NameOf[c.man] : c \in new}}
<1>1. Reconciled(K, F, I, t) = new \cup kept
  BY DEF Reconciled
<1>2. \A c \in new : c \in F /\ c \in fresh /\ c \notin rejected /\ Named(t, c)
  OBVIOUS
<1>3. \A k \in kept : k \in K /\ k \notin removed /\ \A c \in new : NameOf[k.man] # NameOf[c.man]
  OBVIOUS
<1>4. \A c \in rejected : c \in F
  BY DEF Rejected
(* A Kit that stays loaded beside a new one stands in another directory.   *)
<1>5. ASSUME NEW c \in new, NEW k \in kept, Named(t, k) PROVE k.dir \in I \/ \E x \in rejected : x.dir = k.dir
  <2>1. NameOf[k.man] \notin seen
    <3>1. ASSUME NEW x \in fresh, NameOf[x.man] = NameOf[k.man] PROVE FALSE
      <4>1. Named(t, x)
        BY <1>5, <3>1 DEF Named
      <4> QED
        BY <1>3, <3>1, <4>1
    <3> QED
      BY <3>1
  <2>2. k.dir \in invalid
    BY <1>3, <1>5, <2>1
  <2> QED
    BY <2>2
<1>6. ASSUME NEW c \in new, NEW k \in kept PROVE k.dir # c.dir /\ ~Collide(c.man, k.man)
  <2>1. \A o \in Owners(K, F, I, t) :
           ~(/\ c.dir # o.dir \/ ~Named(t, o)
             /\ c.dir = o.dir \/ Collide(c.man, o.man))
    BY <1>2 DEF Rejected
  <2>2. CASE ~Named(t, k)
    <3>1. k \in Owners(K, F, I, t)
      BY <1>3, <2>2 DEF Owners
    <3> QED
      BY <2>1, <2>2, <3>1
  <2>3. CASE Named(t, k)
    <3>1. k.dir \in {x.dir : x \in F} \cup I
      BY <1>4, <1>5, <2>3
    <3>2. k \in Owners(K, F, I, t)
      BY <1>3, <3>1 DEF Owners
    <3>3. k.dir # c.dir
      BY <1>2, <1>4, <1>5, <2>3 DEF Apart
    <3> QED
      BY <2>1, <3>2, <3>3
  <2> QED
    BY <2>2, <2>3
<1>7. Apart(new \cup kept)
  <2> SUFFICES ASSUME NEW k \in new \cup kept, NEW m \in new \cup kept, k # m
               PROVE  k.dir # m.dir /\ ~Collide(k.man, m.man)
    BY DEF Apart
  <2>1. CASE k \in new /\ m \in new
    BY <1>2, <2>1 DEF Apart
  <2>2. CASE k \in kept /\ m \in kept
    BY <1>3, <2>2 DEF Apart
  <2>3. CASE k \in new /\ m \in kept
    BY <1>6, <2>3
  <2>4. CASE k \in kept /\ m \in new
    BY <1>6, <2>4 DEF Collide
  <2> QED
    BY <2>1, <2>2, <2>3, <2>4
<1>8. new \cup kept \subseteq Loaded
  BY <1>2, <1>3
<1>9. ASSUME NEW k \in K,
             \A m \in new \cup kept : NameOf[m.man] # NameOf[k.man] /\ m.dir # k.dir
      PROVE  k.dir \notin I /\ \A c \in F : c.dir = k.dir => ~Named(t, c)
  <2>1. k \notin kept /\ \A c \in new : NameOf[c.man] # NameOf[k.man]
    BY <1>9
  <2>2. k \in removed
    BY <2>1
  <2>3. k.dir \notin I /\ \A c \in rejected : c.dir # k.dir
    BY <2>2
  <2>4. ASSUME NEW c \in F, c.dir = k.dir PROVE ~Named(t, c)
    <3>1. c \in fresh
      BY <2>3, <2>4
    <3> QED
      BY <1>9, <2>4, <3>1
  <2> QED
    BY <2>3, <2>4
<1> HIDE DEF new, kept
<1> QED
  BY <1>1, <1>7, <1>8, <1>9

-----------------------------------------------------------------------------
(* Types                                                                   *)

(* The bounds are numbers.                                                 *)
LEMMA Bounds == MaxLoads \in Nat /\ MaxEdits \in Nat /\ NDirs \in Nat
BY BoundAssumption

(* A list of tools names routes with Kits or servers.                      *)
LEMMA ListTyped ==
    ASSUME NEW K \in SUBSET Loaded, NEW H, NEW T \in SUBSET (Routes \X Servers)
    PROVE  List(K, H, T) \subseteq Routes \X (Names \cup Servers)
<1>1. \A k \in K : k.man \in Manifests /\ NameOf[k.man] \in Names
  BY DEF Loaded, Names
<1>2. \A k \in K : \A r \in RoutesOf[k.man] : r \in Routes
  BY <1>1 DEF Routes
<1>3. Sources(K, H, T) \subseteq Routes \X (Names \cup Servers)
  <2> SUFFICES ASSUME NEW p \in Sources(K, H, T) PROVE p \in Routes \X (Names \cup Servers)
    OBVIOUS
  <2>1. CASE p \in T
    BY <2>1
  <2>2. CASE p \notin T
    <3>1. PICK k \in K : p \in {<<r, NameOf[k.man]>> : r \in RoutesOf[k.man]}
      BY <2>2 DEF Sources
    <3> QED
      BY <1>1, <1>2, <3>1
  <2> QED
    BY <2>1, <2>2
<1> QED
  BY <1>3 DEF List

(* What servers answer are their routes.                                   *)
LEMMA AnswersTyped == \A up \in SUBSET Servers : Answers(up) \subseteq Routes \X Servers
<1> SUFFICES ASSUME NEW up \in SUBSET Servers, NEW p \in Answers(up)
             PROVE  p \in Routes \X Servers
  OBVIOUS
<1>1. PICK s \in up : p \in {<<r, s>> : r \in Offers[s]}
  BY DEF Answers
<1>2. Offers[s] \subseteq Routes
  BY DEF Routes
<1> QED
  BY <1>1, <1>2

(* The step forms of a call.                                               *)
LEMMA CallsTyped ==
    ASSUME NEW c \in Calls, call \in [Calls -> CallTypes], NEW x \in CallTypes, Goes(c, x)
    PROVE  /\ call' \in [Calls -> CallTypes]
           /\ call'[c] = x
           /\ \A d \in Calls \ {c} : call'[d] = call[d]
BY DEF Goes

(* A call that is not made is a call.                                      *)
LEMMA IdleTyped == Idle \in CallTypes
BY Bounds DEF Idle, CallTypes

(* The types of whole records give those of their fields.                  *)
LEMMA TypedRecords == Typed => TypeOK
<1> SUFFICES ASSUME Typed PROVE TypeOK
  OBVIOUS
<1>1. \A c \in Calls :
        /\ call[c].at \in {"idle", "count", "has", "find", "arc", "server", "kit"}
        /\ call[c].route \in Routes \cup {None}
        /\ call[c].kit \in Names \cup {None}
        /\ call[c].server \in Servers \cup {None}
        /\ {call[c].load, call[c].client} \subseteq 0..MaxLoads
  BY DEF Typed, CallTypes
<1>2. /\ client.load \in 0..MaxLoads /\ client.servers \subseteq Servers
      /\ routes.load \in 0..MaxLoads /\ routes.pairs \subseteq Routes \X Servers
  BY DEF Typed, TablesTyped
<1> QED
  BY <1>1, <1>2
     DEF Typed, TypeOK, Loaded, FilesTyped, KitsTyped, RefreshTyped, TablesTyped, LoadTyped,
         HeardTyped

(* The types hold at the start.                                            *)
LEMMA TypedInit == Init => Typed
<1> SUFFICES ASSUME Init PROVE Typed
  OBVIOUS
<1>1. FilesTyped
  <2>1. toml \in (SUBSET Servers) \cup {Broken}
    BY DEF Init
  <2>2. /\ edits = 0 /\ disk \in [Dirs -> Contents] /\ supplied \in [Dirs -> SUBSET Vars]
        /\ absent \subseteq Commands
    BY DEF Init
  <2> QED
    BY <2>1, <2>2, Bounds DEF FilesTyped
<1>2. KitsTyped
  <2>1. kits \subseteq Loaded
    BY <1>1, ScannedKits DEF Init, FilesTyped
  <2>2. health \in [Names -> Healths]
    <3>1. \A m : Loads(m) \in Healths
      BY DEF Loads, Healths
    <3> QED
      BY <3>1 DEF Init, Healths
  <2> QED
    BY <2>1, <2>2 DEF KitsTyped
<1>3. HeardTyped
  <2>1. told = List(kits, health, tools) /\ heard = health /\ tools = {} /\ cut = FALSE
    BY DEF Init
  <2>2. tools \in SUBSET (Routes \X Servers)
    BY <2>1
  <2> QED
    BY <1>2, <2>1, <2>2, ListTyped DEF HeardTyped, KitsTyped
<1>4. RefreshTyped
  <2>1. /\ refresh = "idle" /\ asked = FALSE /\ target = None /\ next = 1
        /\ found = [d \in Dirs |-> Gone] /\ have = [d \in Dirs |-> {}]
    BY DEF Init
  <2>2. found \in [Dirs -> Contents] /\ have \in [Dirs -> SUBSET Vars]
    BY <2>1 DEF Contents
  <2>3. asked \in BOOLEAN
    BY <2>1
  <2>4. next \in 1..(NDirs + 1)
    BY <2>1, Bounds
  <2> QED
    BY <2>1, <2>2, <2>3, <2>4 DEF RefreshTyped
<1>5. TablesTyped
  BY Bounds DEF Init, NoClient, NoRoutes, TablesTyped
<1>6. LoadTyped
  <2>1. load = "idle" /\ warm = "due" /\ loads = 0
    BY DEF Init
  <2>2. dropped \in BOOLEAN
    BY DEF Init
  <2>3. loads \in 0..MaxLoads
    BY <2>1, Bounds
  <2> QED
    BY <2>1, <2>2, <2>3 DEF LoadTyped
<1>7. call \in [Calls -> CallTypes]
  BY IdleTyped DEF Init
<1> QED
  BY <1>1, <1>2, <1>3, <1>4, <1>5, <1>6, <1>7 DEF Typed

(* Telling keeps the type of the list.                                     *)
LEMMA TellTyped == Typed /\ Tell => HeardTyped'
BY ListTyped DEF Typed, KitsTyped, Tell, TablesTyped, HeardTyped

(* A scan, its reconciling and the edits around it keep the types.         *)
LEMMA RefreshStepTyped == Typed /\ (KitStep \/ EditToml) => Typed'
<1> SUFFICES ASSUME Typed, KitStep \/ EditToml PROVE Typed'
  OBVIOUS
<1> USE Bounds
<1>1. ASSUME UNCHANGED customVars PROVE TablesTyped' /\ LoadTyped'
  BY <1>1 DEF customVars, Typed, TablesTyped, LoadTyped
<1>2. ASSUME UNCHANGED fileVars PROVE FilesTyped'
  BY <1>2 DEF fileVars, Typed, FilesTyped
<1>3. ASSUME UNCHANGED refreshVars PROVE RefreshTyped'
  BY <1>3 DEF refreshVars, Typed, RefreshTyped
<1>4. ASSUME UNCHANGED toldVars PROVE HeardTyped'
  BY <1>4 DEF toldVars, Typed, HeardTyped
<1>K. ASSUME UNCHANGED kitVars PROVE KitsTyped'
  BY <1>K DEF kitVars, Typed, KitsTyped
<1>5. ASSUME RefreshKeeps, KitsTyped', RefreshTyped', HeardTyped' PROVE Typed'
  BY <1>1, <1>2, <1>5 DEF RefreshKeeps, Typed
<1>6. CASE EditKits
  <2>1. FilesTyped'
    <3>1. edits' \in 0..MaxEdits
      BY <1>6 DEF EditKits, Changes, Typed, FilesTyped
    <3>2. disk' \in [Dirs -> Contents] /\ supplied' \in [Dirs -> SUBSET Vars]
      <4>1. \/ \E d \in Dirs, x \in Contents : disk' = [disk EXCEPT ![d] = x] /\ supplied' = supplied
            \/ \E d \in Dirs, vs \in SUBSET Vars :
                  supplied' = [supplied EXCEPT ![d] = vs] /\ disk' = disk
            \/ UNCHANGED <<disk, supplied>>
        BY <1>6 DEF EditKits
      <4> QED
        BY <4>1 DEF Typed, FilesTyped
    <3>3. toml' = toml /\ (absent' = absent \/ absent' \in SUBSET Commands)
      BY <1>6 DEF EditKits
    <3> QED
      BY <3>1, <3>2, <3>3 DEF Typed, FilesTyped
  <2> QED
    <3>1. UNCHANGED kitVars /\ call' = call /\ UNCHANGED refreshVars /\ UNCHANGED customVars
          /\ UNCHANGED toldVars
      BY <1>6 DEF EditKits, refreshVars, customVars
    <3>2. KitsTyped' /\ RefreshTyped' /\ TablesTyped' /\ LoadTyped' /\ HeardTyped'
      BY <1>1, <1>3, <1>4, <1>K, <3>1
    <3> QED
      BY <2>1, <3>1, <3>2 DEF Typed
<1>7. CASE EditToml
  <2>1. FilesTyped'
    <3>1. edits' \in 0..MaxEdits
      BY <1>7 DEF EditToml, Changes, Typed, FilesTyped
    <3>2. toml' = Broken \/ toml' \subseteq Servers
      BY <1>7 DEF EditToml
    <3>3. disk' = disk /\ supplied' = supplied /\ absent' = absent
      BY <1>7 DEF EditToml
    <3> QED
      BY <3>1, <3>2, <3>3 DEF Typed, FilesTyped
  <2> QED
    <3>1. UNCHANGED kitVars /\ call' = call /\ UNCHANGED refreshVars /\ UNCHANGED customVars
          /\ UNCHANGED toldVars
      BY <1>7 DEF EditToml, refreshVars, customVars
    <3>2. KitsTyped' /\ RefreshTyped' /\ TablesTyped' /\ LoadTyped' /\ HeardTyped'
      BY <1>1, <1>3, <1>4, <1>K, <3>1
    <3> QED
      BY <2>1, <3>1, <3>2 DEF Typed
<1>8. ASSUME Forget PROVE /\ target' \in Names \cup {None} /\ next' \in 1..(NDirs + 1)
                          /\ found' \in [Dirs -> Contents] /\ have' \in [Dirs -> SUBSET Vars]
  BY <1>8 DEF Forget, Contents
<1>9. CASE Refresh
  BY <1>4, <1>5, <1>K, <1>9 DEF Refresh, Typed, RefreshTyped
<1>10. CASE ListDirs
  BY <1>4, <1>5, <1>K, <1>10 DEF ListDirs, Typed, RefreshTyped, Contents
<1>11. CASE ReadDir
  <2>1. next \in Dirs /\ disk[next] \in Contents /\ supplied[next] \in SUBSET Vars
    BY <1>11 DEF ReadDir, Typed, FilesTyped
  <2>2. found' \in [Dirs -> Contents] /\ have' \in [Dirs -> SUBSET Vars]
    BY <1>11, <2>1 DEF ReadDir, Typed, RefreshTyped
  <2>3. next' \in 1..(NDirs + 1)
    BY <1>11, <2>1 DEF ReadDir, Dirs
  <2> QED
    BY <1>4, <1>5, <1>K, <1>11, <2>2, <2>3 DEF ReadDir, Typed, RefreshTyped
<1>12. CASE RefreshFails
  BY <1>4, <1>5, <1>8, <1>K, <1>12 DEF RefreshFails, Typed, RefreshTyped
<1>13. CASE Reconcile
  <2>1. kits' = kits \/ kits' = Reconciled(kits, Scanned(found, have), Invalid(found), target)
    BY <1>13 DEF Reconcile
  <2>2. Scanned(found, have) \subseteq Loaded
    BY ScannedKits DEF Typed, RefreshTyped
  <2>3. kits' \subseteq Loaded
    BY <2>1, <2>2 DEF Reconciled, Typed, KitsTyped
  <2>5. health' \in [Names -> Healths]
    <3>1. PICK updated : health' = HealthOf(kits', updated)
      BY <1>13 DEF Reconcile
    <3>2. \A m : Loads(m) \in Healths
      BY DEF Loads, Healths
    <3> QED
      BY <3>1, <3>2 DEF HealthOf, Typed, KitsTyped, Healths
  <2>4. refresh' \in {"tell", "idle"} /\ asked' \in BOOLEAN
    BY <1>13 DEF Reconcile, Typed, RefreshTyped
  <2> QED
    BY <1>4, <1>5, <1>8, <1>13, <2>3, <2>4, <2>5 DEF Reconcile, RefreshTyped, KitsTyped
<1>14. CASE Announce
  BY <1>5, <1>K, <1>14, TellTyped DEF Announce, Typed, RefreshTyped
<1>15. CASE RefreshDropped
  <2>1. HeardTyped'
    BY <1>15 DEF RefreshDropped, Typed, HeardTyped
  <2> QED
    BY <1>5, <1>8, <1>K, <1>15, <2>1 DEF RefreshDropped, Typed, RefreshTyped
<1>16. ASSUME NEW n \in Names, FallsIll(n) \/ Recovers(n) PROVE Typed'
  <2>1. health' \in [Names -> Healths] /\ kits' = kits
    BY <1>16 DEF FallsIll, Recovers, Typed, KitsTyped, Healths
  <2>2. UNCHANGED <<fileVars, refreshVars, customVars, toldVars, call>>
    BY <1>16 DEF FallsIll, Recovers
  <2>3. KitsTyped'
    BY <2>1 DEF Typed, KitsTyped
  <2> QED
    BY <1>1, <1>2, <1>3, <1>4, <2>2, <2>3 DEF Typed
<1> QED
  BY <1>6, <1>7, <1>9, <1>10, <1>11, <1>12, <1>13, <1>14, <1>15, <1>16
     DEF KitStep, RefreshStep, HealthStep

(* A load of mcp.toml keeps the types.                                     *)
LEMMA CustomStepTyped == Typed /\ CustomStep => Typed'
<1> SUFFICES ASSUME Typed, CustomStep PROVE Typed'
  OBVIOUS
<1> USE Bounds
<1>1. CASE EditToml
  BY <1>1, RefreshStepTyped
<1>2. ASSUME UNCHANGED <<fileVars, kitVars, refreshVars, call>>, TablesTyped', LoadTyped', HeardTyped'
      PROVE  Typed'
  <2>1. FilesTyped' /\ KitsTyped' /\ RefreshTyped'
    BY <1>2 DEF fileVars, kitVars, refreshVars, Typed, FilesTyped, KitsTyped, RefreshTyped
  <2> QED
    BY <1>2, <2>1 DEF Typed
<1>3. ASSUME UNCHANGED toldVars PROVE HeardTyped'
  BY <1>3 DEF toldVars, Typed, HeardTyped
<1>4. ASSUME UNCHANGED <<client, routes, tools, discovered>> PROVE TablesTyped'
  BY <1>4 DEF Typed, TablesTyped
<1>5. ASSUME UNCHANGED <<warm, loads, dropped>>,
             load' \in {"idle", "clear routes", "clear tools", "read",
                       "put client", "put routes", "put tools", "tell"}
      PROVE  LoadTyped'
  BY <1>5 DEF Typed, LoadTyped
<1>6. ASSUME Ends PROVE load' = "idle" /\ warm' \in {"due", "running", "done"}
  BY <1>6 DEF Ends, Typed, LoadTyped
<1>7. NoClient \in [load : 0..MaxLoads, servers : SUBSET Servers]
  BY DEF NoClient
<1>8. NoRoutes \in [load : 0..MaxLoads, pairs : SUBSET (Routes \X Servers)]
  BY DEF NoRoutes
<1>9. CASE Load
  <2>1. loads' \in 0..MaxLoads
    BY <1>9 DEF Load, Typed, LoadTyped
  <2>2. LoadTyped'
    BY <1>9, <2>1 DEF Load, Typed, LoadTyped
  <2> QED
    BY <1>2, <1>3, <1>4, <1>9, <2>2 DEF Load
<1>10. CASE Reload
  <2>1. loads' \in 0..MaxLoads
    <3>1. loads < MaxLoads /\ loads' = loads + 1
      BY <1>10 DEF Reload
    <3>2. loads \in 0..MaxLoads
      BY DEF Typed, LoadTyped
    <3> QED
      BY <3>1, <3>2
  <2>2. dropped' \in BOOLEAN
    BY <1>10 DEF Reload
  <2>3. LoadTyped'
    BY <1>10, <2>1, <2>2 DEF Reload, Typed, LoadTyped
  <2>4. TablesTyped'
    BY <1>7, <1>10 DEF Reload, Typed, TablesTyped
  <2> QED
    BY <1>2, <1>3, <1>10, <2>3, <2>4 DEF Reload
<1>11. CASE ClearRoutes
  <2>1. TablesTyped'
    BY <1>8, <1>11 DEF ClearRoutes, Typed, TablesTyped
  <2> QED
    BY <1>2, <1>3, <1>5, <1>11, <2>1 DEF ClearRoutes
<1>12. CASE ClearTools
  <2>1. TablesTyped'
    BY <1>12 DEF ClearTools, Typed, TablesTyped
  <2> QED
    BY <1>2, <1>3, <1>5, <1>12, <2>1 DEF ClearTools
<1>13. CASE LoadFails
  <2>1. HeardTyped'
    <3>1. cut' \in BOOLEAN
      BY <1>13 DEF LoadFails, Typed, HeardTyped
    <3> QED
      BY <1>13, <3>1 DEF LoadFails, Typed, HeardTyped
  <2>2. LoadTyped'
    BY <1>6, <1>13 DEF LoadFails, Typed, LoadTyped
  <2> QED
    BY <1>2, <1>4, <1>13, <2>1, <2>2 DEF LoadFails
<1>14. CASE Connect
  <2>1. toml \subseteq Servers
    BY <1>14 DEF Connect, Typed, FilesTyped
  <2>2. discovered' \subseteq Routes \X Servers /\ load' = "put client"
    BY <1>14, <2>1, AnswersTyped DEF Connect
  <2>3. TablesTyped'
    BY <1>14, <2>2 DEF Connect, Typed, TablesTyped
  <2> QED
    BY <1>2, <1>3, <1>5, <1>14, <2>2, <2>3 DEF Connect
<1>15. CASE NothingFound
  <2>1. LoadTyped'
    BY <1>6, <1>15 DEF NothingFound, Typed, LoadTyped
  <2> QED
    BY <1>2, <1>3, <1>4, <1>15, <2>1 DEF NothingFound
<1>16. CASE PutClient
  <2>1. {p[2] : p \in discovered} \subseteq Servers
    BY DEF Typed, TablesTyped
  <2>2. client' \in [load : 0..MaxLoads, servers : SUBSET Servers]
    BY <1>16, <2>1 DEF PutClient, Typed, LoadTyped
  <2>3. TablesTyped'
    BY <1>16, <2>2 DEF PutClient, Typed, TablesTyped
  <2> QED
    BY <1>2, <1>3, <1>5, <1>16, <2>3 DEF PutClient
<1>17. CASE PutRoutes
  <2>1. routes' \in [load : 0..MaxLoads, pairs : SUBSET (Routes \X Servers)]
    BY <1>17 DEF PutRoutes, Typed, LoadTyped, TablesTyped
  <2>2. TablesTyped'
    BY <1>17, <2>1 DEF PutRoutes, Typed, TablesTyped
  <2> QED
    BY <1>2, <1>3, <1>5, <1>17, <2>2 DEF PutRoutes
<1>18. CASE PutTools
  <2>1. TablesTyped'
    BY <1>18 DEF PutTools, Typed, TablesTyped
  <2> QED
    BY <1>2, <1>3, <1>5, <1>18, <2>1 DEF PutTools
<1>19. CASE Reloaded
  <2>1. HeardTyped'
    BY <1>19, TellTyped DEF Reloaded
  <2>2. dropped' \in BOOLEAN
    BY <1>19 DEF Reloaded
  <2>3. LoadTyped'
    BY <1>6, <1>19, <2>2 DEF Reloaded, Typed, LoadTyped
  <2> QED
    BY <1>2, <1>4, <1>19, <2>1, <2>3 DEF Reloaded
<1>20. CASE ReloadDropped
  <2>1. cut' \in BOOLEAN /\ dropped' \in BOOLEAN
    BY <1>20 DEF ReloadDropped
  <2>2. HeardTyped'
    BY <1>20, <2>1 DEF ReloadDropped, Typed, HeardTyped
  <2>3. LoadTyped'
    BY <1>20, <2>1 DEF ReloadDropped, Typed, LoadTyped
  <2> QED
    BY <1>2, <1>4, <1>20, <2>2, <2>3 DEF ReloadDropped
<1> QED
  BY <1>1, <1>9, <1>10, <1>11, <1>12, <1>13, <1>14, <1>15, <1>16, <1>17, <1>18, <1>19, <1>20
     DEF CustomStep

(* What a step of a call makes of it.                                      *)
LEMMA CallStepMoves ==
    ASSUME Typed, NEW c \in Calls,
           Resolve(c) \/ Count(c) \/ HasTool(c) \/ FindServer(c) \/ TakeClient(c) \/ Answered(c)
    PROVE  \E x \in CallTypes :
              /\ Goes(c, x)
              /\ \/ x.load = call[c].load /\ x.at \notin {"arc", "server"}
                 \/ x.load = 0 /\ x.at \notin {"arc", "server"}
                 \/ x.load = routes.load /\ x.at = "arc"
                 \/ /\ call[c].at = "arc" /\ client.load # 0
                    /\ x.at = "server" /\ x.load = call[c].load /\ x.client = client.load
<1> USE IdleTyped
<1>1. /\ call[c] \in CallTypes
      /\ client.load \in 0..MaxLoads /\ routes.load \in 0..MaxLoads
      /\ routes.pairs \subseteq Routes \X Servers
  BY DEF Typed, TablesTyped
<1>2. CASE Goes(c, Idle)
  BY <1>2 DEF Idle
<1>3. ASSUME NEW at \in {"count", "has", "find", "kit"}, Goes(c, [call[c] EXCEPT !.at = at])
      PROVE  \E x \in CallTypes :
                /\ Goes(c, x) /\ x.load = call[c].load /\ x.at \notin {"arc", "server"}
  <2>1. [call[c] EXCEPT !.at = at] \in CallTypes
    BY <1>1 DEF CallTypes
  <2> QED
    BY <1>1, <1>3, <2>1 DEF CallTypes
<1>4. CASE Resolve(c)
  <2>1. ASSUME NEW x \in CallTypes, Goes(c, x), x.load = 0, x.at = "count"
        PROVE  \E y \in CallTypes : Goes(c, y) /\ y.load = 0 /\ y.at \notin {"arc", "server"}
    BY <2>1
  <2>2. PICK r \in Routes :
           \/ Goes(c, [Idle EXCEPT !.at = "count", !.route = r])
           \/ \E k \in kits : Goes(c, [Idle EXCEPT !.at = "count", !.route = r, !.kit = NameOf[k.man]])
    BY <1>4 DEF Resolve
  <2>3. CASE Goes(c, [Idle EXCEPT !.at = "count", !.route = r])
    <3> DEFINE x == [Idle EXCEPT !.at = "count", !.route = r]
    <3>1. x \in CallTypes /\ x.load = 0 /\ x.at = "count"
      BY Bounds DEF CallTypes, Idle
    <3> QED
      BY <2>1, <2>3, <3>1
  <2>4. ASSUME NEW k \in kits, Goes(c, [Idle EXCEPT !.at = "count", !.route = r, !.kit = NameOf[k.man]])
        PROVE  \E y \in CallTypes : Goes(c, y) /\ y.load = 0 /\ y.at \notin {"arc", "server"}
    <3> DEFINE x == [Idle EXCEPT !.at = "count", !.route = r, !.kit = NameOf[k.man]]
    <3>1. NameOf[k.man] \in Names
      BY DEF Typed, KitsTyped, Loaded, Names
    <3>2. x \in CallTypes /\ x.load = 0 /\ x.at = "count"
      BY <3>1, Bounds DEF CallTypes, Idle
    <3> QED
      BY <2>1, <2>4, <3>2
  <2> QED
    BY <2>1, <2>2, <2>3, <2>4
<1>5. CASE Count(c)
  BY <1>2, <1>3, <1>5 DEF Count
<1>6. CASE HasTool(c)
  BY <1>2, <1>3, <1>6 DEF HasTool
<1>7. CASE FindServer(c)
  <2>1. CASE \E p \in Matches(c) :
                Goes(c, [call[c] EXCEPT !.at = "arc", !.server = p[2], !.load = routes.load])
    <3>1. PICK p \in Matches(c) :
             Goes(c, [call[c] EXCEPT !.at = "arc", !.server = p[2], !.load = routes.load])
      BY <2>1
    <3>2. p[2] \in Servers
      BY <1>1 DEF Matches
    <3> DEFINE x == [call[c] EXCEPT !.at = "arc", !.server = p[2], !.load = routes.load]
    <3>3. x \in CallTypes /\ x.load = routes.load /\ x.at = "arc"
      BY <1>1, <3>2 DEF CallTypes
    <3> QED
      BY <3>1, <3>3
  <2> QED
    BY <1>2, <1>7, <2>1 DEF FindServer
<1>8. CASE TakeClient(c)
  <2>1. CASE client.load # 0 /\ Goes(c, [call[c] EXCEPT !.at = "server", !.client = client.load])
    <3> DEFINE x == [call[c] EXCEPT !.at = "server", !.client = client.load]
    <3>1. /\ x \in CallTypes /\ x.load = call[c].load /\ x.at = "server" /\ x.client = client.load
          /\ call[c].at = "arc"
      BY <1>1, <1>8 DEF CallTypes, TakeClient
    <3> QED
      BY <2>1, <3>1
  <2> QED
    BY <1>2, <1>8, <2>1 DEF TakeClient
<1>9. CASE Answered(c)
  BY <1>2, <1>9 DEF Answered
<1> QED
  BY <1>4, <1>5, <1>6, <1>7, <1>8, <1>9

(* So does what changes only the calls.                                    *)
LEMMA FrameTyped ==
    ASSUME Typed, UNCHANGED <<fileVars, kitVars, refreshVars, customVars, toldVars>>,
           call' \in [Calls -> CallTypes]
    PROVE  Typed'
<1>1. FilesTyped' /\ RefreshTyped'
  BY DEF fileVars, refreshVars, Typed, FilesTyped, RefreshTyped
<1>2. TablesTyped' /\ LoadTyped'
  BY DEF customVars, Typed, TablesTyped, LoadTyped
<1>3. HeardTyped' /\ KitsTyped'
  BY DEF toldVars, kitVars, Typed, HeardTyped, KitsTyped
<1> QED
  BY <1>1, <1>2, <1>3 DEF Typed

(* A call changes nothing but itself and counts.                           *)
LEMMA CallStepTyped == Typed /\ CallStep => Typed' /\ CallKeeps
<1> SUFFICES ASSUME Typed, CallStep PROVE Typed' /\ CallKeeps
  OBVIOUS
<1>1. CallKeeps
  BY DEF CallStep, Resolve, Count, HasTool, FindServer, TakeClient, Answered
<1>2. call' \in [Calls -> CallTypes]
  <2>1. PICK c \in Calls :
           Resolve(c) \/ Count(c) \/ HasTool(c) \/ FindServer(c) \/ TakeClient(c) \/ Answered(c)
    BY DEF CallStep
  <2>2. PICK x \in CallTypes : Goes(c, x)
    BY <2>1, CallStepMoves
  <2> QED
    BY <2>2 DEF Goes, Typed
<1> QED
  BY <1>1, <1>2, FrameTyped DEF CallKeeps

(* Every step keeps the types.                                             *)
LEMMA TypedNext == Typed /\ [Next]_vars => Typed'
<1>1. Typed /\ UNCHANGED vars => Typed'
  <2> SUFFICES ASSUME Typed, UNCHANGED vars PROVE Typed'
    OBVIOUS
  <2>1. UNCHANGED <<fileVars, kitVars, refreshVars, customVars, toldVars>> /\ call' = call
    BY DEF vars
  <2> QED
    BY <2>1, FrameTyped DEF Typed
<1> QED
  BY <1>1, RefreshStepTyped, CustomStepTyped, CallStepTyped DEF Next

(* Every variable keeps its type: the tables name only servers and routes  *)
(* there are, and the numbers of the loads stay within their bound.        *)
THEOREM TypeCorrect == Spec => []TypeOK
BY TypedInit, TypedNext, TypedRecords, PTL DEF Spec

-----------------------------------------------------------------------------
(* The Kits                                                                *)

(* No Kit is loaded at first.                                              *)
LEMMA ApartInit == Init => Apart(kits)
BY ScannedKits DEF Init

(* Every step leaves the loaded Kits apart.                                *)
LEMMA ApartNext == Typed /\ Apart(kits) /\ [Next]_vars => Apart(kits)'
<1> SUFFICES ASSUME Typed, Apart(kits), [Next]_vars PROVE Apart(kits)'
  OBVIOUS
<1>1. ASSUME kits' = kits PROVE Apart(kits)'
  BY <1>1 DEF Apart
<1>2. CASE Reconcile
  <2> DEFINE F == Scanned(found, have)
  <2>1. kits \in SUBSET Loaded /\ F \in SUBSET Loaded /\ Apart(F) /\ \A c \in F : c.dir \notin Invalid(found)
    BY ScannedKits DEF Typed, KitsTyped, RefreshTyped
  <2>2. Apart(Reconciled(kits, F, Invalid(found), target))
    BY <2>1, ReconciledKits
  <2>3. kits' = Reconciled(kits, F, Invalid(found), target)
    BY <1>2 DEF Reconcile
  <2> QED
    BY <2>2, <2>3 DEF Apart
<1>3. CASE CallStep \/ CustomStep \/ UNCHANGED vars
  <2>1. kits' = kits
    BY <1>3 DEF kitVars, CallStep, Resolve, Count, HasTool, FindServer, TakeClient, Answered, CallKeeps,
       CustomStep, EditToml, Load, Reload, ClearRoutes, ClearTools, LoadFails, Connect,
       NothingFound,
       PutClient, PutRoutes, PutTools, Reloaded, ReloadDropped, vars
  <2> QED
    BY <1>1, <2>1
<1>4. CASE \/ EditKits \/ Refresh \/ ListDirs \/ ReadDir \/ RefreshFails \/ Announce
           \/ RefreshDropped \/ HealthStep
  BY <1>1, <1>4 DEF kitVars, HealthStep, FallsIll, Recovers, EditKits, Refresh, ListDirs, ReadDir, RefreshFails, Announce, RefreshDropped
<1> QED
  BY <1>2, <1>3, <1>4 DEF Next, KitStep, RefreshStep

(* No two loaded Kits share a name, a directory or a route, for any kits   *)
(* directory and whatever is edited between and during the scans.          *)
THEOREM RoutesSafe == Spec => []RoutesUnambiguous
<1>1. Apart(kits) => RoutesUnambiguous
  BY DEF Apart, RoutesUnambiguous
<1> QED
  BY <1>1, TypedInit, TypedNext, ApartInit, ApartNext, PTL DEF Spec

KitKept(k) ==
    \/ \E m \in kits' : NameOf[m.man] = NameOf[k.man] \/ m.dir = k.dir
    \/ found[k.dir] \in {Gone, Foreign}
    \/ found[k.dir] \in Manifests /\ target \notin {None, NameOf[found[k.dir]]}

(* Every step keeps each Kit, or had a reason not to.                      *)
LEMMA KeptStep == Typed /\ Apart(kits) /\ [Next]_vars => \A k \in kits : KitKept(k)
<1> SUFFICES ASSUME Typed, Apart(kits), [Next]_vars, NEW k \in kits PROVE KitKept(k)
  OBVIOUS
<1>1. ASSUME kits' = kits PROVE KitKept(k)
  BY <1>1 DEF KitKept
<1>2. CASE Reconcile
  <2> DEFINE F == Scanned(found, have)
             I == Invalid(found)
  <2>1. /\ kits \in SUBSET Loaded /\ F \in SUBSET Loaded /\ Apart(F)
        /\ \A c \in F : c.dir \notin I /\ c.man = found[c.dir]
        /\ \A d \in Dirs \ I : found[d] \in Manifests => \E c \in F : c.dir = d
    BY ScannedKits DEF Typed, KitsTyped, RefreshTyped
  <2>2. kits' = Reconciled(kits, F, I, target)
    BY <1>2 DEF Reconcile
  <2> HIDE DEF F, I
  <2>3. \/ \E m \in kits' : NameOf[m.man] = NameOf[k.man] \/ m.dir = k.dir
        \/ k.dir \notin I /\ \A c \in F : c.dir = k.dir => ~Named(target, c)
    BY <2>1, <2>2, ReconciledKits
  <2>4. ASSUME k.dir \notin I, \A c \in F : c.dir = k.dir => ~Named(target, c)
        PROVE  \/ found[k.dir] \in {Gone, Foreign}
               \/ found[k.dir] \in Manifests /\ target \notin {None, NameOf[found[k.dir]]}
    <3>1. k.dir \in Dirs /\ found[k.dir] \in Contents
      BY DEF Typed, KitsTyped, Loaded, RefreshTyped
    <3>2. found[k.dir] # Broken
      BY <2>4, <3>1 DEF I, Invalid
    <3>3. ASSUME found[k.dir] \in Manifests PROVE target \notin {None, NameOf[found[k.dir]]}
      <4>1. PICK c \in F : c.dir = k.dir
        BY <2>1, <2>4, <3>1, <3>3
      <4> QED
        BY <2>1, <2>4, <4>1 DEF Named
    <3> QED
      BY <3>1, <3>2, <3>3 DEF Contents
  <2> QED
    BY <2>3, <2>4 DEF KitKept
<1>3. CASE CallStep \/ CustomStep \/ UNCHANGED vars
  <2>1. kits' = kits
    BY <1>3 DEF kitVars, CallStep, Resolve, Count, HasTool, FindServer, TakeClient, Answered, CallKeeps,
       CustomStep, EditToml, Load, Reload, ClearRoutes, ClearTools, LoadFails, Connect,
       NothingFound,
       PutClient, PutRoutes, PutTools, Reloaded, ReloadDropped, vars
  <2> QED
    BY <1>1, <2>1
<1>4. CASE \/ EditKits \/ Refresh \/ ListDirs \/ ReadDir \/ RefreshFails \/ Announce
           \/ RefreshDropped \/ HealthStep
  BY <1>1, <1>4 DEF kitVars, HealthStep, FallsIll, Recovers, EditKits, Refresh, ListDirs, ReadDir, RefreshFails, Announce, RefreshDropped
<1> QED
  BY <1>2, <1>3, <1>4 DEF Next, KitStep, RefreshStep

(* A loaded Kit goes only if its directory went, if another Kit took its   *)
(* name or directory over, or would have but for the target of a reload.   *)
THEOREM KitsKept == Spec => KitsAreKept
BY TypedInit, TypedNext, ApartInit, ApartNext, KeptStep, PTL DEF Spec, KitsAreKept, KitKept

-----------------------------------------------------------------------------
(* The custom tools                                                        *)

(* No custom tool is loaded at first.                                      *)
LEMMA CustomInit == Init => CustomInv
<1> SUFFICES ASSUME Init PROVE CustomInv
  OBVIOUS
<1>1. /\ client = [load |-> 0, servers |-> {}] /\ routes = [load |-> 0, pairs |-> {}] /\ tools = {}
      /\ load = "idle" /\ warm = "due" /\ loads = 0 /\ told = List(kits, health, tools) /\ heard = health
      /\ call = [c \in Calls |-> Idle]
  BY DEF Init, NoClient, NoRoutes
<1>2. client.load = 0 /\ routes.load = 0 /\ routes.pairs = {}
  BY <1>1
<1>3. TablesInv
  BY <1>1, <1>2 DEF TablesInv, WarmReads, Cleared, Stored, Kept, Consistent
<1>4. Numbered /\ RouteMeetsItsClient
  BY <1>1, <1>2 DEF Numbered, RouteMeetsItsClient, Idle
<1>5. Told
  BY <1>1 DEF Told, SameMissing
<1>6. IllAreLoaded
  BY DEF Init, IllAreLoaded
<1> QED
  BY <1>3, <1>4, <1>5, <1>6 DEF CustomInv

(* Steps of the Kits and of calls leave the custom tools alone.            *)
LEMMA OthersKeep ==
    Typed /\ (KitStep \/ EditToml \/ CallStep \/ UNCHANGED vars) =>
        UNCHANGED <<client, routes, tools, load, warm, discovered, loads, dropped>>
BY CallStepTyped
   DEF KitStep, EditKits, RefreshStep, Refresh, ListDirs, ReadDir, RefreshFails, Reconcile,
       Announce,
       RefreshDropped, RefreshKeeps, HealthStep, FallsIll, Recovers, EditToml, CallKeeps, customVars, vars

(* Every step keeps what a load has done to the three tables.              *)
LEMMA TablesNext == Typed /\ TablesInv /\ [Next]_vars => TablesInv'
<1> SUFFICES ASSUME Typed, TablesInv, [Next]_vars PROVE TablesInv'
  OBVIOUS
<1> USE DEF TablesInv, WarmReads, Cleared, Stored, Kept, Consistent, Request
<1>0. NoClient.load = 0 /\ NoRoutes.load = 0 /\ NoRoutes.pairs = {}
  BY DEF NoClient, NoRoutes
<1>1. CASE KitStep \/ EditToml \/ CallStep \/ UNCHANGED vars
  BY <1>1, OthersKeep
<1>2. CASE Load
  BY <1>2 DEF Load
<1>3. CASE Reload
  BY <1>3 DEF Reload
<1>4. CASE ClearRoutes
  BY <1>4 DEF ClearRoutes
<1>5. CASE ClearTools
  <2>1. /\ client' = NoClient /\ routes' = NoRoutes /\ tools' = {}
        /\ load' = "read" /\ warm' # "running"
    BY <1>5 DEF ClearTools
  <2> QED
    BY <1>0, <2>1
<1>6. CASE LoadFails
  <2>1. /\ load = "read" /\ load' = "idle" /\ warm' # "running"
        /\ UNCHANGED <<client, routes, tools, dropped>>
    BY <1>6 DEF LoadFails, Ends
  <2> QED
    BY <1>0, <2>1
<1>7. CASE Connect
  BY <1>7 DEF Connect
<1>8. CASE NothingFound
  <2>1. load = "read" /\ UNCHANGED <<client, routes, tools, dropped>>
    BY <1>8 DEF NothingFound
  <2>2. CASE Request
    <3>1. load' = "tell" /\ warm' = warm
      BY <1>8, <2>2 DEF NothingFound
    <3> QED
      BY <1>0, <2>1, <2>2, <3>1
  <2>3. CASE ~Request
    <3>1. load' = "idle" /\ warm' = "done"
      BY <1>8, <2>3 DEF NothingFound, Ends
    <3> QED
      BY <2>1, <2>3, <3>1
  <2> QED
    BY <2>2, <2>3
<1>9. CASE PutClient
  BY <1>9 DEF PutClient
<1>10. CASE PutRoutes
  BY <1>10 DEF PutRoutes
<1>11. CASE PutTools
  <2>1. /\ client = [load |-> loads, servers |-> {p[2] : p \in discovered}]
        /\ routes = [load |-> loads, pairs |-> discovered]
        /\ UNCHANGED <<client, routes, warm>> /\ tools' = discovered /\ load' = "tell"
    BY <1>11 DEF PutTools
  <2>2. Consistent'
    BY <2>1
  <2> QED
    BY <2>1, <2>2
<1>12. CASE Reloaded
  BY <1>12 DEF Reloaded, Ends
<1>13. CASE ReloadDropped
  BY <1>13 DEF ReloadDropped
<1> QED
  BY <1>1, <1>2, <1>3, <1>4, <1>5, <1>6, <1>7, <1>8, <1>9, <1>10, <1>11, <1>12, <1>13
     DEF Next, CustomStep

(* Every step keeps the order of clients, routes and calls.                *)
LEMMA NumbersNext ==
    Typed /\ TablesInv /\ Numbered /\ RouteMeetsItsClient /\ [Next]_vars =>
        Numbered' /\ RouteMeetsItsClient'
<1> SUFFICES ASSUME Typed, TablesInv, Numbered, RouteMeetsItsClient, [Next]_vars
             PROVE  Numbered' /\ RouteMeetsItsClient'
  OBVIOUS
<1>1. /\ client.load \in Nat /\ routes.load \in Nat /\ loads \in Nat
      /\ call \in [Calls -> CallTypes]
      /\ \A c \in Calls : call[c].load \in Nat /\ call[c].client \in Nat
  <2>1. MaxLoads \in Nat /\ 0..MaxLoads \subseteq Nat
    BY Bounds
  <2>2. client.load \in 0..MaxLoads /\ routes.load \in 0..MaxLoads /\ loads \in 0..MaxLoads
    BY DEF Typed, TablesTyped, LoadTyped
  <2>3. call \in [Calls -> CallTypes] /\ \A x \in CallTypes : x.load \in 0..MaxLoads /\ x.client \in 0..MaxLoads
    BY DEF Typed, CallTypes
  <2> QED
    BY <2>1, <2>2, <2>3
<1>2. ASSUME call' = call, client'.load = client.load, routes'.load = routes.load,
             loads' = loads \/ loads' = loads + 1
      PROVE  Numbered' /\ RouteMeetsItsClient'
  BY <1>1, <1>2 DEF Numbered, RouteMeetsItsClient
<1>3. CASE KitStep \/ EditToml \/ UNCHANGED vars
  <2>1. call' = call
    BY <1>3 DEF KitStep, EditKits, RefreshStep, Refresh, ListDirs, ReadDir, RefreshFails,
       Reconcile,
       Announce, RefreshDropped, RefreshKeeps, HealthStep, FallsIll, Recovers, EditToml, vars
  <2> QED
    BY <1>2, <1>3, <2>1, OthersKeep
<1>4. CASE CallStep
  <2>1. PICK c \in Calls :
           Resolve(c) \/ Count(c) \/ HasTool(c) \/ FindServer(c) \/ TakeClient(c) \/ Answered(c)
    BY <1>4 DEF CallStep
  <2>2. PICK x \in CallTypes :
           /\ Goes(c, x)
           /\ \/ x.load = call[c].load /\ x.at \notin {"arc", "server"}
              \/ x.load = 0 /\ x.at \notin {"arc", "server"}
              \/ x.load = routes.load /\ x.at = "arc"
              \/ /\ call[c].at = "arc" /\ client.load # 0
                 /\ x.at = "server" /\ x.load = call[c].load /\ x.client = client.load
    BY <2>1, CallStepMoves
  <2>3. call'[c] = x /\ \A d \in Calls \ {c} : call'[d] = call[d]
    BY <1>1, <2>2, CallsTyped
  <2>4. UNCHANGED <<client, routes, loads>>
    BY <1>4, OthersKeep
  <2> QED
    BY <1>1, <2>2, <2>3, <2>4 DEF Numbered, RouteMeetsItsClient
<1>5. ASSUME call' = call, loads' = loads, client'.load = client.load, routes'.load = 0
      PROVE  Numbered' /\ RouteMeetsItsClient'
  BY <1>1, <1>5 DEF Numbered, RouteMeetsItsClient
<1>6. CASE Reload
  <2>1. client'.load = 0 /\ routes' = routes /\ call' = call /\ loads' = loads + 1
    BY <1>6 DEF Reload, NoClient
  <2> QED
    BY <1>1, <2>1 DEF Numbered, RouteMeetsItsClient
<1>7. CASE ClearRoutes
  BY <1>5, <1>7 DEF ClearRoutes, NoRoutes
<1>8. CASE PutClient
  <2>1. client'.load = loads /\ UNCHANGED <<routes, call, loads>>
    BY <1>8 DEF PutClient
  <2> QED
    BY <1>1, <2>1 DEF Numbered, RouteMeetsItsClient
<1>9. CASE PutRoutes
  <2>1. client = [load |-> loads, servers |-> {p[2] : p \in discovered}]
    BY <1>9 DEF PutRoutes, TablesInv, Stored
  <2>2. client.load = loads /\ routes'.load = loads /\ UNCHANGED <<client, call, loads>>
    BY <1>9, <2>1 DEF PutRoutes
  <2> QED
    BY <1>1, <2>2 DEF Numbered, RouteMeetsItsClient
<1>10. CASE \/ Load \/ ClearTools \/ LoadFails \/ Connect \/ NothingFound \/ PutTools \/ Reloaded
            \/ ReloadDropped
  BY <1>2, <1>10 DEF Load, ClearTools, LoadFails, Connect, NothingFound, PutTools, Reloaded,
     ReloadDropped
<1> QED
  BY <1>3, <1>4, <1>6, <1>7, <1>8, <1>9, <1>10 DEF Next, CustomStep

(* A scan that updates nothing leaves the health of every Kit alone; one   *)
(* that does leaves only loaded Kits ill.                                  *)
LEMMA ReconcileHealth ==
    ASSUME Typed, IllAreLoaded, Reconcile
    PROVE  IllAreLoaded' /\ (refresh' = "tell" \/ UNCHANGED <<kits, health>>)
<1> DEFINE F == Scanned(found, have)
<1>1. PICK others \in SUBSET kits :
        LET updated == Updated(Taken(kits, F, Invalid(found), target), others)
        IN  /\ kits' = Reconciled(kits, F, Invalid(found), target)
            /\ health' = HealthOf(kits', updated)
            /\ \/ refresh' = "tell"
               \/ kits' = kits /\ updated = {}
  BY DEF Reconcile
<1> DEFINE updated == Updated(Taken(kits, F, Invalid(found), target), others)
<1>2. updated \subseteq kits'
  BY <1>1 DEF Updated, Taken, Reconciled
<1>3. health' = HealthOf(kits', updated) /\ (refresh' = "tell" \/ (kits' = kits /\ updated = {}))
  BY <1>1
<1> HIDE DEF updated, F
<1>4. \A n \in Names : health'[n] # "well" => \E k \in kits' : NameOf[k.man] = n
  BY <1>2, <1>3 DEF HealthOf
<1>5. ASSUME kits' = kits, updated = {} PROVE health' = health
  <2>1. health' = [n \in Names |-> IF \E k \in kits : NameOf[k.man] = n THEN health[n] ELSE "well"]
    BY <1>3, <1>5 DEF HealthOf
  <2>2. health \in [Names -> Healths]
    BY DEF Typed, KitsTyped
  <2>3. \A n \in Names : health'[n] = health[n]
    BY <2>1 DEF IllAreLoaded
  <2> QED
    BY <2>1, <2>2, <2>3
<1> QED
  BY <1>3, <1>4, <1>5 DEF IllAreLoaded

(* Only loaded Kits are ill.                                               *)
LEMMA IllNext == Typed /\ IllAreLoaded /\ [Next]_vars => IllAreLoaded'
<1> SUFFICES ASSUME Typed, IllAreLoaded, [Next]_vars PROVE IllAreLoaded'
  OBVIOUS
<1>1. ASSUME UNCHANGED <<kits, health>> PROVE IllAreLoaded'
  BY <1>1 DEF IllAreLoaded
<1>2. CASE Reconcile
  BY <1>2, ReconcileHealth
<1>3. CASE CallStep \/ CustomStep \/ UNCHANGED vars
  <2>1. UNCHANGED <<kits, health>>
    BY <1>3 DEF kitVars, CallStep, Resolve, Count, HasTool, FindServer, TakeClient, Answered,
       CallKeeps, CustomStep, EditToml, Load, Reload, ClearRoutes, ClearTools, LoadFails, Connect,
       NothingFound, PutClient, PutRoutes, PutTools, Reloaded, ReloadDropped, vars
  <2> QED
    BY <1>1, <2>1
<1>4. CASE EditKits \/ Refresh \/ ListDirs \/ ReadDir \/ RefreshFails \/ Announce \/ RefreshDropped
  <2>1. UNCHANGED <<kits, health>>
    BY <1>4 DEF kitVars, EditKits, Refresh, ListDirs, ReadDir, RefreshFails, Announce,
       RefreshDropped
  <2> QED
    BY <1>1, <2>1
<1>5. ASSUME NEW n \in Names, FallsIll(n) \/ Recovers(n) PROVE IllAreLoaded'
  <2>1. health \in [Names -> Healths]
    BY DEF Typed, KitsTyped
  <2>2. CASE FallsIll(n)
    BY <2>1, <2>2 DEF FallsIll, IllAreLoaded
  <2>3. CASE Recovers(n)
    BY <2>1, <2>3 DEF Recovers, IllAreLoaded
  <2> QED
    BY <1>5, <2>2, <2>3
<1> QED
  BY <1>2, <1>3, <1>4, <1>5 DEF Next, KitStep, RefreshStep, HealthStep

(* Every step keeps the told list true, or is between two tellings.        *)
LEMMA ToldNext == Typed /\ TablesInv /\ IllAreLoaded /\ Told /\ [Next]_vars => Told'
<1> SUFFICES ASSUME Typed, TablesInv, IllAreLoaded, Told, [Next]_vars PROVE Told'
  OBVIOUS
<1> USE DEF Told, Unchanged, SameMissing, toldVars, kitVars
<1>1. ASSUME UNCHANGED <<kits, health, heard, tools, load, warm, told>>,
             refresh' # "tell" /\ ~cut' => refresh # "tell" /\ ~cut
      PROVE  Told'
  BY <1>1
<1>2. ASSUME UNCHANGED <<kits, health, tools>>, Tell PROVE Told'
  BY <1>2 DEF Tell
<1>3. CASE KitStep \/ EditToml \/ CallStep \/ UNCHANGED vars
  <2>1. UNCHANGED <<tools, load, warm>>
    BY <1>3, OthersKeep
  <2>2. CASE Reconcile
    <3>1. refresh = "read" /\ UNCHANGED <<told, heard, cut>>
      BY <2>2 DEF Reconcile
    <3>2. refresh' = "tell" \/ UNCHANGED <<kits, health>>
      BY <2>2, ReconcileHealth
    <3> QED
      BY <1>1, <2>1, <3>1, <3>2
  <2>3. CASE Announce
    BY <1>2, <2>1, <2>3 DEF Announce
  <2>4. CASE RefreshDropped
    BY <1>1, <2>1, <2>4 DEF RefreshDropped
  <2>5. CASE Refresh \/ ListDirs \/ ReadDir \/ RefreshFails
    BY <1>1, <2>1, <2>5 DEF Refresh, ListDirs, ReadDir, RefreshFails
  <2>6. CASE EditKits \/ EditToml \/ CallStep \/ UNCHANGED vars
    <3>1. UNCHANGED <<kits, health, refresh, told, heard, cut>>
      BY <2>6, CallStepTyped DEF EditKits, EditToml, CallKeeps, refreshVars, vars
    <3> QED
      BY <1>1, <2>1, <3>1
  <2>7. ASSUME NEW n \in Names, FallsIll(n) \/ Recovers(n) PROVE Told'
    <3>1. UNCHANGED <<kits, refresh, told, heard, cut>>
      BY <2>7 DEF FallsIll, Recovers, refreshVars
    <3>2. \A m \in Names : health'[m] = health[m] \/ (health[m] # "missing" /\ health'[m] # "missing")
      BY <2>7 DEF FallsIll, Recovers, Typed, KitsTyped
    <3> QED
      BY <2>1, <3>1, <3>2
  <2> QED
    BY <1>3, <2>2, <2>3, <2>4, <2>5, <2>6, <2>7 DEF KitStep, RefreshStep, HealthStep
<1>4. ASSUME UNCHANGED <<kits, health, heard, refresh, told, cut>>,
             \/ warm' # "running" /\ load' # "idle"
             \/ load' = "tell"
             \/ tools' = tools /\ Unchanged
      PROVE  Told'
  BY <1>4
<1>5. CASE Load
  BY <1>4, <1>5 DEF Load, refreshVars
<1>6. CASE Reload \/ ClearRoutes \/ ClearTools
  BY <1>4, <1>6 DEF Reload, ClearRoutes, ClearTools, refreshVars, TablesInv, WarmReads
<1>7. CASE LoadFails
  BY <1>7 DEF LoadFails, Ends, Request, refreshVars
<1>8. CASE NothingFound
  BY <1>4, <1>8 DEF NothingFound, Ends, Request, refreshVars
<1>9. CASE Connect \/ PutClient \/ PutRoutes
  BY <1>4, <1>9 DEF Connect, PutClient, PutRoutes, refreshVars
<1>10. CASE PutTools
  BY <1>4, <1>10 DEF PutTools, refreshVars
<1>11. CASE Reloaded
  BY <1>2, <1>11 DEF Reloaded
<1>12. CASE ReloadDropped
  BY <1>12 DEF ReloadDropped
<1> QED
  BY <1>3, <1>5, <1>6, <1>7, <1>8, <1>9, <1>10, <1>11, <1>12 DEF Next, CustomStep

(* Hence the whole invariant is kept.                                      *)
LEMMA CustomNext == Typed /\ CustomInv /\ [Next]_vars => CustomInv'
BY TablesNext, NumbersNext, IllNext, ToldNext DEF CustomInv

(* Once nothing reloads, clients were told the list there is but for Kits  *)
(* that failed or cooled down since; every listed custom tool has a route  *)
(* to a server that runs; no call takes a route to a client older than it: *)
(* for any interleaving of Kit refreshes, failures of Kits, custom reloads,*)
(* their failures and cancellations, and calls.                            *)
THEOREM ToldSafe == Spec => []ToldCanBeCalled
<1>1. Typed /\ CustomInv => ToldCanBeCalled
  BY TypedRecords DEF CustomInv, TablesInv, Kept, Consistent, Told, Unchanged, SameMissing,
     ToldCanBeCalled, ChangesAreTold, Quiet, ListedIsRouted
<1> QED
  BY <1>1, TypedInit, TypedNext, CustomInit, CustomNext, PTL DEF Spec
=============================================================================
