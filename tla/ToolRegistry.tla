----------------------------- MODULE ToolRegistry -----------------------------
(***************************************************************************)
(* What the ToolHost of tools/mod.rs offers: the Kits that kits/loader.rs  *)
(* finds on disk and KitManager::refresh_kits_target reconciles with the   *)
(* registry, and the custom MCP servers that tools/custom.rs and           *)
(* mcp/client.rs start from mcp.toml.  Calls are routed by name to either. *)
(*                                                                         *)
(* Installers and the being edit the files at any moment; a scan reads one *)
(* directory after the other.  Refreshes of the Kits are serialized, so    *)
(* are loads of the custom tools, but calls look at each table under its   *)
(* own short lock.  A request that reloads may be cancelled at any await.  *)
(* Names are equal here when their routes are ('-' and '_' do not differ). *)
(* Of the health of a Kit only what the list depends on is here; how its   *)
(* process fails is in KitManager.                                         *)
(***************************************************************************)
EXTENDS Naturals, FiniteSets

CONSTANTS
    NDirs,       \* directories below the kits directory, in scan order
    Manifests,   \* valid manifests, each with ...
    NameOf,      \* ... its Kit name,
    RoutesOf,    \* ... the routes <kit>_<tool> of its tools,
    Requires,    \* ... the variables provision.env requires,
    AuthOf,      \* ... the methods of provision.auth, {} for none,
    CommandOf,   \* ... and the command it is started with
    Vars,        \* variables and credential files a user may supply
    Servers,     \* servers mcp.toml may list
    Offers,      \* [Servers -> routes of their tools]
    Calls,       \* calls of external tools
    Gone, Broken, Foreign, \* no directory; unreadable manifest; other platform
    None,
    MaxEdits,    \* bound on changes of files
    MaxLoads     \* bound on loads of custom tools

Dirs == 1..NDirs
Routes == (UNION {RoutesOf[m] : m \in Manifests}) \cup (UNION {Offers[s] : s \in Servers})
Names == {NameOf[m] : m \in Manifests}
Commands == {CommandOf[m] : m \in Manifests}
Contents == Manifests \cup {Gone, Broken, Foreign}

(* Listed; its command not found when it was loaded; failed three times.   *)
Healths == {"well", "missing", "failed"}

ASSUME BoundAssumption == {NDirs, MaxEdits, MaxLoads} \subseteq Nat
ASSUME NoneAssumption ==
    /\ Manifests \cap {Gone, Broken, Foreign, None} = {}
    /\ None \notin Names \cup Servers

VARIABLES
    \* --- files ------------------------------------------------------------------
    disk,       \* [Dirs -> content of the Kit directory]
    supplied,   \* [Dirs -> variables and credential files it provides]
    toml,       \* servers of tools/mcp.toml, or Broken
    absent,     \* commands that are not installed
    edits,
    \* --- Kits -------------------------------------------------------------------
    kits,       \* the registry: a set of loaded Kits
    health,     \* [Names -> the health of the Kit], "well" if none is loaded
    refresh,    \* where the refresh that has kit_refresh_lock is
    asked,      \* a request asked for it; else the background scan
    target,     \* the one Kit it reloads, or None
    next,       \* directory its scan reads next
    found,      \* [Dirs -> what its scan read so far]
    have,       \* [Dirs -> variables its scan read]
    \* --- custom tools --------------------------------------------------------------
    client,     \* the connected servers, with the number of the load
    routes,     \* tool_routes: pairs of a route and a server
    tools,      \* the cached tool list
    load,       \* where the load that has custom_reload_lock is
    warm,       \* the load at start-up is due, running or done
    discovered, \* pairs its servers answered
    loads,      \* loads started
    dropped,    \* the last reload was cancelled half way
    \* --- clients ---------------------------------------------------------------------
    told,       \* the tool list at the last change notification
    heard,      \* the health of the Kits then
    cut,        \* since then a reload failed or was dropped
    call        \* [Calls -> a call on its way to a tool]

fileVars == <<disk, supplied, toml, absent, edits>>
kitVars == <<kits, health>>
refreshVars == <<refresh, asked, target, next, found, have>>
customVars == <<client, routes, tools, load, warm, discovered, loads, dropped>>
toldVars == <<told, heard, cut>>
vars == <<fileVars, kitVars, refreshVars, customVars, toldVars, call>>

NoClient == [load |-> 0, servers |-> {}]
NoRoutes == [load |-> 0, pairs |-> {}]
Idle == [at |-> "idle", route |-> None, kit |-> None, server |-> None, load |-> 0, client |-> 0]

-----------------------------------------------------------------------------
(* Configuration of a Kit *)

(* AuthState::load: what one method lacks. *)
Usable(method, vs) ==
    /\ method.provider \in {"env", "file", "kit"}
    /\ method.provider = "kit" \/ method.needs # {}
    /\ method.needs \subseteq vs

(* configuration_error: required variables first, then some usable method. *)
Configured(m, vs) ==
    /\ Requires[m] \subseteq vs
    /\ AuthOf[m] = {} \/ \E method \in AuthOf[m] : Usable(method, vs)

Kit(d, m, vs) == [dir |-> d, man |-> m, ok |-> Configured(m, vs)]

-----------------------------------------------------------------------------
(* Scanning and reconciling (loader.rs, manager.rs) *)

Collide(m, n) == NameOf[m] = NameOf[n] \/ RoutesOf[m] \cap RoutesOf[n] # {}

(* scan_kits_from_dir: the Kits that conflict with no other, ...           *)
Scanned(f, h) ==
    {Kit(d, f[d], h[d]) : d \in {e \in Dirs :
        /\ f[e] \in Manifests
        /\ \A x \in Dirs \ {e} : f[x] \in Manifests => ~Collide(f[e], f[x])}}

(* ... and the directories that keep what was loaded from them.            *)
InvalidUnread(f) == {d \in Dirs : f[d] = Broken}                  \* mutant
Invalid(f) ==
    {d \in Dirs : \/ f[d] = Broken
                  \/ f[d] \in Manifests
                     /\ \E x \in Dirs \ {d} : f[x] \in Manifests /\ Collide(f[d], f[x])}

Named(t, k) == t = None \/ t = NameOf[k.man]

(* A loaded Kit that a candidate must not take a name, a directory or a    *)
(* route from: its directory is still there, or this reload is not its.    *)
OwnersOnDisk(K, F, I, t) == {k \in K : k.dir \in {c.dir : c \in F} \cup I}   \* mutant
Owners(K, F, I, t) ==
    {k \in K : ~Named(t, k) \/ k.dir \in {c.dir : c \in F} \cup I}

Rejected(K, F, I, t) ==
    {c \in F : Named(t, c) /\ \E k \in Owners(K, F, I, t) :
        /\ c.dir # k.dir \/ ~Named(t, k)
        /\ c.dir = k.dir \/ Collide(c.man, k.man)}

(* refresh_kits_target: the registry after a scan. *)
Reconciled(K, F, I, t) ==
    LET rejected == Rejected(K, F, I, t)
        fresh    == F \ rejected
        invalid  == I \cup {c.dir : c \in rejected}
        new      == {c \in fresh : Named(t, c)}
        seen     == {NameOf[c.man] : c \in fresh}
        removed  == {k \in K : Named(t, k) /\ NameOf[k.man] \notin seen /\ k.dir \notin invalid}
    IN  new \cup {k \in K \ removed : NameOf[k.man] \notin {NameOf[c.man] : c \in new}}

-----------------------------------------------------------------------------
(* KitManager::new, and a Kit that is added or reloaded. *)
Loads(m) == IF CommandOf[m] \in absent THEN "missing" ELSE "well"

(* The Kits a scan adds or reloads: new, changed or asked for, or ill for  *)
(* a command that is there by now; "others" for their other files.         *)
Taken(K, F, I, t) == {c \in F \ Rejected(K, F, I, t) : Named(t, c)}
Updated(taken, others) ==
    {c \in taken : \/ asked \/ c \notin kits \/ c \in others
                   \/ health[NameOf[c.man]] = "missing" /\ Loads(c.man) = "well"}
HealthOf(K, updated) ==
    [n \in Names |-> IF \E k \in updated : NameOf[k.man] = n
                     THEN Loads((CHOOSE k \in updated : NameOf[k.man] = n).man)
                     ELSE IF \E k \in K : NameOf[k.man] = n THEN health[n] ELSE "well"]

(* The tool list: configured Kits that are well and custom tools, without  *)
(* the names that occur twice.                                             *)
Sources(K, H, T) ==
    T \cup UNION {{<<r, NameOf[k.man]>> : r \in RoutesOf[k.man]} :
                     k \in {x \in K : x.ok /\ H[NameOf[x.man]] = "well"}}
List(K, H, T) ==
    {p \in Sources(K, H, T) : \A q \in Sources(K, H, T) : q[1] = p[1] => q = p}

Tell ==
    /\ told' = List(kits, health, tools)
    /\ heard' = health
    /\ cut' = FALSE

TypeOK ==
    /\ disk \in [Dirs -> Contents]
    /\ supplied \in [Dirs -> SUBSET Vars]
    /\ toml = Broken \/ toml \subseteq Servers
    /\ absent \subseteq Commands
    /\ edits \in 0..MaxEdits
    /\ kits \subseteq [dir : Dirs, man : Manifests, ok : BOOLEAN]
    /\ health \in [Names -> Healths]
    /\ refresh \in {"idle", "list", "read", "tell"}
    /\ asked \in BOOLEAN
    /\ target \in Names \cup {None}
    /\ next \in 1..(NDirs + 1)
    /\ found \in [Dirs -> Contents]
    /\ have \in [Dirs -> SUBSET Vars]
    /\ client.load \in 0..MaxLoads /\ client.servers \subseteq Servers
    /\ routes.load \in 0..MaxLoads /\ routes.pairs \subseteq Routes \X Servers
    /\ tools \subseteq Routes \X Servers
    /\ load \in {"idle", "clear routes", "clear tools", "read",
                "put client", "put routes", "put tools", "tell"}
    /\ warm \in {"due", "running", "done"}
    /\ discovered \subseteq Routes \X Servers
    /\ loads \in 0..MaxLoads
    /\ dropped \in BOOLEAN
    /\ told \subseteq Routes \X (Names \cup Servers)
    /\ heard \in [Names -> Healths]
    /\ cut \in BOOLEAN
    /\ \A c \in Calls :
          /\ call[c].at \in {"idle", "count", "has", "find", "arc", "server", "kit"}
          /\ call[c].route \in Routes \cup {None}
          /\ call[c].kit \in Names \cup {None}
          /\ call[c].server \in Servers \cup {None}
          /\ {call[c].load, call[c].client} \subseteq 0..MaxLoads

(* new_with_runtime loads what the first scan finds; the custom tools are  *)
(* loaded later.                                                           *)
Init ==
    /\ disk \in [Dirs -> Contents]
    /\ supplied \in [Dirs -> SUBSET Vars]
    /\ toml \in (SUBSET Servers) \cup {Broken}
    /\ absent \in SUBSET Commands
    /\ edits = 0
    /\ kits = Scanned(disk, supplied)
    /\ health = [n \in Names |-> IF \E k \in kits : NameOf[k.man] = n
                                 THEN Loads((CHOOSE k \in kits : NameOf[k.man] = n).man)
                                 ELSE "well"]
    /\ refresh = "idle"
    /\ asked = FALSE
    /\ target = None
    /\ next = 1
    /\ found = [d \in Dirs |-> Gone]
    /\ have = [d \in Dirs |-> {}]
    /\ client = NoClient
    /\ routes = NoRoutes
    /\ tools = {}
    /\ load = "idle"
    /\ warm = "due"
    /\ discovered = {}
    /\ loads = 0
    /\ dropped = FALSE
    /\ told = List(kits, health, tools)
    /\ heard = health
    /\ cut = FALSE
    /\ call = [c \in Calls |-> Idle]

-----------------------------------------------------------------------------
(* The files change *)

Changes == edits < MaxEdits /\ edits' = edits + 1

EditKits ==
    /\ Changes
    /\ \/ \E d \in Dirs, x \in Contents :
             disk' = [disk EXCEPT ![d] = x] /\ UNCHANGED <<supplied, absent>>
       \/ \E d \in Dirs, vs \in SUBSET Vars :
             supplied' = [supplied EXCEPT ![d] = vs] /\ UNCHANGED <<disk, absent>>
       \/ absent' \in SUBSET Commands /\ UNCHANGED <<disk, supplied>>
    /\ UNCHANGED <<toml, kitVars, refreshVars, customVars, toldVars, call>>

EditToml ==
    /\ Changes
    /\ toml' \in (SUBSET Servers) \cup {Broken}
    /\ UNCHANGED <<disk, supplied, absent, kitVars, refreshVars, customVars, toldVars, call>>

-----------------------------------------------------------------------------
(* The health of a Kit (manager.rs).  No change of it is announced.        *)

(* record_failure: the third failure of a Kit that can be called. *)
FallsIll(n) ==
    /\ \E k \in kits : NameOf[k.man] = n /\ k.ok
    /\ health[n] = "well"
    /\ health' = [health EXCEPT ![n] = "failed"]
    /\ UNCHANGED <<fileVars, kits, refreshVars, customVars, toldVars, call>>

(* recover_if_cooled_down: to whoever looks 60 s after the last failure    *)
(* the Kit is well; one whose command is missing stays as it is.           *)
Recovers(n) ==
    /\ health[n] = "failed"
    /\ health' = [health EXCEPT ![n] = "well"]
    /\ UNCHANGED <<fileVars, kits, refreshVars, customVars, toldVars, call>>

-----------------------------------------------------------------------------
(* Refreshing the Kits *)

(* What a scan read is forgotten once it was used. *)
Forget ==
    /\ target' = None
    /\ next' = 1
    /\ found' = [d \in Dirs |-> Gone]
    /\ have' = [d \in Dirs |-> {}]
RefreshKeeps == UNCHANGED <<fileVars, customVars, call>>

Refresh ==
    /\ refresh = "idle"
    /\ refresh' = "list"
    /\ \/ asked' = FALSE /\ target' = None
       \/ asked' = TRUE /\ target' \in Names \cup {None}
    /\ UNCHANGED <<kitVars, next, found, have, toldVars>> /\ RefreshKeeps

(* read_dir: a directory that appears later is not part of this scan, one  *)
(* that cannot be read when its turn comes is not taken for uninstalled.   *)
ListDirs ==
    /\ refresh = "list"
    /\ refresh' = "read"
    /\ found' = [d \in Dirs |-> IF disk[d] = Gone THEN Gone ELSE Broken]
    /\ UNCHANGED <<kitVars, asked, target, next, have, toldVars>> /\ RefreshKeeps

ReadDir ==
    /\ refresh = "read"
    /\ next \in Dirs
    /\ next' = next + 1
    /\ found' = IF found[next] = Gone \/ disk[next] = Gone THEN found
                ELSE [found EXCEPT ![next] = disk[next]]
    /\ have' = [have EXCEPT ![next] = IF found'[next] \in Manifests THEN supplied[next] ELSE {}]
    /\ UNCHANGED <<kitVars, refresh, asked, target, toldVars>> /\ RefreshKeeps

TargetFound == target = None \/ \E k \in Scanned(found, have) : NameOf[k.man] = target

(* The kits directory cannot be read, or lacks the one Kit to reload. *)
RefreshFails ==
    /\ \/ refresh = "list"
       \/ refresh = "read" /\ next \notin Dirs /\ ~TargetFound
    /\ refresh' = "idle"
    /\ asked' = FALSE
    /\ Forget
    /\ UNCHANGED <<kitVars, toldVars>> /\ RefreshKeeps

(* The registry changes at once; the caller then waits for connections it  *)
(* retires, before it announces the change.                                *)
Reconcile ==
    /\ refresh = "read"
    /\ next \notin Dirs
    /\ TargetFound
    /\ \E others \in SUBSET kits :
          LET F       == Scanned(found, have)
              updated == Updated(Taken(kits, F, Invalid(found), target), others)
          IN  /\ kits' = Reconciled(kits, F, Invalid(found), target)
              /\ health' = HealthOf(kits', updated)
              /\ \/ /\ kits' # kits \/ updated # {}
                    /\ refresh' = "tell"
                    /\ UNCHANGED asked
                 \/ /\ kits' = kits /\ updated = {}
                    /\ refresh' = "idle"
                    /\ asked' = FALSE
    /\ Forget
    /\ UNCHANGED toldVars /\ RefreshKeeps

Announce ==
    /\ refresh = "tell"
    /\ refresh' = "idle"
    /\ asked' = FALSE
    /\ Tell
    /\ UNCHANGED <<kitVars, target, next, found, have>> /\ RefreshKeeps

(* The request is cancelled; a change it made is not announced. *)
RefreshDropped ==
    /\ refresh # "idle"
    /\ asked
    /\ refresh' = "idle"
    /\ asked' = FALSE
    /\ Forget
    /\ cut' = (cut \/ refresh = "tell")
    /\ UNCHANGED <<kitVars, told, heard>> /\ RefreshKeeps

-----------------------------------------------------------------------------
(* Loading the custom tools *)

(* load_custom_tools at start-up; a reload by request may come first. *)
Load ==
    /\ load = "idle"
    /\ warm = "due"
    /\ loads < MaxLoads
    /\ loads' = loads + 1
    /\ warm' = "running"
    /\ load' = "read"
    /\ UNCHANGED <<fileVars, kitVars, refreshVars, client, routes, tools, discovered, dropped, toldVars, call>>

(* reload_custom_tools shuts the servers down first. *)
Reload ==
    /\ load = "idle"
    /\ loads < MaxLoads
    /\ loads' = loads + 1
    /\ client' = NoClient
    /\ load' = "clear routes"
    /\ dropped' = FALSE
    /\ UNCHANGED <<fileVars, kitVars, refreshVars, routes, tools, warm, discovered, toldVars, call>>

ClearRoutes ==
    /\ load = "clear routes"
    /\ routes' = NoRoutes
    /\ load' = "clear tools"
    /\ UNCHANGED <<fileVars, kitVars, refreshVars, client, tools, warm, discovered, loads, dropped, toldVars, call>>

ClearTools ==
    /\ load = "clear tools"
    /\ tools' = {}
    /\ load' = "read"
    /\ UNCHANGED <<fileVars, kitVars, refreshVars, client, routes, warm, discovered, loads, dropped, toldVars, call>>

Ends == load' = "idle" /\ warm' = IF warm = "running" THEN "done" ELSE warm
Request == warm # "running"

(* An mcp.toml that cannot be read or parsed ends the load. *)
LoadFails ==
    /\ load = "read"
    /\ toml = Broken
    /\ Ends
    /\ cut' = (cut \/ Request)
    /\ UNCHANGED <<fileVars, kitVars, refreshVars, client, routes, tools, discovered, loads, dropped, told, heard, call>>

(* connect_all and discover_tools: a server that does not start or answer  *)
(* is left out.                                                            *)
Answers(up) == UNION {{<<r, s>> : r \in Offers[s]} : s \in up}
Connect ==
    /\ load = "read"
    /\ toml # Broken
    /\ \E up \in SUBSET toml :
          /\ Answers(up) # {}
          /\ discovered' = Answers(up)
          /\ load' = "put client"
    /\ UNCHANGED <<fileVars, kitVars, refreshVars, client, routes, tools, warm, loads, dropped, toldVars, call>>

(* Without a tool nothing is stored; a reload announces that too. *)
NothingFound ==
    /\ load = "read"
    /\ toml # Broken
    /\ IF Request THEN load' = "tell" /\ UNCHANGED warm ELSE Ends
    /\ UNCHANGED <<fileVars, kitVars, refreshVars, client, routes, tools, discovered, loads, dropped, toldVars, call>>

PutClientOnce ==                                                  \* mutant
    /\ load = "put client"
    /\ client' = IF client.load # 0 THEN client
                 ELSE [load |-> loads, servers |-> {p[2] : p \in discovered}]
    /\ load' = "put routes"
    /\ UNCHANGED <<fileVars, kitVars, refreshVars, routes, tools, warm, discovered, loads, dropped, toldVars, call>>
PutClient ==
    /\ load = "put client"
    /\ client' = [load |-> loads, servers |-> {p[2] : p \in discovered}]
    /\ load' = "put routes"
    /\ UNCHANGED <<fileVars, kitVars, refreshVars, routes, tools, warm, discovered, loads, dropped, toldVars, call>>

PutRoutes ==
    /\ load = "put routes"
    /\ routes' = [load |-> loads, pairs |-> discovered]
    /\ load' = "put tools"
    /\ UNCHANGED <<fileVars, kitVars, refreshVars, client, tools, warm, discovered, loads, dropped, toldVars, call>>

PutTools ==
    /\ load = "put tools"
    /\ tools' = discovered
    /\ load' = "tell"
    /\ UNCHANGED <<fileVars, kitVars, refreshVars, client, routes, warm, discovered, loads, dropped, toldVars, call>>

Reloaded ==
    /\ load = "tell"
    /\ Ends
    /\ Tell
    /\ dropped' = FALSE
    /\ UNCHANGED <<fileVars, kitVars, refreshVars, client, routes, tools, discovered, loads, call>>

ReloadDropped ==
    /\ load # "idle"
    /\ Request
    /\ load' = "idle"
    /\ dropped' = TRUE
    /\ cut' = TRUE
    /\ UNCHANGED <<fileVars, kitVars, refreshVars, client, routes, tools, warm, discovered, loads, told, heard, call>>

-----------------------------------------------------------------------------
(* Calls of external tools (ToolHost::call) *)

Goes(c, to) == call' = [call EXCEPT ![c] = to]
CallKeeps == UNCHANGED <<fileVars, kitVars, refreshVars, customVars, toldVars>>

(* KitManager::resolve_tool looks at every Kit, configured or not. *)
Resolve(c) ==
    /\ call[c].at = "idle"
    /\ \E r \in Routes :
          LET owners == {k \in kits : r \in RoutesOf[k.man]}
          IN  \/ owners = {} /\ Goes(c, [Idle EXCEPT !.at = "count", !.route = r])
              \/ \E k \in owners :
                    Goes(c, [Idle EXCEPT !.at = "count", !.route = r, !.kit = NameOf[k.man]])
    /\ CallKeeps

Matches(c) == {p \in routes.pairs : p[1] = call[c].route}

(* tool_match_count: an ambiguous name is refused. *)
Count(c) ==
    /\ call[c].at = "count"
    /\ Goes(c, IF Cardinality(Matches(c)) + (IF call[c].kit # None THEN 1 ELSE 0) > 1
               THEN Idle ELSE [call[c] EXCEPT !.at = "has"])
    /\ CallKeeps

(* has_tool; a name spelled otherwise than the server's is not found. *)
HasTool(c) ==
    /\ call[c].at = "has"
    /\ \/ Matches(c) # {} /\ Goes(c, [call[c] EXCEPT !.at = "find"])
       \/ Goes(c, IF call[c].kit = None THEN Idle ELSE [call[c] EXCEPT !.at = "kit"])
    /\ CallKeeps

(* CustomToolHost::call takes the server from tool_routes ... *)
FindServer(c) ==
    /\ call[c].at = "find"
    /\ \/ Matches(c) = {} /\ Goes(c, Idle)
       \/ \E p \in Matches(c) :
             Goes(c, [call[c] EXCEPT !.at = "arc", !.server = p[2], !.load = routes.load])
    /\ CallKeeps

(* ... then the client, and calls the server if that client has it.        *)
TakeClient(c) ==
    /\ call[c].at = "arc"
    /\ Goes(c, IF client.load = 0 \/ call[c].server \notin client.servers THEN Idle
               ELSE [call[c] EXCEPT !.at = "server", !.client = client.load])
    /\ CallKeeps

Answered(c) ==
    /\ call[c].at \in {"server", "kit"}
    /\ Goes(c, Idle)
    /\ CallKeeps

-----------------------------------------------------------------------------
RefreshStep ==
    \/ Refresh \/ ListDirs \/ ReadDir \/ RefreshFails \/ Reconcile \/ Announce \/ RefreshDropped

HealthStep == \E n \in Names : FallsIll(n) \/ Recovers(n)

KitStep == EditKits \/ RefreshStep \/ HealthStep

CustomStep ==
    \/ EditToml
    \/ Load \/ Reload \/ ClearRoutes \/ ClearTools \/ LoadFails \/ Connect \/ NothingFound
    \/ PutClient \/ PutRoutes \/ PutTools \/ Reloaded \/ ReloadDropped

CallStep ==
    \E c \in Calls :
        Resolve(c) \/ Count(c) \/ HasTool(c) \/ FindServer(c) \/ TakeClient(c) \/ Answered(c)

Next == KitStep \/ CustomStep \/ CallStep

Spec == Init /\ [][Next]_vars

-----------------------------------------------------------------------------
(* No two loaded Kits share a name, a directory or a route, whatever was   *)
(* edited, moved or half written between scans: a call finds one owner.    *)
RoutesUnambiguous ==
    \A k, m \in kits : k # m => k.dir # m.dir /\ ~Collide(k.man, m.man)

(* A loaded Kit is given up only when a scan found its directory gone,     *)
(* meant for another platform, or taken over by a Kit that is loaded       *)
(* instead (or would be, but for the one target of the reload): never      *)
(* because a manifest is half written or in conflict.                      *)
KitsAreKept ==
    [][\A k \in kits :
          \/ \E m \in kits' : NameOf[m.man] = NameOf[k.man] \/ m.dir = k.dir
          \/ found[k.dir] \in {Gone, Foreign}
          \/ found[k.dir] \in Manifests /\ target \notin {None, NameOf[found[k.dir]]}]_vars

(* Once nothing reloads, what clients were told is the tool list of these  *)
(* Kits and custom tools, unless the reload that changed it failed or was  *)
(* cancelled: only the failures of a Kit, and the end of its cool-down,    *)
(* change the list without a word; a command that is missing never does.   *)
Quiet == refresh = "idle" /\ load = "idle" /\ ~cut
ChangesAreTold ==
    Quiet =>
        /\ told = List(kits, heard, tools)
        /\ \A n \in Names : "missing" \in {health[n], heard[n]} => health[n] = heard[n]

(* docs/kit-configuration.md:217-218: Portal advertises listChanged and     *)
(* sends the notification to each initialized connection, so the tools of  *)
(* a Kit that failed three times are not on the list clients have (nor     *)
(* does anything else report it, docs/kit-prd.md:112).                     *)
IllnessIsTold ==
    \A k \in kits : Quiet /\ k.ok /\ health[NameOf[k.man]] = "failed" =>
        \A r \in RoutesOf[k.man] : <<r, NameOf[k.man]>> \notin told

(* Every custom tool that is listed has a route to a server of the client  *)
(* that runs, unless a reload goes on or was cancelled half way.           *)
ListedIsRouted ==
    load = "idle" /\ ~dropped =>
        /\ tools \subseteq routes.pairs
        /\ routes.load = client.load
        /\ \A p \in routes.pairs : p[2] \in client.servers

(* A call never takes a route to a client older than the route.            *)
RouteMeetsItsClient ==
    \A c \in Calls : call[c].at = "server" => call[c].client >= call[c].load

(* Between the two reloads, their failures and the calls: what a client    *)
(* was last told is what it would be told, the health of the Kits aside,   *)
(* and its custom tools can be called.                                     *)
ToldCanBeCalled == TypeOK /\ ChangesAreTold /\ ListedIsRouted /\ RouteMeetsItsClient
=============================================================================
