------------------------------- MODULE QosStore -------------------------------
(***************************************************************************)
(* The store of QoS profiles (qos_store.cpp): providers made from the      *)
(* files of a directory, libraries written at run time ("dynamic"), and a  *)
(* cache of the profiles asked for.                                        *)
(*                                                                         *)
(* The worker calls it under the lock of DdsManager, so one call runs at a *)
(* time; what runs beside it are the people who edit the files.  A lookup  *)
(* that misses reads the whole directory again and is split where an edit  *)
(* can come between: the list of files (ScanDir), the provider of each     *)
(* (LoadProvider), its text (LoadText), its profile names (LoadNames), its *)
(* time (LoadTime), the exchange of providers (Install) and the second     *)
(* look.                                                                   *)
(***************************************************************************)
EXTENDS QosXml

CONSTANTS FileOrder,      \* the names the directory's files may have, sorted
          Document,       \* the texts people write
          Snippet,        \* the profile_xml of requests
          MaxEdits, MaxUpdates

File == ToSet(FileOrder)
Key  == Library \X Profile
Dynamic == "(dynamic)"       \* origin_file of a profile from dynamic_providers_

ASSUME ConstantsAssumption ==
    /\ MaxEdits \in Nat /\ MaxUpdates \in Nat
    /\ FileOrder \in Seq(File) /\ IsInjective(FileOrder) /\ Dynamic \notin File
    /\ (\A doc \in Document : IsText(doc)) /\ Snippet \subseteq Tag \cup {None}
    /\ None \notin Document /\ None \notin File /\ None \notin Profile
    /\ None \notin [qos : Seq(Body), origin : File \cup {Dynamic}]

VARIABLES
    disk,        \* file -> [text, time]: the directory
    providers,   \* providers_: [file, doc, text, names, time], as sorted
    cache,       \* cache_: key -> [qos, origin] or None
    dyn,         \* dynamic_libraries_ and dynamic_providers_: library -> document or None
    index,       \* dynamic_profiles_index_
    call,        \* the call that reads the directory: [at, key, todo, loaded],
                 \* todo the files it has left
    given,       \* history: key -> body that the last accepted update gave it
    steady,      \* history: in a lookup that missed, the files nobody has edited since
    updates      \* bound: accepted updates so far

vars == <<disk, providers, cache, dyn, index, call, given, steady, updates>>
store == <<providers, cache, dyn, index, given, updates>>

Idle == [at |-> "idle", key |-> None, todo |-> {}, loaded |-> << >>]

\* initialize() has begun, on any directory.
Init ==
    /\ disk \in [File -> [text : Document \cup {None}, time : {1}]]
    /\ providers = << >>
    /\ cache = [k \in Key |-> None]
    /\ dyn = [l \in Library |-> None]
    /\ index = {}
    /\ call = [Idle EXCEPT !.at = "scan"]
    /\ given = [k \in Key |-> None]
    /\ steady = {}
    /\ updates = 0

-------------------------------------------------------------------------------
\* Edits change the time of the file.  None: the file is deleted.
Edits == FoldFunction(+, 0, [f \in File |-> disk[f].time - 1])

Edit(f, doc) ==
    /\ Edits < MaxEdits /\ disk[f].text # doc
    /\ disk' = [disk EXCEPT ![f] = [text |-> doc, time |-> @.time + 1]]
    /\ steady' = steady \ {f}
    /\ UNCHANGED <<store, call>>

-------------------------------------------------------------------------------
(***************************************************************************)
(* resolve_from_providers().  From the last file to the first; an entry    *)
(* that does not list the profile has its names read again if the file has *)
(* another time, its provider stays.                                       *)
(***************************************************************************)
Pack(doc, k, origin) ==
    LET qos == QosOf(doc, k[1], k[2])
    IN  IF qos = << >> THEN None ELSE [qos |-> qos, origin |-> origin]

Refreshed(e, k) ==
    IF k \in e.names \/ disk[e.file].text = None \/ disk[e.file].time = e.time THEN e
    ELSE [e EXCEPT !.names = ParseProfiles(disk[e.file].text), !.time = disk[e.file].time]

ResolvedAt(k) ==
    SelectLastInSeq(providers, LAMBDA e : /\ k \in Refreshed(e, k).names
                                          /\ Pack(e.doc, k, e.file) # None)

Resolve(k) == LET i == ResolvedAt(k)
              IN  IF i = 0 THEN None ELSE Pack(providers[i].doc, k, providers[i].file)

RefreshVisited(k) ==
    providers' = [i \in DOMAIN providers |->
                     IF i < ResolvedAt(k) THEN providers[i] ELSE Refreshed(providers[i], k)]

(***************************************************************************)
(* find_or_reload().  A hit in the cache changes nothing and is no step.   *)
(***************************************************************************)
FromDynamic(k) == IF dyn[k[1]] = None THEN None ELSE Pack(dyn[k[1]], k, Dynamic)

FindDynamic(k) ==
    /\ call.at = "idle" /\ cache[k] = None /\ FromDynamic(k) # None
    /\ cache' = [cache EXCEPT ![k] = FromDynamic(k)]
    /\ UNCHANGED <<disk, providers, dyn, index, call, given, steady, updates>>

FindInFiles(k) ==
    /\ call.at = "idle" /\ cache[k] = None /\ FromDynamic(k) = None
    /\ Resolve(k) # None
    /\ RefreshVisited(k)
    /\ cache' = [cache EXCEPT ![k] = Resolve(k)]
    /\ UNCHANGED <<disk, dyn, index, call, given, steady, updates>>

FindMissed(k) ==
    /\ call.at = "idle" /\ cache[k] = None /\ FromDynamic(k) = None
    /\ Resolve(k) = None
    /\ RefreshVisited(k)
    /\ call' = [Idle EXCEPT !.at = "scan", !.key = k]
    /\ steady' = File
    /\ UNCHANGED <<disk, cache, dyn, index, given, updates>>

-------------------------------------------------------------------------------
(***************************************************************************)
(* load_providers_from_dir_nothrow(), for initialize() and reload_all().   *)
(***************************************************************************)
ScanDir ==
    /\ call.at = "scan"
    /\ call' = [call EXCEPT !.at = "load",
                            !.todo = {f \in File : disk[f].text # None}]
    /\ UNCHANGED <<disk, store, steady>>

\* The files are taken in the order of their names.
Rank(f)   == CHOOSE i \in DOMAIN FileOrder : FileOrder[i] = f
First(fs) == CHOOSE f \in fs : \A g \in fs : Rank(f) <= Rank(g)
Current   == First(call.todo)

\* A file that does not load, or is gone, is passed over.
Load(rest) ==
    /\ call.at = "load" /\ call.todo # {}
    /\ LET doc == disk[Current].text
           entry == [file |-> Current, doc |-> doc, text |-> None, names |-> {}, time |-> 0]
       IN  call' = IF Loads(doc)
                   THEN [call EXCEPT !.at = "text", !.loaded = Append(@, entry)]
                   ELSE [call EXCEPT !.todo = rest]
    /\ UNCHANGED <<disk, store, steady>>

\* Mutant: the exception of one file ends the loop.
LoadProviderGivesUp == Load({})
LoadProvider        == Load(call.todo \ {Current})

LoadText ==
    /\ call.at = "text"
    /\ LET n == Len(call.loaded)
       IN  call' = [call EXCEPT !.at = "names", !.loaded[n].text = disk[Current].text]
    /\ UNCHANGED <<disk, store, steady>>

LoadNames ==
    /\ call.at = "names"
    /\ LET n == Len(call.loaded)
       IN  call' = [call EXCEPT !.at = "time",
                        !.loaded[n].names = ParseProfiles(disk[Current].text)]
    /\ UNCHANGED <<disk, store, steady>>

LoadTime ==
    /\ call.at = "time"
    /\ LET n == Len(call.loaded)
           f == disk[Current]
       IN  call' = [call EXCEPT !.at = "load", !.todo = @ \ {Current},
                                !.loaded[n].time = IF f.text = None THEN 0 ELSE f.time]
    /\ UNCHANGED <<disk, store, steady>>

\* The end of initialize() and of reload_all().
Exchange ==
    /\ call.at = "load" /\ call.todo = {}
    /\ providers' = call.loaded
    /\ call' = IF call.key = None THEN Idle
               ELSE [Idle EXCEPT !.at = "retry", !.key = call.key]
    /\ UNCHANGED <<disk, dyn, index, given, steady, updates>>

\* Mutant: the cache outlives the providers it was filled from.
InstallKeepsCache == Exchange /\ UNCHANGED cache
Install           == Exchange /\ cache' = [k \in Key |-> None]

\* The second look of find_or_reload(), at files only.
RetryHit ==
    LET k == call.key IN
    /\ call.at = "retry" /\ Resolve(k) # None
    /\ RefreshVisited(k)
    /\ cache' = [x \in Key |-> IF x = k THEN Resolve(k) ELSE None]
    /\ call' = Idle /\ steady' = {}
    /\ UNCHANGED <<disk, dyn, index, given, updates>>

RetryMiss ==
    /\ call.at = "retry" /\ Resolve(call.key) = None
    /\ RefreshVisited(call.key)
    /\ call' = Idle /\ steady' = {}
    /\ UNCHANGED <<disk, cache, dyn, index, given, updates>>

-------------------------------------------------------------------------------
(***************************************************************************)
(* add_or_update_profile().  A library that is not dynamic yet starts as   *)
(* the text of the first file that has it, or as an empty one.  A request  *)
(* that does not merge or does not load changes nothing and is no step.    *)
(***************************************************************************)
BaseText(l) ==
    LET i == SelectInSeq(providers, LAMBDA e : e.text # None /\ l \in DOMAIN e.text)
    IN  IF dyn[l] # None THEN dyn[l]
        ELSE IF i # 0 THEN providers[i].text
        ELSE Template(l)

Write(k, snippet) ==
    LET doc == MergeProfile(BaseText(k[1]), k[1], k[2], snippet) IN
    /\ call.at = "idle" /\ updates < MaxUpdates
    /\ Loads(doc)
    /\ dyn' = [dyn EXCEPT ![k[1]] = doc]
    /\ given' = [given EXCEPT ![k] = IF WellOrdered(snippet) THEN snippet.body ELSE @]
    /\ updates' = updates + 1
    /\ UNCHANGED <<disk, providers, call, steady>>

\* Mutants: the cached pack stays; the index is written before the text is tried.
UpdateKeepsCache(k, snippet) ==
    Write(k, snippet) /\ index' = index \cup {k} /\ UNCHANGED cache
UpdateIndexesFirst(k, snippet) ==
    /\ call.at = "idle" /\ index' = index \cup {k}
    /\ \/ Write(k, snippet) /\ cache' = [cache EXCEPT ![k] = None]
       \/ /\ ~Loads(MergeProfile(BaseText(k[1]), k[1], k[2], snippet))
          /\ UNCHANGED <<disk, providers, cache, dyn, call, given, steady, updates>>
Update(k, snippet) ==
    /\ Write(k, snippet)
    /\ index' = index \cup {k}
    /\ cache' = [cache EXCEPT ![k] = None]

Next ==
    \/ \E f \in File, doc \in Document \cup {None} : Edit(f, doc)
    \/ \E k \in Key : FindDynamic(k) \/ FindInFiles(k) \/ FindMissed(k)
    \/ ScanDir \/ LoadProvider \/ LoadText \/ LoadNames \/ LoadTime \/ Install
    \/ RetryHit \/ RetryMiss
    \/ \E k \in Key, snippet \in Snippet : Update(k, snippet)

Spec == Init /\ [][Next]_vars

-------------------------------------------------------------------------------
(***************************************************************************)
(* What the calls answer, in a state in which none is running.             *)
(***************************************************************************)

\* find_or_reload(), unless it has to read the directory.
Find(k) == IF cache[k] # None THEN cache[k]
           ELSE IF FromDynamic(k) # None THEN FromDynamic(k)
           ELSE Resolve(k)

\* detail_profiles(): [kind, xml] of a key, or None.  Files are walked from
\* the last to the first and each overwrites the one before.
DetailDynamic(k) == ExtractProfile(dyn[k[1]], k[1], k[2])
DetailAt(k) == SelectInSeq(providers, LAMBDA e : /\ k \in ParseProfiles(disk[e.file].text)
                                                 /\ QosOf(e.doc, k[1], k[2]) # << >>)
Detail(k) ==
    IF k \in index /\ FromDynamic(k) # None
    THEN [kind |-> "dynamic", xml |-> DetailDynamic(k)]
    ELSE IF DetailAt(k) # 0
    THEN [kind |-> "external",
          xml |-> ExtractProfile(disk[providers[DetailAt(k)].file].text, k[1], k[2])]
    ELSE None

\* list_profiles(): what qos.get names when no details are asked for.
ListProfiles == index \cup UNION {ParseProfiles(disk[e.file].text) : e \in ToSet(providers)}

-------------------------------------------------------------------------------
Own(pack) == Head(pack.qos)

\* The variables keep their types; an entry of providers_ is of a document that
\* loaded, the entries stand in the order of the files, and a call that reads
\* the directory has files left exactly while it is at one.
TypeOK ==
    /\ \A f \in File : disk[f].text \in Document \cup {None} /\ disk[f].time \in Nat \ {0}
    /\ \A k \in Key : cache[k] = None \/ cache[k].origin \in File \cup {Dynamic}
    /\ \A l \in Library : dyn[l] = None \/ Loads(dyn[l])
    /\ \A i \in DOMAIN providers : Loads(providers[i].doc)
    /\ \A i, j \in DOMAIN providers : i < j => Rank(providers[i].file) < Rank(providers[j].file)
    /\ call.at \in {"text", "names", "time"} => call.todo # {}
    /\ index \subseteq {k \in Key : dyn[k[1]] # None}
    /\ updates \in 0..MaxUpdates

\* An accepted update takes effect and stays: from then on a lookup answers
\* with the body it gave, whatever was cached, reloaded, edited on disk or
\* updated next to it, and the list names it.  (find_or_reload(),
\* add_or_update_profile(), list_profiles().)  Only the profile's own settings:
\* what it inherits may be as old as the cache.
UpdateTakesEffect ==
    \A k \in Key : given[k] # None =>
        /\ Find(k) # None /\ Own(Find(k)) = given[k]
        /\ k \in ListProfiles

\* A text that has the profile, well-formed and with the name before the base.
Offers(doc, k) ==
    /\ Loads(doc) /\ k[1] \in DOMAIN doc
    /\ \E p \in ToSet(doc[k[1]]) : Attr(p, "name") = k[2] /\ WellOrdered(p)

\* The cache holds what its sources hold: a pack from a file is that of the
\* provider loaded now, and a dynamic one has the settings of the library as
\* last written, if the name stands first in the profile's tag there.  (The two
\* invalidations: all of it by a reload, one entry by an update.)
CacheMatchesSources ==
    \A k \in Key : cache[k] # None =>
        IF cache[k].origin = Dynamic
        THEN Offers(dyn[k[1]], k) => Own(cache[k]) = Own(FromDynamic(k))
        ELSE \E e \in ToSet(providers) : cache[k] = Pack(e.doc, k, e.file)

\* "Not found after reload" is true: no file offered the profile from the first
\* look to the last.
MissIsHonest ==
    call.at = "retry" /\ Resolve(call.key) = None =>
        \A f \in steady : ~Offers(disk[f].text, call.key)

\* What qos.get shows of a profile is what a lookup applies: for a profile set
\* by a request, always; for one from a file, if a single file has its library,
\* well-ordered, and the directory is as it was loaded.  (detail_profiles()
\* reads the dynamic text and the files, find_or_reload() the providers.)
Unchanged(e) == /\ disk[e.file] = [text |-> e.doc, time |-> e.time]
                /\ e.text = e.doc /\ e.names = ParseProfiles(e.doc)
FileOf(k) == {e \in ToSet(providers) : k[1] \in DOMAIN e.doc}

DetailShowsWhatIsUsed ==
    call.at = "idle" => \A k \in Key :
        /\ given[k] # None => Detail(k) = [kind |-> "dynamic", xml |-> Own(Find(k))]
        /\ \A e \in FileOf(k) :
             dyn[k[1]] = None /\ FileOf(k) = {e} /\ (\A x \in ToSet(providers) : Unchanged(x))
               /\ (\A p \in ToSet(e.doc[k[1]]) : WellOrdered(p))
             => Detail(k) = IF Find(k) = None THEN None
                            ELSE [kind |-> "external", xml |-> Own(Find(k))]
===============================================================================
