-------------------------- MODULE AdminFilesProofs --------------------------
(***************************************************************************)
(* Proofs about AdminApi: memory, the files and what a crash leaves.       *)
(*                                                                         *)
(* Requests for one file share its temporary file, so nothing can be said  *)
(* of those that overlap.  The argument is about a request that was alone  *)
(* from its beginning on (solo): the temporary file and its descriptor are *)
(* its own (Solos), so what it renames is what it was asked to write, and  *)
(* what it installs is what the next start will read (Jobs, with the       *)
(* theorem on saved lists of BlocklistProofs).  A file stays clean only    *)
(* under such requests; while it is, memory and file agree up to the       *)
(* rename of the one that is under way (Cleans).  A crash therefore finds  *)
(* what was in force, or what that request was about to install (Left).    *)
(* The invariant of AdminApiProofs is needed for the start: main() writes  *)
(* alone, and before anything was served.                                  *)
(***************************************************************************)
EXTENDS AdminApiProofs, BlocklistProofs

-----------------------------------------------------------------------------
\* The inductive invariant, beside the one of AdminApiProofs.

\* The text of file f is what saves value.
Saves(f, text, value) ==
    Parsed(f, text) = value \/ (f = "blocklist" /\ IsOdd(value))

\* What a request writes is what it is going to install.
Job(h) ==
    /\ job[h].file = "config" => job[h].text = job[h].value
    /\ job[h].file = "blocklist" =>
          \E t \in Texts : /\ job[h].value = FromText(t)
                           /\ job[h].text = ToFileText(FromText(t))
    /\ pc[h] = "servers" => job[h].file = "config"

Jobs == \A h \in Handlers : pc[h] # "idle" => Job(h)

\* How far the one request for file f is.
Place(h, f) ==
    /\ pc[h] = "write" => at[h] = "tmp" /\ tmp[f] = Empty
    /\ pc[h] = "rename" => tmp[f] = job[h].text
    /\ pc[h] \in {"servers", "store"} => file[f] = job[h].text
    /\ pc[h] = "store" /\ f = "config" => servers = UpstreamAddrs(job[h].value)

\* A request that nobody disturbs is the only one for its file; its descriptor
\* and the temporary file are its own, and what it renamed is in place.
Alone(h) ==
    /\ \A x \in Handlers : Busy(x, job[h].file) => x = h
    /\ Place(h, job[h].file)

Solos == \A h \in Handlers : pc[h] # "idle" /\ solo[h] => Alone(h)

\* Until the rename of such a request, and when there is none, memory and the
\* file agree; and so do the config and the upstream until set_servers.
Clean(f) ==
    /\ \A h \in Handlers : Busy(h, f) => solo[h]
    /\ (\A h \in Handlers : Busy(h, f) => pc[h] \in {"open", "write", "rename"})
          => Saves(f, file[f], Memory(f))
    /\ f = "config" /\ (\A h \in Handlers : Busy(h, f) => pc[h] # "store")
          => servers = UpstreamAddrs(config)

Cleans == boot = "up" => \A f \in Files : clean[f] => Clean(f)

\* The blocklist file, from its creation on.
ListFile ==
    /\ clean["blocklist"] => file["blocklist"] \in BlockTexts \cup {None}
    /\ boot = "fill" => ~clean["blocklist"] /\ served = {}
    /\ served # {} => file["blocklist"] # None

\* What a crash left is there until the process serves again.
Left ==
    /\ served = {} => \A f \in Files : kept[f] = {}
    /\ boot # "up" =>
          \A f \in Files : clean[f] /\ kept[f] # {} =>
              \E value \in kept[f] : Saves(f, file[f], value)

Flags ==
    /\ solo \in [Writers -> BOOLEAN]
    /\ clean \in [Files -> BOOLEAN]
    /\ DOMAIN kept = Files

FInv == Flags /\ Jobs /\ Solos /\ Cleans /\ ListFile /\ Left

\* The same for the request of handler h alone.
Agree(h, f) ==
    /\ pc[h] \in {"idle", "open", "write", "rename"} => Saves(f, file[f], Memory(f))
    /\ f = "config" /\ pc[h] # "store" => servers = UpstreamAddrs(config)

-----------------------------------------------------------------------------
\* Texts.

\* What a line is made of.
Words == Labels \cup {Nil} \cup Marks

\* The lines of AdminApi are lines over its labels, the empty one and the marks.
LEMMA LineIs == Line = Lines(Words) /\ Star \in Words
<1>1. Star \in Labels
  BY AdminAssumption
<1> QED
  BY <1>1 DEF Line, Words

\* A sequence of some labels is one of more of them.
LEMMA SeqOfMore ==
  ASSUME NEW S, NEW T, S \subseteq T, NEW s \in Seq(S)
  PROVE  s \in Seq(T)
<1>1. Len(s) \in Nat /\ DOMAIN s = 1 .. Len(s) /\ s = [i \in DOMAIN s |-> s[i]]
      /\ \A i \in DOMAIN s : s[i] \in S
  BY LenProperties
<1>2. s \in [1 .. Len(s) -> T]
  BY <1>1
<1> QED
  BY <1>1, <1>2, SeqDef

\* A request saves what it is going to install.
LEMMA JobSaves ==
  ASSUME NEW h, Job(h), NEW f \in Files, job[h].file = f
  PROVE  /\ Saves(f, job[h].text, job[h].value)
         /\ f = "blocklist" => job[h].text \in BlockTexts
<1>1. CASE f = "config"
  BY <1>1 DEF Job, Saves, Parsed
<1>2. CASE f = "blocklist"
  <2>1. PICK t \in Texts : /\ job[h].value = FromText(t)
                           /\ job[h].text = ToFileText(FromText(t))
    BY <1>2 DEF Job
  <2>2. job[h].text \in BlockTexts
    BY <2>1 DEF BlockTexts
  <2>3. job[h].text \notin {None, Empty, Torn} /\ t \subseteq Lines(Words)
    BY <2>2, AdminAssumption, LineIs
  <2>4. ~IsOdd(FromText(t)) => FromText(ToFileText(FromText(t))) = FromText(t)
    BY <2>3, LineIs, SavedListReadBack
  <2>5. Parsed(f, job[h].text) = FromText(job[h].text)
    BY <1>2, <2>3 DEF Parsed
  <2> QED
    BY <1>2, <2>1, <2>2, <2>4, <2>5 DEF Saves
<1> QED
  BY <1>1, <1>2 DEF Files

-----------------------------------------------------------------------------
\* The steps of a request that is under way.

\* What a step of handler h on file f leaves alone, and what it does to the
\* state of a request that nobody disturbs.
LEMMA StepFiles ==
  ASSUME IInv, FInv, boot = "up", boot' = "up",
         NEW h \in Handlers, NEW f \in Files, job[h].file = f, pc[h] # "idle",
         \A x \in Handlers \ {h} :
            /\ pc'[x] = pc[x] /\ job'[x] = job[x]
            /\ pc[x] # "idle" /\ job[x].file # f => at'[x] = at[x],
         \A g \in Files \ {f} :
            /\ file'[g] = file[g] /\ tmp'[g] = tmp[g]
            /\ clean'[g] = clean[g] /\ Memory(g)' = Memory(g),
         f # "config" => servers' = servers /\ config' = config,
         pc'[h] # "idle" => job'[h] = job[h] /\ (pc'[h] = "servers" => f = "config"),
         solo' = solo,
         clean'[f] => clean[f] \/ solo[h],
         solo[h] /\ Place(h, f) /\ pc'[h] # "idle" => Place(h, f)',
         clean'[f] /\ solo[h] /\ Place(h, f) /\ (clean[f] => Agree(h, f)) => Agree(h, f)'
  PROVE  Jobs' /\ Solos' /\ Cleans'
<1>1. Jobs'
  <2> SUFFICES ASSUME NEW x \in Handlers, pc'[x] # "idle" PROVE Job(x)'
    BY DEF Jobs
  <2>1. CASE x = h
    BY <2>1 DEF FInv, Jobs, Job
  <2>2. CASE x # h
    BY <2>2 DEF FInv, Jobs, Job
  <2> QED
    BY <2>1, <2>2
<1>2. solo[h] => Alone(h)
  BY DEF FInv, Solos
<1>3. Solos'
  <2> SUFFICES ASSUME NEW x \in Handlers, pc'[x] # "idle", solo'[x] PROVE Alone(x)'
    BY DEF Solos
  <2>1. pc[x] # "idle" /\ job'[x] = job[x] /\ Alone(x)
    BY DEF FInv, Solos
  <2>2. ASSUME NEW y \in Handlers, NEW g, Busy(y, g)' PROVE Busy(y, g)
    BY <2>2 DEF Busy
  <2>3. \A y \in Handlers : Busy(y, job[x].file)' => y = x
    BY <2>1, <2>2 DEF Alone
  <2>4. CASE job[x].file = f
    <3>1. x = h
      BY <2>1, <2>4 DEF Alone, Busy
    <3>2. Place(h, f)'
      BY <2>1, <2>4, <3>1 DEF Alone
    <3> QED
      BY <2>1, <2>3, <2>4, <3>1, <3>2 DEF Alone
  <2>5. CASE job[x].file # f
    <3> DEFINE g == job[x].file
    <3>1. x # h /\ pc'[x] = pc[x] /\ at'[x] = at[x]
      BY <2>1, <2>5
    <3>2. g \in Files
      BY <2>1 DEF IInv, Edits, Edit
    <3>3. file'[g] = file[g] /\ tmp'[g] = tmp[g] /\ (g = "config" => servers' = servers)
      BY <2>5, <3>2
    <3>4. Place(x, g)
      BY <2>1 DEF Alone
    <3> QED
      BY <2>1, <2>3, <3>1, <3>3, <3>4 DEF Alone, Place
  <2> QED
    BY <2>4, <2>5
<1>4. ASSUME NEW g \in Files, clean'[g], g # f PROVE Clean(g)'
  <2>1. \A x \in Handlers : Busy(x, g)' <=> Busy(x, g)
    BY <1>4 DEF Busy
  <2>2. \A x \in Handlers : Busy(x, g) => x # h /\ pc'[x] = pc[x]
    BY <1>4 DEF Busy
  <2>3. Clean(g)
    BY <1>4 DEF FInv, Cleans
  <2>4. Saves(g, file[g], Memory(g))' <=> Saves(g, file[g], Memory(g))
    BY <1>4 DEF Saves, Parsed
  <2>5. g = "config" => servers' = servers /\ config' = config
    BY <1>4
  <2> QED
    BY <2>1, <2>2, <2>3, <2>4, <2>5 DEF Clean
<1>5. ASSUME clean'[f] PROVE Clean(f)'
  <2>1. Busy(h, f)
    BY DEF Busy
  <2>2. clean[f] => Clean(f)
    BY DEF FInv, Cleans
  <2>3. solo[h] /\ Alone(h)
    BY <1>2, <1>5, <2>1, <2>2 DEF Clean
  <2>4. \A x \in Handlers : Busy(x, f) => x = h
    BY <2>3 DEF Alone
  <2>5. clean[f] => Agree(h, f)
    BY <2>2, <2>4 DEF Clean, Agree
  <2>6. Agree(h, f)'
    BY <1>5, <2>3, <2>5 DEF Alone
  <2>7. \A x \in Handlers : Busy(x, f)' => x = h
    BY <2>4 DEF Busy
  <2>8. pc'[h] # "idle" => Busy(h, f)'
    BY DEF Busy
  <2> QED
    BY <2>3, <2>6, <2>7, <2>8 DEF Clean, Agree
<1>6. Cleans'
  BY <1>4, <1>5 DEF Cleans
<1> QED
  BY <1>1, <1>3, <1>6

\* The invariant of the files says nothing of the start or a crash while the
\* process serves and goes on serving.
LEMMA ServingRest ==
  ASSUME FInv, boot' = "up", Jobs', Solos', Cleans', Flags',
         kept' = kept, served' = served,
         clean'["blocklist"] => file'["blocklist"] \in BlockTexts \cup {None},
         served # {} => file'["blocklist"] # None
  PROVE  FInv'
<1>1. ListFile'
  BY DEF ListFile
<1>2. Left'
  BY DEF FInv, Left
<1> QED
  BY <1>1, <1>2 DEF FInv

\* What is known of a request that is under way.
LEMMA RequestFacts ==
  ASSUME IInv, FInv, NEW h \in Handlers, pc[h] # "idle", NEW f \in Files,
         job[h].file = f
  PROVE  /\ boot = "up" /\ h \in Writers /\ h # Main /\ Handlers \subseteq Writers
         /\ pc \in [Writers -> Points] /\ DOMAIN job = Writers /\ DOMAIN at = Writers
         /\ DOMAIN file = Files /\ DOMAIN tmp = Files
         /\ solo \in [Writers -> BOOLEAN] /\ clean \in [Files -> BOOLEAN]
         /\ Job(h)
         /\ solo[h] => Place(h, f)
         /\ clean[f] => solo[h]
         /\ f = "blocklist" => job[h].text \in BlockTexts
         /\ file["blocklist"] # None
         /\ None \notin BlockTexts \cup {Empty, Torn}
<1>1. Edit(h) /\ boot = "up"
  BY DEF IInv, Edits, Edit
<1>2. h \in Writers /\ h # Main /\ Handlers \subseteq Writers
  BY AdminAssumption DEF Writers
<1>3. /\ pc \in [Writers -> Points] /\ DOMAIN job = Writers /\ DOMAIN at = Writers
      /\ DOMAIN file = Files /\ DOMAIN tmp = Files
      /\ solo \in [Writers -> BOOLEAN] /\ clean \in [Files -> BOOLEAN]
  BY DEF IInv, Kinds, Disk, FInv, Flags
<1>4. Job(h)
  BY DEF FInv, Jobs
<1>5. solo[h] => Place(h, f)
  BY DEF FInv, Solos, Alone
<1>6. clean[f] => solo[h]
  BY <1>1 DEF FInv, Cleans, Clean, Busy
<1>7. f = "blocklist" => job[h].text \in BlockTexts
  BY <1>4, JobSaves
<1>8. file["blocklist"] # None
  BY <1>1 DEF FInv, ListFile, IInv, InForce
<1> QED
  BY <1>1, <1>2, <1>3, <1>4, <1>5, <1>6, <1>7, <1>8, AdminAssumption

\* File::create.
LEMMA OpenFiles ==
  ASSUME IInv, FInv, NEW h \in Handlers, Open(h)
  PROVE  FInv'
<1>1. pc[h] # "idle"
  BY DEF Open
<1> PICK f \in Files : job[h].file = f
  BY <1>1 DEF IInv, Edits, Edit
<1>2. /\ tmp' = [tmp EXCEPT ![f] = Empty]
      /\ pc' = [pc EXCEPT ![h] = "write"]
      /\ at' = [at EXCEPT ![h] = "tmp"]
      /\ UNCHANGED <<boot, config, servers, blocklist, file, job, served, solo, clean,
                     kept>>
  BY DEF Open, memory, past
<1>3. /\ pc[h] = "open" /\ pc'[h] = "write" /\ job'[h] = job[h]
      /\ at'[h] = "tmp" /\ tmp'[f] = Empty
  BY <1>1, <1>2, RequestFacts DEF Open
<1>4. Place(h, f)'
  BY <1>3 DEF Place
<1>5. Agree(h, f) => Agree(h, f)'
  BY <1>2, <1>3 DEF Agree, Saves, Parsed, Memory
<1>6. \A x \in Handlers \ {h} : pc'[x] = pc[x] /\ job'[x] = job[x] /\ at'[x] = at[x]
  BY <1>1, <1>2, RequestFacts
<1>7. \A g \in Files \ {f} : /\ file'[g] = file[g] /\ tmp'[g] = tmp[g]
                             /\ clean'[g] = clean[g] /\ Memory(g)' = Memory(g)
  BY <1>1, <1>2, RequestFacts DEF Memory
<1>8. boot = "up" /\ boot' = "up"
  BY <1>1, <1>2, RequestFacts
<1>9. Jobs' /\ Solos' /\ Cleans'
  BY <1>1, <1>2, <1>3, <1>4, <1>5, <1>6, <1>7, <1>8, StepFiles
<1>10. Flags'
  BY <1>2 DEF FInv, Flags
<1> QED
  BY <1>2, <1>8, <1>9, <1>10, ServingRest DEF FInv, ListFile


\* write_all.  The text of a request that nobody disturbs reaches an empty
\* temporary file; the others may hit anything.
LEMMA WriteFiles ==
  ASSUME IInv, FInv, NEW h \in Handlers, Write(h)
  PROVE  FInv'
<1>1. pc[h] # "idle"
  BY DEF Write
<1> PICK f \in Files : job[h].file = f
  BY <1>1 DEF IInv, Edits, Edit
<1> PICK new \in Overwrite(There(h), job[h].text) : Put(h, new)
  BY DEF Write
<1>2. /\ pc' = [pc EXCEPT ![h] = "rename"]
      /\ at' = [at EXCEPT ![h] = "closed"]
      /\ UNCHANGED <<boot, config, servers, blocklist, job, served, solo, clean, kept>>
  BY DEF Write, memory, past
<1>3. pc[h] = "write" /\ pc'[h] = "rename" /\ job'[h] = job[h]
  BY <1>1, <1>2, RequestFacts DEF Write
<1>4. /\ DOMAIN file' = Files /\ DOMAIN tmp' = Files
      /\ \A g \in Files \ {f} : file'[g] = file[g] /\ tmp'[g] = tmp[g]
      /\ file'[f] \in {file[f], new}
  BY <1>1, RequestFacts DEF Put, disk
<1>5. new \in {job[h].text, Torn}
  BY DEF Overwrite
<1>6. solo[h] => file' = file /\ tmp'[f] = job[h].text
  <2> SUFFICES ASSUME solo[h] PROVE file' = file /\ tmp'[f] = job[h].text
    OBVIOUS
  <2>1. at[h] = "tmp" /\ tmp[f] = Empty
    BY <1>1, <1>3, RequestFacts DEF Place
  <2>2. new = job[h].text
    BY <2>1 DEF Overwrite, There
  <2> QED
    BY <1>1, <2>1, <2>2, RequestFacts DEF Put
<1>7. solo[h] => Place(h, f)'
  BY <1>3, <1>6 DEF Place
<1>8. solo[h] /\ Agree(h, f) => Agree(h, f)'
  BY <1>2, <1>3, <1>6 DEF Agree, Saves, Parsed, Memory
<1>9. \A x \in Handlers \ {h} : pc'[x] = pc[x] /\ job'[x] = job[x] /\ at'[x] = at[x]
  BY <1>1, <1>2, RequestFacts
<1>10. \A g \in Files \ {f} : /\ file'[g] = file[g] /\ tmp'[g] = tmp[g]
                              /\ clean'[g] = clean[g] /\ Memory(g)' = Memory(g)
  BY <1>2, <1>4 DEF Memory
<1>11. boot = "up" /\ boot' = "up"
  BY <1>1, <1>2, RequestFacts
<1>12. Jobs' /\ Solos' /\ Cleans'
  BY <1>1, <1>2, <1>3, <1>7, <1>8, <1>9, <1>10, <1>11, StepFiles
<1>13. Flags'
  BY <1>2 DEF FInv, Flags
<1>14. clean["blocklist"] => file'["blocklist"] = file["blocklist"]
  BY <1>1, <1>4, <1>6, RequestFacts DEF Files
<1>15. file'["blocklist"] # None
  BY <1>1, <1>4, <1>5, RequestFacts DEF Files
<1> QED
  BY <1>2, <1>11, <1>12, <1>13, <1>14, <1>15, ServingRest DEF FInv, ListFile

\* rename: what a request that nobody disturbs has written is the file.
LEMMA RenameFiles ==
  ASSUME IInv, FInv, NEW h \in Handlers, Rename(h)
  PROVE  FInv'
<1>1. pc[h] # "idle"
  BY DEF Rename
<1> PICK f \in Files : job[h].file = f
  BY <1>1 DEF IInv, Edits, Edit
<1>2. /\ pc' = [pc EXCEPT ![h] = IF f = "config" THEN "servers" ELSE "store"]
      /\ at' = Moved(f)
      /\ file' = [file EXCEPT ![f] = tmp[f]]
      /\ tmp' = [tmp EXCEPT ![f] = None]
      /\ tmp[f] # None
      /\ UNCHANGED <<boot, config, servers, blocklist, job, served, solo, clean, kept>>
  BY <1>1, RequestFacts DEF Rename, memory, past
<1>3. /\ pc[h] = "rename" /\ job'[h] = job[h] /\ file'[f] = tmp[f]
      /\ pc'[h] = IF f = "config" THEN "servers" ELSE "store"
  BY <1>1, <1>2, RequestFacts DEF Rename
<1>4. solo[h] => file'[f] = job[h].text
  BY <1>1, <1>3, RequestFacts DEF Place
<1>5. solo[h] => Place(h, f)'
  BY <1>3, <1>4 DEF Place
<1>6. Agree(h, f) => Agree(h, f)'
  BY <1>2, <1>3 DEF Agree
<1>7. \A x \in Handlers \ {h} :
         /\ pc'[x] = pc[x] /\ job'[x] = job[x]
         /\ pc[x] # "idle" /\ job[x].file # f => at'[x] = at[x]
  BY <1>1, <1>2, RequestFacts DEF Moved, Busy
<1>8. \A g \in Files \ {f} : /\ file'[g] = file[g] /\ tmp'[g] = tmp[g]
                             /\ clean'[g] = clean[g] /\ Memory(g)' = Memory(g)
  BY <1>1, <1>2, RequestFacts DEF Memory
<1>9. boot = "up" /\ boot' = "up"
  BY <1>1, <1>2, RequestFacts
<1>10. Jobs' /\ Solos' /\ Cleans'
  BY <1>1, <1>2, <1>3, <1>5, <1>6, <1>7, <1>8, <1>9, StepFiles
<1>11. Flags'
  BY <1>2 DEF FInv, Flags
<1>12. clean["blocklist"] => file'["blocklist"] \in BlockTexts \cup {None}
  <2>1. CASE f = "blocklist"
    BY <1>1, <1>4, <2>1, RequestFacts
  <2>2. CASE f # "blocklist"
    BY <1>2, <2>2 DEF FInv, ListFile
  <2> QED
    BY <2>1, <2>2
<1>13. file'["blocklist"] # None
  BY <1>1, <1>2, RequestFacts DEF Files
<1> QED
  BY <1>2, <1>9, <1>10, <1>11, <1>12, <1>13, ServingRest

\* Of a request that nobody disturbs, a failure leaves the file as it was.
LEMMA FailFiles ==
  ASSUME IInv, FInv, NEW h \in Handlers, OpenFails(h) \/ WriteFails(h) \/ RenameFails(h)
  PROVE  FInv'
<1>1. pc[h] \in {"open", "write", "rename"}
  BY DEF OpenFails, WriteFails, RenameFails
<1> PICK f \in Files : job[h].file = f
  BY <1>1 DEF IInv, Edits, Edit
<1>2. Give(h)
  BY DEF OpenFails, WriteFails, RenameFails
<1>3. /\ pc' = [pc EXCEPT ![h] = "idle"]
      /\ job' = [job EXCEPT ![h] = None]
      /\ at' = [at EXCEPT ![h] = "closed"]
      /\ UNCHANGED <<boot, config, servers, blocklist, served, solo, clean, kept>>
  BY <1>1, <1>2, RequestFacts DEF Give, memory, past
<1>4. pc'[h] = "idle"
  BY <1>1, <1>3, RequestFacts
<1>5. /\ \A g \in Files \ {f} : file'[g] = file[g] /\ tmp'[g] = tmp[g]
      /\ file'[f] \in {file[f], Torn}
      /\ solo[h] => file' = file
  <2>1. CASE ~WriteFails(h)
    BY <2>1 DEF OpenFails, RenameFails, disk
  <2>2. CASE WriteFails(h)
    <3> PICK new \in {There(h), Torn} : Put(h, new)
      BY <2>2 DEF WriteFails
    <3>1. solo[h] => at[h] = "tmp"
      BY <1>1, <2>2, RequestFacts DEF WriteFails, Place
    <3>2. solo[h] => file' = file
      BY <3>1 DEF Put
    <3>3. at[h] = "path" => new \in {file[f], Torn}
      BY DEF There
    <3> QED
      BY <1>1, <3>2, <3>3, RequestFacts DEF Put, disk
  <2> QED
    BY <2>1, <2>2
<1>6. solo[h] /\ Agree(h, f) => Agree(h, f)'
  BY <1>1, <1>3, <1>4, <1>5 DEF Agree, Saves, Parsed, Memory
<1>7. \A x \in Handlers \ {h} : pc'[x] = pc[x] /\ job'[x] = job[x] /\ at'[x] = at[x]
  BY <1>1, <1>3, RequestFacts
<1>8. \A g \in Files \ {f} : /\ file'[g] = file[g] /\ tmp'[g] = tmp[g]
                             /\ clean'[g] = clean[g] /\ Memory(g)' = Memory(g)
  BY <1>3, <1>5 DEF Memory
<1>9. boot = "up" /\ boot' = "up"
  BY <1>1, <1>3, RequestFacts
<1>10. Jobs' /\ Solos' /\ Cleans'
  BY <1>1, <1>3, <1>4, <1>6, <1>7, <1>8, <1>9, StepFiles
<1>11. Flags'
  BY <1>3 DEF FInv, Flags
<1>12. clean["blocklist"] => file'["blocklist"] = file["blocklist"]
  BY <1>1, <1>5, RequestFacts DEF Files
<1>13. file'["blocklist"] # None
  BY <1>1, <1>5, RequestFacts DEF Files
<1> QED
  BY <1>3, <1>9, <1>10, <1>11, <1>12, <1>13, ServingRest DEF FInv, ListFile

\* set_servers
LEMMA SetServersFiles ==
  ASSUME IInv, FInv, NEW h \in Handlers, SetServers(h)
  PROVE  FInv'
<1>1. pc[h] # "idle" /\ pc[h] = "servers"
  BY DEF SetServers
<1> PICK f \in Files : job[h].file = f
  BY <1>1 DEF IInv, Edits, Edit
<1>2. /\ pc' = [pc EXCEPT ![h] = "store"]
      /\ servers' = UpstreamAddrs(job[h].value)
      /\ UNCHANGED <<boot, config, blocklist, file, tmp, job, at, served, solo, clean,
                     kept>>
  BY DEF SetServers, disk, past
<1>3. f = "config" /\ pc'[h] = "store" /\ job'[h] = job[h]
  BY <1>1, <1>2, RequestFacts DEF Job
<1>4. solo[h] => Place(h, f)'
  BY <1>1, <1>2, <1>3, RequestFacts DEF Place
<1>5. Agree(h, f)'
  BY <1>3 DEF Agree
<1>6. \A x \in Handlers \ {h} : pc'[x] = pc[x] /\ job'[x] = job[x] /\ at'[x] = at[x]
  BY <1>1, <1>2, RequestFacts
<1>7. \A g \in Files \ {f} : /\ file'[g] = file[g] /\ tmp'[g] = tmp[g]
                             /\ clean'[g] = clean[g] /\ Memory(g)' = Memory(g)
  BY <1>2 DEF Memory
<1>8. boot = "up" /\ boot' = "up"
  BY <1>1, <1>2, RequestFacts
<1>9. Jobs' /\ Solos' /\ Cleans'
  BY <1>1, <1>2, <1>3, <1>4, <1>5, <1>6, <1>7, <1>8, StepFiles
<1>10. Flags'
  BY <1>2 DEF FInv, Flags
<1> QED
  BY <1>2, <1>8, <1>9, <1>10, ServingRest DEF FInv, ListFile

\* store: a request that nobody disturbed leaves memory and file in agreement,
\* whatever was there before.
LEMMA StoreFiles ==
  ASSUME IInv, FInv, NEW h \in Handlers, Store(h)
  PROVE  FInv'
<1>1. pc[h] # "idle" /\ pc[h] = "store"
  BY DEF Store
<1> PICK f \in Files : job[h].file = f
  BY <1>1 DEF IInv, Edits, Edit
<1>2. /\ pc' = [pc EXCEPT ![h] = "idle"]
      /\ job' = [job EXCEPT ![h] = None]
      /\ clean' = [clean EXCEPT ![f] = @ \/ solo[h]]
      /\ UNCHANGED <<boot, servers, file, tmp, at, served, solo, kept>>
  BY DEF Store, disk
<1>3. /\ f = "config" => config' = job[h].value /\ blocklist' = blocklist
      /\ f # "config" => blocklist' = job[h].value /\ config' = config
  BY DEF Store
<1>4. /\ pc'[h] = "idle" /\ clean'[f] = (clean[f] \/ solo[h])
      /\ clean' \in [Files -> BOOLEAN]
      /\ \A g \in Files \ {f} : clean'[g] = clean[g]
  BY <1>1, <1>2, RequestFacts
<1>5. solo[h] => file[f] = job[h].text
                 /\ (f = "config" => servers = UpstreamAddrs(job[h].value))
  BY <1>1, RequestFacts DEF Place
<1>6. Memory(f)' = job[h].value
  BY <1>3 DEF Memory
<1>7. solo[h] => Agree(h, f)'
  <2> SUFFICES ASSUME solo[h] PROVE Agree(h, f)'
    OBVIOUS
  <2>1. Saves(f, job[h].text, job[h].value)
    BY <1>1, RequestFacts, JobSaves
  <2>2. Saves(f, file[f], Memory(f))'
    BY <1>2, <1>5, <1>6, <2>1 DEF Saves, Parsed
  <2>3. f = "config" => servers' = UpstreamAddrs(config')
    BY <1>2, <1>3, <1>5
  <2> QED
    BY <2>2, <2>3 DEF Agree
<1>8. \A x \in Handlers \ {h} : pc'[x] = pc[x] /\ job'[x] = job[x] /\ at'[x] = at[x]
  BY <1>1, <1>2, RequestFacts
<1>9. \A g \in Files \ {f} : /\ file'[g] = file[g] /\ tmp'[g] = tmp[g]
                             /\ clean'[g] = clean[g] /\ Memory(g)' = Memory(g)
  BY <1>2, <1>3, <1>4 DEF Memory, Files
<1>10. boot = "up" /\ boot' = "up"
  BY <1>1, <1>2, RequestFacts
<1>11. f # "config" => servers' = servers /\ config' = config
  BY <1>2, <1>3
<1>12. clean'[f] => clean[f] \/ solo[h]
  BY <1>4
<1>13. Jobs' /\ Solos' /\ Cleans'
  BY <1>1, <1>2, <1>4, <1>7, <1>8, <1>9, <1>10, <1>11, <1>12, StepFiles
<1>14. Flags'
  BY <1>2, <1>4 DEF FInv, Flags
<1>15. clean'["blocklist"] => file'["blocklist"] \in BlockTexts \cup {None}
  <2>1. CASE f = "blocklist"
    BY <1>1, <1>2, <1>4, <1>5, <2>1, RequestFacts
  <2>2. CASE f # "blocklist"
    BY <1>2, <2>2 DEF FInv, ListFile
  <2> QED
    BY <2>1, <2>2
<1> QED
  BY <1>1, <1>2, <1>10, <1>13, <1>14, <1>15, RequestFacts, ServingRest


-----------------------------------------------------------------------------
\* The requests that come in.

\* Steps that touch none of this.
LEMMA SameFiles ==
  ASSUME FInv, UNCHANGED <<boot, memory, disk, work, past>>
  PROVE  FInv'
<1>1. UNCHANGED <<boot, config, servers, blocklist, file, tmp, pc, job, at, served, solo,
                  clean, kept>>
  BY DEF memory, disk, work, past
<1>2. Flags'
  BY <1>1 DEF FInv, Flags
<1>3. Jobs'
  BY <1>1 DEF FInv, Jobs, Job
<1>4. Solos'
  BY <1>1 DEF FInv, Solos, Alone, Place, Busy
<1>5. \A f \in Files : Clean(f)' <=> Clean(f)
  BY <1>1 DEF Clean, Busy, Saves, Memory
<1>6. Cleans'
  BY <1>1, <1>5 DEF FInv, Cleans
<1>7. ListFile' /\ Left'
  BY <1>1 DEF FInv, ListFile, Left, Saves
<1> QED
  BY <1>2, <1>3, <1>4, <1>6, <1>7 DEF FInv

\* A request that sets out to write: the others for the file are disturbed by
\* it, and it by them.
LEMMA BeginFiles ==
  ASSUME IInv, FInv, NEW h \in Handlers, boot = "up", pc[h] = "idle",
         NEW f \in Files, NEW text, NEW value, NEW cred,
         f = "config" => text = value,
         f = "blocklist" => \E t \in Texts : /\ value = FromText(t)
                                             /\ text = ToFileText(FromText(t)),
         Begin(h, f, text, value, cred),
         UNCHANGED <<boot, memory, disk, at, served, kept>>
  PROVE  FInv'
<1>1. /\ h \in Writers /\ Handlers \subseteq Writers
      /\ pc \in [Writers -> Points] /\ DOMAIN job = Writers
      /\ solo \in [Writers -> BOOLEAN] /\ clean \in [Files -> BOOLEAN]
  BY DEF IInv, Kinds, FInv, Flags, Writers
<1>2. UNCHANGED <<boot, config, servers, blocklist, file, tmp, at, served, kept>>
  BY DEF memory, disk
<1>3. /\ pc' = [pc EXCEPT ![h] = "open"]
      /\ job' = [job EXCEPT ![h] = [file |-> f, text |-> text, value |-> value,
                                    cred |-> cred]]
      /\ solo' = [x \in Writers |-> IF x = h THEN Active(f) = {}
                                             ELSE solo[x] /\ ~Busy(x, f)]
      /\ clean' = [clean EXCEPT ![f] = @ /\ Active(f) = {}]
  BY DEF Begin
<1>4. /\ pc'[h] = "open"
      /\ job'[h] = [file |-> f, text |-> text, value |-> value, cred |-> cred]
      /\ \A x \in Handlers \ {h} : pc'[x] = pc[x] /\ job'[x] = job[x]
      /\ solo'[h] => Active(f) = {}
      /\ Active(f) = {} => solo'[h]
      /\ \A x \in Handlers \ {h} : solo'[x] = (solo[x] /\ ~Busy(x, f))
      /\ clean'[f] => clean[f] /\ Active(f) = {}
      /\ \A g \in Files \ {f} : clean'[g] = clean[g]
  BY <1>1, <1>3
<1>5. Active(f) = {} => \A x \in Handlers : ~Busy(x, f)
  BY <1>1 DEF Active
<1>6. /\ \A x \in Handlers \ {h} : \A g \in Files : Busy(x, g)' <=> Busy(x, g)
      /\ \A g \in Files : Busy(h, g)' <=> g = f
      /\ \A g \in Files : ~Busy(h, g)
  BY <1>4 DEF Busy
<1>7. Flags'
  <2>1. solo' \in [Writers -> BOOLEAN]
    BY <1>1, <1>3
  <2>2. clean' \in [Files -> BOOLEAN]
    BY <1>1, <1>3
  <2> QED
    BY <1>2, <2>1, <2>2 DEF FInv, Flags
<1>8. Jobs'
  <2> SUFFICES ASSUME NEW x \in Handlers, pc'[x] # "idle" PROVE Job(x)'
    BY DEF Jobs
  <2>1. CASE x = h
    BY <1>4, <2>1 DEF Job
  <2>2. CASE x # h
    BY <1>4, <2>2 DEF FInv, Jobs, Job
  <2> QED
    BY <2>1, <2>2
<1>9. Solos'
  <2> SUFFICES ASSUME NEW x \in Handlers, pc'[x] # "idle", solo'[x] PROVE Alone(x)'
    BY DEF Solos
  <2>1. CASE x = h
    <3>1. \A y \in Handlers : Busy(y, f)' => y = h
      BY <1>4, <1>5, <1>6, <2>1
    <3>2. Place(h, f)'
      BY <1>4 DEF Place
    <3> QED
      BY <1>4, <2>1, <3>1, <3>2 DEF Alone
  <2>2. CASE x # h
    <3> PICK g \in Files : job[x].file = g
      BY <1>4, <2>2 DEF IInv, Edits, Edit
    <3>1. pc[x] # "idle" /\ pc'[x] = pc[x] /\ job'[x] = job[x] /\ solo[x] /\ ~Busy(x, f)
      BY <1>4, <2>2
    <3>2. Alone(x) /\ g # f
      BY <3>1 DEF FInv, Solos, Busy
    <3>3. \A y \in Handlers : Busy(y, g)' => y = x
      BY <1>6, <3>2 DEF Alone
    <3>4. Place(x, g)'
      BY <1>2, <3>1, <3>2 DEF Alone, Place
    <3> QED
      BY <3>1, <3>3, <3>4 DEF Alone
  <2> QED
    BY <2>1, <2>2
<1>10. \A g \in Files : Saves(g, file[g], Memory(g))' <=> Saves(g, file[g], Memory(g))
  BY <1>2 DEF Saves, Parsed, Memory
<1>11. Cleans'
  <2> SUFFICES ASSUME NEW g \in Files, clean'[g] PROVE Clean(g)'
    BY DEF Cleans
  <2>1. Clean(g)
    BY <1>4 DEF FInv, Cleans
  <2>2. CASE g = f
    <3>1. \A x \in Handlers : ~Busy(x, f)
      BY <1>4, <1>5, <2>2
    <3>2. Saves(f, file[f], Memory(f)) /\ (f = "config" => servers = UpstreamAddrs(config))
      BY <2>1, <2>2, <3>1 DEF Clean
    <3>3. solo'[h]
      BY <1>4, <2>2
    <3> QED
      BY <1>2, <1>6, <1>10, <2>2, <3>1, <3>2, <3>3 DEF Clean
  <2>3. CASE g # f
    <3>1. \A x \in Handlers : Busy(x, g)' <=> Busy(x, g)
      BY <1>6, <2>3
    <3>2. \A x \in Handlers : Busy(x, g) => x # h /\ pc'[x] = pc[x] /\ solo'[x] = solo[x]
      <4> SUFFICES ASSUME NEW x \in Handlers, Busy(x, g)
                   PROVE  x # h /\ pc'[x] = pc[x] /\ solo'[x] = solo[x]
        OBVIOUS
      <4>1. x # h /\ ~Busy(x, f)
        BY <1>6, <2>3 DEF Busy
      <4> QED
        BY <1>1, <1>4, <4>1
    <3> QED
      BY <1>2, <1>10, <2>1, <3>1, <3>2 DEF Clean
  <2> QED
    BY <2>2, <2>3
<1>12. /\ clean'["blocklist"] => file'["blocklist"] \in BlockTexts \cup {None}
       /\ served # {} => file'["blocklist"] # None
  BY <1>2, <1>4 DEF FInv, ListFile, Files
<1> QED
  BY <1>2, <1>7, <1>8, <1>9, <1>11, <1>12, ServingRest

\* A request is turned away, refused, or sets out to write.
LEMMA RequestFiles ==
  ASSUME IInv, FInv, NEW h \in Handlers, Request(h)
  PROVE  FInv'
<1> PICK cred \in Credentials :
        \/ Unauthorized(h, cred)
        \/ \E body \in Bodies : SetConfig(h, body, cred) \/ RefuseConfig(h, body, cred)
        \/ \E text \in Texts : SetBlocklist(h, text, cred)
  BY DEF Request
<1>1. CASE Unauthorized(h, cred)
  BY <1>1, SameFiles DEF Unauthorized
<1>2. ASSUME NEW body \in Bodies, RefuseConfig(h, body, cred)
      PROVE  FInv'
  BY <1>2, SameFiles DEF RefuseConfig
<1>3. ASSUME NEW body \in Bodies, SetConfig(h, body, cred)
      PROVE  FInv'
  <2>1. "config" \in Files /\ "config" # "blocklist"
    BY DEF Files
  <2> QED
    BY <1>3, <2>1, BeginFiles DEF SetConfig
<1>4. ASSUME NEW text \in Texts, SetBlocklist(h, text, cred)
      PROVE  FInv'
  <2>1. "blocklist" \in Files /\ "blocklist" # "config"
    BY DEF Files
  <2> QED
    BY <1>4, <2>1, BeginFiles DEF SetBlocklist
<1> QED
  BY <1>1, <1>2, <1>3, <1>4


-----------------------------------------------------------------------------
\* The start and the end of the process.

\* There are no requests then.
LEMMA StartFiles ==
  ASSUME IInv', boot' # "up", Flags', ListFile', Left'
  PROVE  FInv'
<1>1. \A h \in Handlers : pc'[h] = "idle"
  BY DEF IInv, Edits, Edit
<1>2. Jobs' /\ Solos' /\ Cleans'
  BY <1>1 DEF Jobs, Solos, Cleans
<1> QED
  BY <1>2 DEF FInv

\* Before anything was served, nothing has been kept.
LEMMA FirstStart ==
  ASSUME FInv, IInv', boot' \notin {"up", "fill"}, Flags', kept' = kept,
         served = {}, served' = served,
         clean'["blocklist"] => clean["blocklist"],
         file'["blocklist"] = file["blocklist"]
  PROVE  FInv'
<1>1. ListFile'
  BY DEF FInv, ListFile
<1>2. Left'
  BY DEF FInv, Left
<1> QED
  BY <1>1, <1>2, StartFiles

\* write_atomic of main().
LEMMA MainFiles ==
  ASSUME IInv, FInv, IInv', WriteAtomic(Main)
  PROVE  FInv'
<1>1. Main \in Writers /\ DOMAIN file = Files /\ DOMAIN tmp = Files
  BY DEF Writers, IInv, Disk
<1>2. pc[Main] # "idle"
  BY DEF WriteAtomic, Open, OpenFails, Write, WriteFails, Rename, RenameFails
<1>3. boot \in {"default", "save"} /\ job[Main].file = "config" /\ served = {}
  BY <1>2, NobodyServed DEF IInv, MainWrites
<1>4. "config" # "blocklist" /\ Files = {"config", "blocklist"}
  BY DEF Files
<1>5. CASE Open(Main)
  <2>1. UNCHANGED <<boot, file, served, solo, clean, kept>>
    BY <1>5 DEF Open, past
  <2>2. Flags'
    BY <2>1 DEF FInv, Flags
  <2> QED
    BY <1>3, <2>1, <2>2, FirstStart
<1>6. CASE Write(Main)
  <2>1. UNCHANGED <<boot, served, solo, clean, kept>>
    BY <1>6 DEF Write, past
  <2>2. file'["blocklist"] = file["blocklist"]
    BY <1>1, <1>3, <1>4, <1>6 DEF Write, Put, disk
  <2>3. Flags'
    BY <2>1 DEF FInv, Flags
  <2> QED
    BY <1>3, <2>1, <2>2, <2>3, FirstStart
<1>7. CASE Rename(Main)
  <2>1. UNCHANGED <<served, solo, clean, kept>> /\ boot' \in {"token", "list"}
    BY <1>7 DEF Rename, past
  <2>2. file'["blocklist"] = file["blocklist"]
    BY <1>1, <1>3, <1>4, <1>7 DEF Rename
  <2>3. Flags'
    BY <2>1 DEF FInv, Flags
  <2> QED
    BY <1>3, <2>1, <2>2, <2>3, FirstStart
<1>8. CASE OpenFails(Main) \/ WriteFails(Main) \/ RenameFails(Main)
  <2>1. Give(Main)
    BY <1>8 DEF OpenFails, WriteFails, RenameFails
  <2>2. Gone /\ UNCHANGED <<served, clean, kept>>
    BY <2>1 DEF Give
  <2>3. file'["blocklist"] = file["blocklist"]
    BY <1>1, <1>3, <1>4, <1>8 DEF OpenFails, WriteFails, RenameFails, Put, disk
  <2>4. Flags' /\ boot' = "down"
    BY <2>2 DEF FInv, Flags, Gone
  <2> QED
    BY <1>3, <2>2, <2>3, <2>4, FirstStart
<1> QED
  BY <1>5, <1>6, <1>7, <1>8 DEF WriteAtomic

\* Where main() sets out to write, the list is as before.
LEMMA MainBegins ==
  ASSUME FInv, NEW text, NEW value, NEW cred, Begin(Main, "config", text, value, cred)
  PROVE  clean'["blocklist"] = clean["blocklist"]
         /\ solo' \in [Writers -> BOOLEAN] /\ clean' \in [Files -> BOOLEAN]
<1>1. clean \in [Files -> BOOLEAN] /\ solo \in [Writers -> BOOLEAN]
      /\ Files = {"config", "blocklist"}
  BY DEF FInv, Flags, Files
<1>2. clean'["blocklist"] = clean["blocklist"] /\ clean' \in [Files -> BOOLEAN]
  BY <1>1 DEF Begin
<1>3. solo' \in [Writers -> BOOLEAN]
  BY <1>1 DEF Begin
<1> QED
  BY <1>2, <1>3

\* The server comes up: memory is what has been read.
LEMMA ServeFiles ==
  ASSUME IInv, FInv, IInv', Serve
  PROVE  FInv'
<1>1. /\ boot \in {"list", "token"} /\ boot' = "up"
      /\ file["blocklist"] # None
      /\ servers' = UpstreamAddrs(config)
      /\ served' = served \cup {config.token}
      /\ UNCHANGED <<config, file, tmp, pc, job, at, solo, clean, kept>>
  BY DEF Serve, disk, work
<1>2. \A h \in Handlers : pc'[h] = "idle"
  BY <1>1, NoRequests
<1>3. \A h \in Handlers, f \in Files : ~Busy(h, f)'
  BY <1>2 DEF Busy
<1>4. Flags' /\ Jobs' /\ Solos'
  BY <1>1, <1>2 DEF FInv, Flags, Jobs, Solos
<1>5. file["config"] = config
  BY <1>1 DEF IInv, Stage
<1>6. Clean("config")'
  <2>1. Saves("config", file["config"], Memory("config"))'
    BY <1>1, <1>5 DEF Saves, Parsed, Memory
  <2> QED
    BY <1>1, <1>3, <2>1 DEF Clean, Files
<1>7. clean["blocklist"] => Clean("blocklist")'
  <2> SUFFICES ASSUME clean["blocklist"] PROVE Clean("blocklist")'
    OBVIOUS
  <2>1. file["blocklist"] \in BlockTexts
    BY <1>1 DEF FInv, ListFile
  <2>2. file["blocklist"] # Torn
    BY <2>1, AdminAssumption
  <2>3. blocklist' = Parsed("blocklist", file["blocklist"])
    BY <2>2 DEF Serve
  <2>4. Saves("blocklist", file["blocklist"], Memory("blocklist"))'
    BY <1>1, <2>3 DEF Saves, Memory, Parsed
  <2> QED
    BY <1>3, <2>4 DEF Clean, Files
<1>8. Cleans'
  BY <1>1, <1>6, <1>7 DEF Cleans, Files
<1>9. ListFile'
  BY <1>1 DEF FInv, ListFile
<1>10. Left'
  BY <1>1 DEF Left
<1> QED
  BY <1>4, <1>8, <1>9, <1>10 DEF FInv

\* Each stage of the start.
LEMMA BootFiles ==
  ASSUME IInv, FInv, IInv', Boot
  PROVE  FInv'
<1>1. Files = {"config", "blocklist"} /\ DOMAIN file = Files
      /\ clean \in [Files -> BOOLEAN]
  BY DEF Files, IInv, Disk, FInv, Flags
<1>2. CASE Load
  <2>1. boot = "down" /\ boot' = "token" /\ UNCHANGED <<file, served, solo, clean, kept>>
    BY <1>2 DEF Load, disk, past
  <2>2. Flags' /\ ListFile'
    BY <2>1 DEF FInv, Flags, ListFile
  <2>3. Left'
    BY <2>1 DEF FInv, Left, Saves
  <2> QED
    BY <2>1, <2>2, <2>3, StartFiles
<1>3. CASE LoadFails
  BY <1>3, SameFiles DEF LoadFails
<1>4. CASE LoadCreates
  <2>1. /\ boot' = "default" /\ file["config"] = None
        /\ Begin(Main, "config", Default, Default, None)
        /\ UNCHANGED <<file, served, kept>>
    BY <1>4 DEF LoadCreates, disk
  <2>2. Flags' /\ clean'["blocklist"] = clean["blocklist"]
    BY <2>1, MainBegins DEF FInv, Flags
  <2> QED
    BY <2>1, <2>2, NobodyServed, FirstStart
<1>5. ASSUME NEW t \in Fresh, GenerateToken(t)
      PROVE  FInv'
  <2>1. /\ boot = "token" /\ NeedsToken(config) /\ boot' = "save"
        /\ Begin(Main, "config", config', config', None)
        /\ UNCHANGED <<file, served, kept>>
    BY <1>5 DEF GenerateToken, disk
  <2>2. Flags' /\ clean'["blocklist"] = clean["blocklist"]
    BY <2>1, MainBegins DEF FInv, Flags
  <2> QED
    BY <2>1, <2>2, NobodyServed, FirstStart
<1>6. CASE CreateList
  <2>1. /\ boot' = "fill" /\ file["blocklist"] = None
        /\ clean' = [clean EXCEPT !["blocklist"] = FALSE]
        /\ UNCHANGED <<served, solo, kept>>
    BY <1>6 DEF CreateList
  <2>2. served = {}
    BY <2>1 DEF FInv, ListFile
  <2>3. ~clean'["blocklist"] /\ Flags'
    BY <1>1, <2>1 DEF FInv, Flags
  <2>4. ListFile'
    BY <2>1, <2>2, <2>3 DEF ListFile
  <2>5. Left'
    BY <2>1, <2>2 DEF FInv, Left
  <2> QED
    BY <2>1, <2>3, <2>4, <2>5, StartFiles
<1>7. CASE FillList
  <2>1. /\ boot = "fill" /\ boot' = "list"
        /\ file' = [file EXCEPT !["blocklist"] = DEFAULT_BLOCKLIST]
        /\ clean' = [clean EXCEPT !["blocklist"] = TRUE]
        /\ UNCHANGED <<served, solo, kept>>
    BY <1>7 DEF FillList
  <2>2. served = {}
    BY <2>1 DEF FInv, ListFile
  <2>3. Flags'
    BY <1>1, <2>1 DEF FInv, Flags
  <2>4. file'["blocklist"] \in BlockTexts
    BY <1>1, <2>1 DEF BlockTexts
  <2>5. ListFile'
    BY <2>1, <2>2, <2>4 DEF ListFile
  <2>6. Left'
    BY <2>1, <2>2 DEF FInv, Left
  <2> QED
    BY <2>1, <2>3, <2>5, <2>6, StartFiles
<1>8. CASE FillFails
  <2>1. boot = "fill" /\ boot' = "down" /\ UNCHANGED <<served, clean, kept>>
        /\ solo' = [w \in Writers |-> FALSE]
    BY <1>8 DEF FillFails, Gone
  <2>2. served = {} /\ ~clean["blocklist"]
    BY <2>1 DEF FInv, ListFile
  <2>3. Flags'
    BY <2>1 DEF FInv, Flags
  <2>4. ListFile'
    BY <2>1, <2>2 DEF ListFile
  <2>5. Left'
    BY <2>1, <2>2 DEF FInv, Left
  <2> QED
    BY <2>1, <2>3, <2>4, <2>5, StartFiles
<1>9. CASE Serve
  BY <1>9, ServeFiles
<1> QED
  BY <1>2, <1>3, <1>4, <1>5, <1>6, <1>7, <1>8, <1>9 DEF Boot

\* What a crash leaves is what was in force, or what the one request that it
\* cut off has renamed already.
LEMMA CrashFiles ==
  ASSUME IInv, FInv, IInv', Crash
  PROVE  FInv'
<1>1. /\ boot' = "down" /\ UNCHANGED <<file, served, clean>>
      /\ solo' = [w \in Writers |-> FALSE]
  BY DEF Crash, Gone, disk
<1>2. ListFile'
  BY <1>1 DEF FInv, ListFile
<1>3. CASE boot # "up"
  <2>1. kept' = kept
    BY <1>3 DEF Crash
  <2>2. Flags'
    BY <1>1, <2>1 DEF FInv, Flags
  <2>3. Left'
    BY <1>1, <1>3, <2>1 DEF FInv, Left, Saves
  <2> QED
    BY <1>1, <1>2, <2>2, <2>3, StartFiles
<1>4. CASE boot = "up"
  <2>1. kept' = [f \in Files |-> {Memory(f)} \cup {job[w].value : w \in Active(f)}]
    BY <1>4 DEF Crash
  <2>2. Flags'
    BY <1>1, <2>1 DEF FInv, Flags
  <2>3. served' # {}
    BY <1>1, <1>4 DEF IInv, InForce
  <2>4. ASSUME NEW f \in Files, clean[f]
        PROVE  \E value \in kept'[f] : Saves(f, file[f], value)
    <3>1. Clean(f)
      BY <1>4, <2>4 DEF FInv, Cleans
    <3>2. CASE \A h \in Handlers : Busy(h, f) => pc[h] \in {"open", "write", "rename"}
      BY <2>1, <3>1, <3>2 DEF Clean
    <3>3. ASSUME NEW h \in Handlers, Busy(h, f), pc[h] \notin {"open", "write", "rename"}
          PROVE  \E value \in kept'[f] : Saves(f, file[f], value)
      <4>1. pc[h] # "idle" /\ job[h].file = f
        BY <3>3 DEF Busy
      <4>2. pc[h] \in {"servers", "store"} /\ solo[h] /\ h \in Active(f)
        BY <3>1, <3>3, <4>1, RequestFacts DEF Clean, Points, Active
      <4>3. file[f] = job[h].text
        BY <4>1, <4>2, RequestFacts DEF Place
      <4>4. Saves(f, job[h].text, job[h].value)
        BY <4>1, RequestFacts, JobSaves
      <4> QED
        BY <2>1, <4>2, <4>3, <4>4
    <3> QED
      BY <3>2, <3>3
  <2>5. Left'
    BY <1>1, <2>3, <2>4 DEF Left, Saves
  <2> QED
    BY <1>1, <1>2, <2>2, <2>5, StartFiles
<1> QED
  BY <1>3, <1>4

-----------------------------------------------------------------------------
\* The invariant is inductive.
LEMMA NextFiles == IInv /\ FInv /\ IInv' /\ [Next]_vars => FInv'
<1> SUFFICES ASSUME IInv, FInv, IInv', [Next]_vars PROVE FInv'
  OBVIOUS
<1>1. ASSUME NEW h \in Handlers, WriteAtomic(h) PROVE FInv'
  BY <1>1, OpenFiles, WriteFiles, RenameFiles, FailFiles DEF WriteAtomic
<1>2. ASSUME NEW h \in Handlers, Request(h) \/ SetServers(h) \/ Store(h) PROVE FInv'
  BY <1>2, RequestFiles, SetServersFiles, StoreFiles
<1>3. ASSUME NEW w \in Writers, WriteAtomic(w) PROVE FInv'
  BY <1>1, <1>3, MainFiles DEF Writers
<1>4. CASE Boot
  BY <1>4, BootFiles
<1>5. CASE Crash
  BY <1>5, CrashFiles
<1>6. CASE UNCHANGED vars
  BY <1>6, SameFiles DEF vars
<1> QED
  BY <1>2, <1>3, <1>4, <1>5, <1>6 DEF Next

\* At the start there is what the operator has put there.
LEMMA InitFiles == Init => FInv
<1> SUFFICES ASSUME Init PROVE FInv
  OBVIOUS
<1>1. Flags
  BY DEF Init, Flags
<1>2. Jobs /\ Solos /\ Cleans
  BY DEF Init, Jobs, Solos, Cleans, Writers
<1>3. ListFile
  BY DEF Init, ListFile, BlockTexts, Files
<1>4. Left
  BY DEF Init, Left
<1> QED
  BY <1>1, <1>2, <1>3, <1>4 DEF FInv

\* Both invariants together.
LEMMA FilesInvariant == Spec => [](IInv /\ FInv)
<1>1. Init => IInv /\ FInv
  BY InitInv, InitFiles
<1>2. IInv /\ FInv /\ [Next]_vars => IInv' /\ FInv'
  BY NextInv, NextFiles
<1> QED
  BY <1>1, <1>2, PTL DEF Spec


\* A text of a blocklist file is a set of lines.
LEMMA BlockTextsAreLines == \A t \in BlockTexts : t \subseteq Line
<1>1. \A t \in Texts : ToFileText(FromText(t)) \subseteq Line
  BY ToFileTextType, LineIs, AdminAssumption
<1> QED
  BY <1>1, AdminAssumption DEF BlockTexts

\* For any number of requests in any order, with failures at any step: where the
\* last change of a file was one request alone, memory has what the next start
\* reads, and the upstream the servers of the config (web.rs set_config and
\* set_blocklist, config.rs write_atomic).
THEOREM FilesSettled == Spec => []Settled
<1>1. IInv /\ FInv => Settled
  <2> SUFFICES ASSUME IInv, FInv, boot = "up",
                      NEW f \in Files, clean[f], Active(f) = {}
               PROVE  /\ Saves(f, file[f], Memory(f))
                      /\ f = "config" => servers = UpstreamAddrs(config)
    BY DEF Settled, Saves, Memory, Files
  <2>1. \A h \in Handlers : ~Busy(h, f)
    BY DEF Active, Writers
  <2>2. Clean(f)
    BY DEF FInv, Cleans
  <2> QED
    BY <2>1, <2>2 DEF Clean
<1> QED
  BY <1>1, FilesInvariant, PTL

\* Wherever a crash comes, a file that no two requests disturbed is whole: it has
\* what was in force, or what the request that the crash cut off was about to
\* install (config.rs write_atomic).
THEOREM FilesDurable == Spec => []Durable
<1>1. IInv /\ FInv => Durable
  BY DEF FInv, Left, Durable, Saves
<1> QED
  BY <1>1, FilesInvariant, PTL

\* What is blocked is what the lines of the file mean by the documentation, where
\* normalize misreads none of them: a plain domain or a pasted URL blocks its host
\* and the subdomains, a wildcard the subdomains only (blocklist.rs from_text,
\* normalize, is_blocked and to_file_text, and the edits).
THEOREM ListBlocksAsDocumented == Spec => []BlocksAsDocumented
<1>1. IInv /\ FInv => BlocksAsDocumented
  <2> SUFFICES ASSUME IInv, FInv, boot = "up", clean["blocklist"],
                      Active("blocklist") = {}, ~IsOdd(blocklist),
                      \A l \in file["blocklist"] : ~IsMisread(l), NEW n \in Names
               PROVE  IsBlocked(blocklist, n)
                         <=> \E l \in file["blocklist"] : Covers(l, n)
    BY DEF BlocksAsDocumented
  <2>1. \A h \in Handlers : ~Busy(h, "blocklist")
    BY DEF Active, Writers
  <2>2. Saves("blocklist", file["blocklist"], blocklist)
    BY <2>1 DEF FInv, Cleans, Clean, Files, Memory
  <2>3. file["blocklist"] \in BlockTexts
    BY DEF FInv, ListFile, IInv, InForce
  <2>4. blocklist = FromText(file["blocklist"])
    BY <2>2, <2>3, AdminAssumption DEF Saves, Parsed
  <2>5. file["blocklist"] \subseteq Lines(Words)
    BY <2>3, BlockTextsAreLines, LineIs
  <2>6. n \in Seq(Words)
    <3>1. Names \subseteq Seq(Labels) /\ Labels \subseteq Words
      BY AdminAssumption DEF Words
    <3> QED
      BY <3>1, SeqOfMore
  <2> QED
    BY <2>4, <2>5, <2>6, BlocksWhatLinesCover
<1> QED
  BY <1>1, FilesInvariant, PTL


-----------------------------------------------------------------------------
\* Types, where the two invariants leave them open.

Held == servers \in Seq(Servers) /\ blocklist \in Lists \cup {None}

Listed ==
    /\ file["blocklist"] \in BlockTexts \cup {None, Empty, Torn}
    /\ tmp["blocklist"] \in BlockTexts \cup {None, Empty, Torn}

Handles ==
    /\ at \in [Writers -> {"closed", "tmp", "path", "unlinked"}]
    /\ \A w \in Writers : (job[w] = None) <=> (pc[w] = "idle")

Counted ==
    /\ starts \in 0 .. MaxStarts
    /\ requests \in 0 .. MaxRequests
    /\ minted \subseteq Random
    /\ served \subseteq Tokens

Typed == Held /\ Listed /\ Handles /\ Counted

\* What is read from a text of a file or a request may be in force.
LEMMA ListsOfTexts ==
  ASSUME NEW text \in BlockTexts \cup Texts \cup {{}}
  PROVE  FromText(text) \in Lists
  BY DEF Lists

\* What a writer has to do, by its file.
LEMMA WorkTypes ==
  ASSUME IInv, FInv, NEW w \in Writers, pc[w] # "idle"
  PROVE  /\ job[w].file \in Files
         /\ job[w].file = "config" => job[w].text \in Configs
         /\ job[w].file = "config" /\ w # Main => job[w].value \in Configs
         /\ job[w].file = "blocklist" =>
               job[w].text \in BlockTexts /\ job[w].value \in Lists
<1>1. CASE w = Main
  BY <1>1 DEF IInv, MainWrites, Kinds, Files
<1>2. CASE w # Main
  <2>1. w \in Handlers
    BY <1>2 DEF Writers
  <2>2. Edit(w) /\ Job(w)
    BY <2>1 DEF IInv, Edits, FInv, Jobs
  <2>3. job[w].file = "blocklist" => job[w].text \in BlockTexts
    BY <2>2, JobSaves DEF Files
  <2>4. job[w].file = "blocklist" => job[w].value \in Lists
    BY <2>2, ListsOfTexts DEF Job
  <2> QED
    BY <2>2, <2>3, <2>4 DEF Edit
<1> QED
  BY <1>1, <1>2

\* What memory has comes from a config or a text.
LEMMA HeldStep ==
  ASSUME IInv, FInv, Typed, [Next]_vars
  PROVE  Held'
<1>1. <<>> \in Seq(Servers)
  OBVIOUS
<1>2. CASE UNCHANGED memory
  BY <1>2 DEF Typed, Held, memory
<1>3. CASE Gone
  BY <1>1, <1>3 DEF Gone, Held
<1>4. ASSUME NEW w \in Writers, WriteAtomic(w) PROVE Held'
  <2>1. UNCHANGED memory \/ Gone
    BY <1>4 DEF WriteAtomic, Open, OpenFails, Write, WriteFails, Rename, RenameFails, Give
  <2> QED
    BY <1>2, <1>3, <2>1
<1>5. ASSUME NEW h \in Handlers, Request(h) PROVE Held'
  <2>1. UNCHANGED memory
    BY <1>5 DEF Request, Unauthorized, SetConfig, RefuseConfig, SetBlocklist
  <2> QED
    BY <1>2, <2>1
<1>6. ASSUME NEW h \in Handlers, SetServers(h) \/ Store(h) PROVE Held'
  <2>1. h \in Writers /\ h # Main /\ pc[h] # "idle"
    BY <1>6, AdminAssumption DEF Writers, SetServers, Store
  <2>2. CASE SetServers(h)
    <3>1. job[h].file = "config"
      BY <2>1, <2>2 DEF FInv, Jobs, Job, SetServers
    <3>2. UpstreamAddrs(job[h].value) \in Seq(Servers)
      BY <2>1, <3>1, WorkTypes, AddrsAssumption
    <3> QED
      BY <2>2, <3>2 DEF SetServers, Typed, Held
  <2>3. CASE Store(h)
    BY <2>1, <2>3, WorkTypes DEF Store, Typed, Held, Files
  <2> QED
    BY <1>6, <2>2, <2>3
<1>7. CASE Boot
  <2>1. CASE Serve
    <3>1. servers' = UpstreamAddrs(config) /\ config \in Configs
      BY <2>1 DEF Serve, IInv, Kinds
    <3>2. blocklist' \in Lists
      <4>1. \A t \in Texts : FromText(t) \in Lists
        BY ListsOfTexts
      <4>2. CASE file["blocklist"] = Torn
        BY <2>1, <4>1, <4>2 DEF Serve
      <4>3. CASE file["blocklist"] = Empty /\ Empty # Torn
        <5>1. FromText({}) \in Lists
          BY ListsOfTexts
        <5>2. blocklist' = FromText({})
          BY <2>1, <4>3, AdminAssumption DEF Serve, Parsed
        <5> QED
          BY <5>1, <5>2
      <4>4. CASE file["blocklist"] \in BlockTexts
        <5>1. FromText(file["blocklist"]) \in Lists
          BY <4>4, ListsOfTexts
        <5>2. blocklist' = FromText(file["blocklist"])
          BY <2>1, <4>4, AdminAssumption DEF Serve, Parsed
        <5> QED
          BY <5>1, <5>2
      <4> QED
        BY <2>1, <4>2, <4>3, <4>4 DEF Typed, Listed, Serve
    <3> QED
      BY <3>1, <3>2, AddrsAssumption DEF Held
  <2>2. CASE ~Serve
    <3>1. UNCHANGED <<servers, blocklist>> \/ Gone
      BY <1>7, <2>2 DEF Boot, Load, LoadFails, LoadCreates, GenerateToken, CreateList,
                        FillList, FillFails, memory
    <3> QED
      BY <1>3, <3>1 DEF Typed, Held
  <2> QED
    BY <2>1, <2>2
<1>8. CASE Crash
  BY <1>3, <1>8 DEF Crash
<1>9. CASE UNCHANGED vars
  BY <1>2, <1>9 DEF vars
<1> QED
  BY <1>4, <1>5, <1>6, <1>7, <1>8, <1>9 DEF Next

\* What is in the files of the blocklist comes from a text, or is a part of one.
LEMMA ListedStep ==
  ASSUME IInv, FInv, Typed, [Next]_vars
  PROVE  Listed'
<1>1. /\ DOMAIN file = Files /\ DOMAIN tmp = Files /\ Files = {"config", "blocklist"}
      /\ "config" # "blocklist"
  BY DEF IInv, Disk, Files
<1>2. CASE UNCHANGED disk
  BY <1>2 DEF Typed, Listed, disk
<1>3. ASSUME NEW w \in Writers, WriteAtomic(w) PROVE Listed'
  <2>1. pc[w] # "idle"
    BY <1>3 DEF WriteAtomic, Open, OpenFails, Write, WriteFails, Rename, RenameFails
  <2>2. /\ job[w].file \in Files
        /\ job[w].file = "blocklist" => job[w].text \in BlockTexts
    BY <2>1, WorkTypes
  <2>3. CASE Open(w)
    BY <1>1, <2>2, <2>3 DEF Open, Typed, Listed
  <2>4. CASE Rename(w)
    BY <1>1, <2>2, <2>4 DEF Rename, Typed, Listed
  <2>5. CASE OpenFails(w) \/ RenameFails(w)
    BY <1>2, <2>5 DEF OpenFails, RenameFails
  <2>6. ASSUME NEW new, Put(w, new),
               job[w].file = "blocklist" => new \in BlockTexts \cup {None, Empty, Torn}
        PROVE  Listed'
    <3>1. CASE at[w] = "tmp"
      BY <1>1, <2>2, <2>6, <3>1 DEF Put, Typed, Listed
    <3>2. CASE at[w] = "path"
      BY <1>1, <2>2, <2>6, <3>2 DEF Put, Typed, Listed
    <3>3. CASE at[w] \notin {"tmp", "path"}
      BY <1>2, <2>6, <3>3 DEF Put
    <3> QED
      BY <3>1, <3>2, <3>3
  <2>7. CASE Write(w)
    <3> PICK new \in Overwrite(There(w), job[w].text) : Put(w, new)
      BY <2>7 DEF Write
    <3>1. new \in {job[w].text, Torn}
      BY DEF Overwrite
    <3> QED
      BY <2>2, <2>6, <3>1
  <2>8. CASE WriteFails(w)
    <3> PICK new \in {There(w), Torn} : Put(w, new)
      BY <2>8 DEF WriteFails
    <3>1. job[w].file = "blocklist" => There(w) \in BlockTexts \cup {None, Empty, Torn}
      BY DEF There, Typed, Listed
    <3> QED
      BY <2>6, <3>1
  <2> QED
    BY <1>3, <2>3, <2>4, <2>5, <2>7, <2>8 DEF WriteAtomic
<1>4. ASSUME NEW h \in Handlers, Request(h) \/ SetServers(h) \/ Store(h) PROVE Listed'
  <2>1. UNCHANGED disk
    BY <1>4 DEF Request, Unauthorized, SetConfig, RefuseConfig, SetBlocklist, SetServers,
                Store
  <2> QED
    BY <1>2, <2>1
<1>5. CASE Boot
  <2>1. CASE CreateList
    BY <1>1, <2>1 DEF CreateList, Typed, Listed
  <2>2. CASE FillList
    BY <1>1, <2>2 DEF FillList, Typed, Listed, BlockTexts
  <2>3. CASE FillFails
    BY <1>1, <2>3 DEF FillFails, Typed, Listed
  <2>4. CASE ~CreateList /\ ~FillList /\ ~FillFails
    <3>1. UNCHANGED disk
      BY <1>5, <2>4 DEF Boot, Load, LoadFails, LoadCreates, GenerateToken, Serve
    <3> QED
      BY <1>2, <3>1
  <2> QED
    BY <2>1, <2>2, <2>3, <2>4
<1>6. CASE Crash
  BY <1>2, <1>6 DEF Crash
<1>7. CASE UNCHANGED vars
  BY <1>2, <1>7 DEF vars
<1> QED
  BY <1>3, <1>4, <1>5, <1>6, <1>7 DEF Next

\* A writer has work to do exactly when it is not idle.
LEMMA HandlesStep ==
  ASSUME IInv, FInv, Typed, [Next]_vars
  PROVE  Handles'
<1> DEFINE Places == {"closed", "tmp", "path", "unlinked"}
<1>1. /\ Main \in Writers /\ Handlers \subseteq Writers
      /\ DOMAIN pc = Writers /\ DOMAIN job = Writers /\ at \in [Writers -> Places]
      /\ \A w \in Writers : (job[w] = None) <=> (pc[w] = "idle")
  BY DEF IInv, Kinds, Typed, Handles, Writers
<1>2. CASE UNCHANGED work
  BY <1>2 DEF Typed, Handles, work
<1>3. CASE Gone
  BY <1>3 DEF Gone, Handles
<1>4. ASSUME NEW w \in Writers, pc[w] # "idle", job' = job, at' \in [Writers -> Places],
             NEW p, p # "idle", pc' = [pc EXCEPT ![w] = p]
      PROVE  Handles'
  BY <1>1, <1>4 DEF Handles
<1>5. ASSUME NEW w \in Writers, pc' = [pc EXCEPT ![w] = "idle"],
             job' = [job EXCEPT ![w] = None], at' \in [Writers -> Places]
      PROVE  Handles'
  BY <1>1, <1>5 DEF Handles
<1>6. ASSUME NEW w \in Writers, NEW f \in Files, NEW text \in Configs \cup BlockTexts,
             NEW value \in Configs \cup Lists, NEW cred \in Tokens \cup {Guess, None},
             Begin(w, f, text, value, cred), at' = at
      PROVE  Handles'
  <2> DEFINE new == [file |-> f, text |-> text, value |-> value, cred |-> cred]
  <2>1. new # None
    <3>1. new \in Work
      BY <1>6 DEF Work
    <3>2. None \notin Work
      BY AdminAssumption
    <3> QED
      BY <3>1, <3>2
  <2> QED
    BY <1>1, <1>6, <2>1 DEF Begin, Handles
<1>7. ASSUME NEW w \in Writers, WriteAtomic(w) PROVE Handles'
  <2>1. CASE Open(w)
    <3>1. at' \in [Writers -> Places]
      BY <1>1, <2>1 DEF Open
    <3> QED
      BY <1>4, <2>1, <3>1 DEF Open
  <2>2. CASE Write(w)
    <3>1. at' \in [Writers -> Places]
      BY <1>1, <2>2 DEF Write
    <3> QED
      BY <1>4, <2>2, <3>1 DEF Write
  <2>3. CASE Rename(w)
    <3>1. at' \in [Writers -> Places]
      BY <1>1, <2>3 DEF Rename, Moved
    <3>2. CASE w = Main
      BY <1>5, <2>3, <3>1, <3>2 DEF Rename
    <3>3. CASE w # Main
      <4>1. PICK p \in {"servers", "store"} : pc' = [pc EXCEPT ![w] = p]
        BY <2>3, <3>3 DEF Rename
      <4> QED
        BY <1>4, <2>3, <3>1, <3>3, <4>1 DEF Rename
    <3> QED
      BY <3>2, <3>3
  <2>4. CASE OpenFails(w) \/ WriteFails(w) \/ RenameFails(w)
    <3>1. Give(w)
      BY <2>4 DEF OpenFails, WriteFails, RenameFails
    <3>2. CASE w = Main
      BY <1>3, <3>1, <3>2 DEF Give
    <3>3. CASE w # Main
      <4>1. at' \in [Writers -> Places]
        BY <1>1, <3>1, <3>3 DEF Give
      <4> QED
        BY <1>5, <3>1, <3>3, <4>1 DEF Give
    <3> QED
      BY <3>2, <3>3
  <2> QED
    BY <1>7, <2>1, <2>2, <2>3, <2>4 DEF WriteAtomic
<1>8. ASSUME NEW h \in Handlers, Request(h) PROVE Handles'
  <2> PICK cred \in Credentials :
          \/ Unauthorized(h, cred)
          \/ \E body \in Bodies : SetConfig(h, body, cred) \/ RefuseConfig(h, body, cred)
          \/ \E text \in Texts : SetBlocklist(h, text, cred)
    BY <1>8 DEF Request
  <2>1. h \in Writers /\ cred \in Tokens \cup {Guess, None}
    BY <1>1 DEF Credentials, Tokens, Typed, Counted
  <2>2. CASE Unauthorized(h, cred)
    BY <1>2, <2>2 DEF Unauthorized
  <2>3. ASSUME NEW body \in Bodies, RefuseConfig(h, body, cred) PROVE Handles'
    BY <1>2, <2>3 DEF RefuseConfig
  <2>4. ASSUME NEW body \in Bodies, SetConfig(h, body, cred) PROVE Handles'
    <3>1. Edited(body) \in Configs /\ "config" \in Files
      BY <2>4, ServingFacts, EditedType DEF SetConfig, Files
    <3> QED
      BY <1>6, <2>1, <2>4, <3>1 DEF SetConfig
  <2>5. ASSUME NEW text \in Texts, SetBlocklist(h, text, cred) PROVE Handles'
    <3>1. /\ ToFileText(FromText(text)) \in BlockTexts /\ FromText(text) \in Lists
          /\ "blocklist" \in Files
      BY ListsOfTexts, AdminAssumption DEF BlockTexts, Files
    <3> QED
      BY <1>6, <2>1, <2>5, <3>1 DEF SetBlocklist
  <2> QED
    BY <2>2, <2>3, <2>4, <2>5
<1>9. ASSUME NEW h \in Handlers, SetServers(h) \/ Store(h) PROVE Handles'
  <2>1. CASE SetServers(h)
    BY <1>1, <1>4, <2>1 DEF SetServers
  <2>2. CASE Store(h)
    BY <1>1, <1>5, <2>2 DEF Store
  <2> QED
    BY <1>9, <2>1, <2>2
<1>10. CASE Boot
  <2>1. CASE LoadCreates
    <3>1. Default \in Configs /\ "config" \in Files
      BY AdminAssumption DEF Files
    <3> QED
      BY <1>1, <1>6, <2>1, <3>1 DEF LoadCreates
  <2>2. ASSUME NEW t \in Fresh, GenerateToken(t) PROVE Handles'
    <3>1. config \in Configs /\ t \in Tokens
      BY <2>2 DEF GenerateToken, IInv, Kinds, Fresh, Tokens
    <3>2. config' \in Configs /\ "config" \in Files
      BY <2>2, <3>1 DEF GenerateToken, Configs, Files
    <3> QED
      BY <1>1, <1>6, <2>2, <3>2 DEF GenerateToken
  <2>3. CASE FillFails
    BY <1>3, <2>3 DEF FillFails
  <2>4. CASE Load \/ LoadFails \/ CreateList \/ FillList \/ Serve
    BY <1>2, <2>4 DEF Load, LoadFails, CreateList, FillList, Serve
  <2> QED
    BY <1>10, <2>1, <2>2, <2>3, <2>4 DEF Boot
<1>11. CASE Crash
  BY <1>3, <1>11 DEF Crash
<1>12. CASE UNCHANGED vars
  BY <1>2, <1>12 DEF vars
<1> QED
  BY <1>7, <1>8, <1>9, <1>10, <1>11, <1>12 DEF Next

\* The bounds of a behaviour, and where tokens come from.
LEMMA CountedStep ==
  ASSUME IInv, FInv, Typed, [Next]_vars
  PROVE  Counted'
<1>1. /\ starts \in 0 .. MaxStarts /\ requests \in 0 .. MaxRequests
      /\ minted \subseteq Random /\ served \subseteq Tokens
      /\ MaxStarts \in Nat /\ MaxRequests \in Nat
  BY AdminAssumption DEF Typed, Counted
<1>2. CASE UNCHANGED <<starts, requests, minted, served>>
  BY <1>1, <1>2 DEF Counted
<1>3. ASSUME NEW w \in Writers, WriteAtomic(w) PROVE Counted'
  <2>1. UNCHANGED <<starts, requests, minted, served>>
    BY <1>3 DEF WriteAtomic, Open, OpenFails, Write, WriteFails, Rename, RenameFails, Give,
                past
  <2> QED
    BY <1>2, <2>1
<1>4. ASSUME NEW h \in Handlers, Request(h) PROVE Counted'
  <2>1. /\ requests < MaxRequests /\ requests' = requests + 1
        /\ UNCHANGED <<starts, minted, served>>
    BY <1>4 DEF Request, Unauthorized, SetConfig, RefuseConfig, SetBlocklist, past
  <2> QED
    BY <1>1, <2>1 DEF Counted
<1>5. ASSUME NEW h \in Handlers, SetServers(h) \/ Store(h) PROVE Counted'
  BY <1>2, <1>5 DEF SetServers, Store, past
<1>6. CASE Boot
  <2>1. CASE Load \/ LoadFails \/ LoadCreates
    <3>1. /\ starts < MaxStarts /\ starts' = starts + 1
          /\ UNCHANGED <<requests, minted, served>>
      BY <2>1 DEF Load, LoadFails, LoadCreates, past
    <3> QED
      BY <1>1, <3>1 DEF Counted
  <2>2. ASSUME NEW t \in Fresh, GenerateToken(t) PROVE Counted'
    BY <1>1, <2>2 DEF GenerateToken, Fresh, Counted
  <2>3. CASE CreateList \/ FillList \/ FillFails
    BY <1>2, <2>3 DEF CreateList, FillList, FillFails
  <2>4. CASE Serve
    <3>1. config.token \in Tokens
      BY <2>4 DEF Serve, IInv, Kinds, Configs
    <3> QED
      BY <1>1, <2>4, <3>1 DEF Serve, Counted
  <2> QED
    BY <1>6, <2>1, <2>2, <2>3, <2>4 DEF Boot
<1>7. CASE Crash
  BY <1>2, <1>7 DEF Crash
<1>8. CASE UNCHANGED vars
  BY <1>2, <1>8 DEF vars, past
<1> QED
  BY <1>3, <1>4, <1>5, <1>6, <1>7, <1>8 DEF Next

\* The types of all of it.  A blocklist file, and its temporary file, is missing,
\* empty or torn, or it has a text an operator put there, the default one, or what
\* to_file_text makes of a posted one, however requests for it overlap; the list in
\* force was read from one of these texts, or from a posted one.  A config has the
\* servers of an operator's config or of a body with its empty entries dropped, and
\* a token of one of these configs or a random one (web.rs, config.rs, blocklist.rs).
THEOREM AdminTypes == Spec => []TypeOK
<1>1. Init => Typed
  <2> SUFFICES ASSUME Init PROVE Typed
    OBVIOUS
  <2>1. Held
    BY DEF Init, Held
  <2>2. Listed
    BY DEF Init, Listed, BlockTexts, Files
  <2>3. Handles
    BY DEF Init, Handles
  <2>4. Counted
    <3>1. MaxStarts \in Nat /\ MaxRequests \in Nat
      BY AdminAssumption
    <3> QED
      BY <3>1 DEF Init, Counted
  <2> QED
    BY <2>1, <2>2, <2>3, <2>4 DEF Typed
<1>2. IInv /\ FInv /\ Typed /\ [Next]_vars => Typed'
  BY HeldStep, ListedStep, HandlesStep, CountedStep DEF Typed
<1>3. IInv /\ FInv /\ Typed => TypeOK
  <2> SUFFICES ASSUME IInv, FInv, Typed PROVE TypeOK
    OBVIOUS
  <2>1. /\ boot \in Stages
        /\ config \in Configs \cup {None}
        /\ pc \in [Writers -> Points] /\ DOMAIN job = Writers
    BY DEF IInv, Kinds
  <2>2. \A d \in {file, tmp} :
            /\ DOMAIN d = Files
            /\ d["config"] \in Configs \cup {None, Empty, Torn}
            /\ d["blocklist"] \in BlockTexts \cup {None, Empty, Torn}
    BY DEF IInv, Disk, Contents, Typed, Listed
  <2>3. /\ solo \in [Writers -> BOOLEAN] /\ clean \in [Files -> BOOLEAN]
        /\ DOMAIN kept = Files
    BY DEF FInv, Flags
  <2>4. Held /\ Handles /\ Counted
    BY DEF Typed
  <2> QED
    BY <2>1, <2>2, <2>3, <2>4 DEF TypeOK, Stages, Points, Held, Handles, Counted
<1> QED
  BY <1>1, <1>2, <1>3, FilesInvariant, PTL DEF Spec

=============================================================================
