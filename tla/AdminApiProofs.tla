--------------------------- MODULE AdminApiProofs ---------------------------
(***************************************************************************)
(* Proofs about AdminApi: nobody gets past the token gate without the      *)
(* token, and neither parallel edits, which share a temporary file, nor    *)
(* failures, crashes and restarts lose the token.                          *)
(***************************************************************************)
EXTENDS AdminApi, TLAPS

Points == {"idle", "open", "write", "rename", "servers", "store"}
Stages == {"down", "default", "token", "save", "list", "fill", "up"}

Contents == Configs \cup {None, Empty, Torn}

\* The token of the texts of config.toml, whole ones, is t.
Carries(text, t) == text \in Configs => text.token = t

Kinds ==
    /\ boot \in Stages
    /\ pc \in [Writers -> Points]
    /\ DOMAIN job = Writers
    /\ DOMAIN at = Writers
    /\ config \in IF boot = "down" THEN {None} ELSE Configs

\* A token that has been in force is in every whole text there is, and a file
\* with a usable token has no text with another one beside it.
Disk ==
    /\ DOMAIN file = Files
    /\ DOMAIN tmp = Files
    /\ file["config"] \in Contents
    /\ tmp["config"] \in Contents
    /\ \A t \in served :
          /\ t \notin {"", "change-me"}
          /\ file["config"] # None
          /\ Carries(file["config"], t)
          /\ Carries(tmp["config"], t)
    /\ file["config"] \in Configs /\ ~NeedsToken(file["config"]) =>
          Carries(tmp["config"], file["config"].token)

\* How far the start is, and what is then in the files.
Stage ==
    /\ boot \in {"save", "list", "fill", "up"} => ~NeedsToken(config)
    /\ boot \in {"token", "list", "fill"} => file["config"] = config
    /\ boot = "default" => file["config"] = None
    /\ boot = "save" => file["config"] \in Configs /\ NeedsToken(file["config"])

\* main() writes alone: what it renames is what it has written.
MainWrites ==
    /\ pc[Main] \in {"idle", "open", "write", "rename"}
    /\ pc[Main] # "idle" <=> boot \in {"default", "save"}
    /\ pc[Main] # "idle" => job[Main].file = "config" /\ job[Main].text = config
    /\ pc[Main] = "write" => at[Main] = "tmp" /\ tmp["config"] = Empty
    /\ pc[Main] = "rename" => tmp["config"] = config

\* A request runs only while the process serves; it came with the token, and
\* the token is in what it writes.
Edit(h) ==
    /\ boot = "up"
    /\ job[h].file \in Files
    /\ job[h].cred = config.token
    /\ job[h].file = "config" =>
          /\ job[h].text \in Configs /\ job[h].text.token = config.token
          /\ job[h].value \in Configs /\ job[h].value.token = config.token

Edits == \A h \in Handlers : pc[h] # "idle" => Edit(h)

\* The token in force is the one that has ever been.
InForce ==
    /\ boot # "down" => \A t \in served : config.token = t
    /\ boot = "up" => config.token \in served

\* The inductive invariant.
IInv == Kinds /\ Disk /\ Stage /\ MainWrites /\ Edits /\ InForce /\ TokenKept

-----------------------------------------------------------------------------
\* The invariant says nothing of the other variables.
LEMMA SameInv ==
  ASSUME IInv, UNCHANGED <<boot, config, file, tmp, pc, job, at, served>>
  PROVE  IInv'
<1>1. Kinds'
  BY DEF IInv, Kinds
<1>2. Disk'
  BY DEF IInv, Disk, NeedsToken, Carries
<1>3. Stage'
  BY DEF IInv, Stage, NeedsToken
<1>4. MainWrites'
  BY DEF IInv, MainWrites
<1>5. Edits'
  BY DEF IInv, Edits, Edit
<1>6. InForce' /\ TokenKept'
  BY DEF IInv, InForce, TokenKept
<1> QED
  BY <1>1, <1>2, <1>3, <1>4, <1>5, <1>6 DEF IInv

\* Nothing runs and nothing has been served; the temporary files are absent.
LEMMA InitInv == Init => IInv
<1> SUFFICES ASSUME Init PROVE IInv
  OBVIOUS
<1>1. None \notin Configs /\ Main \in Writers
  BY AdminAssumption DEF Writers
<1>2. Kinds
  BY DEF Init, Kinds, Stages, Points
<1>3. Disk
  BY <1>1, AdminAssumption DEF Init, Disk, Contents, Carries, Files
<1>4. Stage /\ MainWrites /\ Edits /\ InForce /\ TokenKept
  BY <1>1 DEF Init, Stage, MainWrites, Edits, InForce, TokenKept, Writers
<1> QED
  BY <1>2, <1>3, <1>4 DEF IInv

\* When the process dies, only what is on disk matters.
LEMMA GoneInv ==
  ASSUME IInv, Gone, served' = served, Disk'
  PROVE  IInv'
<1>1. Main \in Writers /\ Handlers \subseteq Writers
  BY DEF Writers
<1>2. Kinds'
  BY DEF Gone, Kinds, Stages, Points
<1>3. Stage' /\ MainWrites' /\ Edits' /\ InForce'
  BY <1>1 DEF Gone, Stage, MainWrites, Edits, InForce
<1>4. TokenKept'
  BY DEF IInv, TokenKept
<1> QED
  BY <1>2, <1>3, <1>4 DEF IInv

\* Bytes that reach a file while the process serves, in a text that has the
\* token or in one that is not whole.
LEMMA ServingDisk ==
  ASSUME IInv, boot = "up", served' = served,
         DOMAIN file' = Files, DOMAIN tmp' = Files,
         file'["config"] \in Contents \ {None}, tmp'["config"] \in Contents,
         Carries(file'["config"], config.token), Carries(tmp'["config"], config.token)
  PROVE  Disk'
<1>1. \A t \in served : t = config.token /\ t \notin {"", "change-me"}
  BY DEF IInv, InForce, Disk
<1> QED
  BY <1>1 DEF Disk, Carries, NeedsToken

\* What is on disk while the process serves; main() writes no more.
LEMMA ServingFacts ==
  ASSUME IInv, boot = "up"
  PROVE  /\ DOMAIN file = Files /\ DOMAIN tmp = Files
         /\ file["config"] \in Contents \ {None} /\ tmp["config"] \in Contents
         /\ Carries(file["config"], config.token)
         /\ Carries(tmp["config"], config.token)
         /\ config \in Configs
         /\ pc[Main] = "idle"
  BY DEF IInv, Disk, InForce, Kinds, MainWrites

\* A write of a request, wherever its descriptor has ended up.
LEMMA PutServing ==
  ASSUME IInv, boot = "up", served' = served, NEW w \in Writers, NEW new,
         Put(w, new), job[w].file \in Files,
         job[w].file = "config" => /\ new \in Contents \ {None}
                                   /\ Carries(new, config.token)
  PROVE  Disk'
<1> DEFINE f == job[w].file
<1>1. CASE at[w] = "tmp"
  <2>1. tmp' = [tmp EXCEPT ![f] = new] /\ file' = file
    BY <1>1 DEF Put
  <2>2. /\ DOMAIN tmp' = Files
        /\ tmp'["config"] = IF f = "config" THEN new ELSE tmp["config"]
    BY <2>1, ServingFacts DEF Files
  <2> QED
    BY <2>1, <2>2, ServingFacts, ServingDisk
<1>2. CASE at[w] = "path"
  <2>1. file' = [file EXCEPT ![f] = new] /\ tmp' = tmp
    BY <1>2 DEF Put
  <2>2. /\ DOMAIN file' = Files
        /\ file'["config"] = IF f = "config" THEN new ELSE file["config"]
    BY <2>1, ServingFacts DEF Files
  <2> QED
    BY <2>1, <2>2, ServingFacts, ServingDisk
<1>3. CASE at[w] \notin {"tmp", "path"}
  <2>1. file' = file /\ tmp' = tmp
    BY <1>3 DEF Put, disk
  <2> QED
    BY <2>1, ServingFacts, ServingDisk
<1> QED
  BY <1>1, <1>2, <1>3

-----------------------------------------------------------------------------
\* The steps of a request, by the parts of the invariant they can disturb.

\* A step of handler h that leaves config and the stage alone, ends or goes on.
LEMMA HandlerInv ==
  ASSUME IInv, NEW h \in Handlers, boot = "up", Disk',
         UNCHANGED <<boot, config, served>>,
         pc' \in [Writers -> Points],
         DOMAIN job' = Writers, DOMAIN at' = Writers,
         \A x \in Writers \ {h} : pc'[x] = pc[x] /\ job'[x] = job[x],
         pc'[h] # "idle" => Edit(h)'
  PROVE  IInv'
<1>1. Main \in Writers \ {h} /\ Handlers \subseteq Writers
  BY AdminAssumption DEF Writers
<1>2. pc'[Main] = "idle"
  BY <1>1, ServingFacts
<1>3. Kinds'
  BY DEF IInv, Kinds
<1>4. Stage'
  BY DEF IInv, Stage, NeedsToken
<1>5. MainWrites'
  BY <1>2 DEF MainWrites
<1>6. Edits'
  <2> SUFFICES ASSUME NEW x \in Handlers, pc'[x] # "idle" PROVE Edit(x)'
    BY DEF Edits
  <2>1. CASE x = h
    BY <2>1
  <2>2. CASE x # h
    <3>1. pc[x] # "idle" /\ job'[x] = job[x]
      BY <2>2, <1>1
    <3> QED
      BY <3>1 DEF IInv, Edits, Edit
  <2> QED
    BY <2>1, <2>2
<1>7. InForce' /\ TokenKept'
  BY DEF IInv, InForce, TokenKept
<1> QED
  BY <1>3, <1>4, <1>5, <1>6, <1>7 DEF IInv

\* Whoever passes the gate has the token.
LEMMA GateInv ==
  ASSUME IInv, NEW h \in Handlers, NEW cred, boot = "up", pc[h] = "idle", Auth(cred),
         NEW f \in Files, NEW text, NEW value,
         f = "config" => /\ text \in Configs /\ text.token = config.token
                         /\ value \in Configs /\ value.token = config.token,
         Begin(h, f, text, value, cred),
         UNCHANGED <<boot, memory, disk, at, served>>
  PROVE  IInv'
<1>1. h \in Writers
  BY DEF Writers
<1>2. cred = config.token
  BY DEF IInv, Stage, NeedsToken, Auth
<1>3. /\ pc' = [pc EXCEPT ![h] = "open"]
      /\ job' = [job EXCEPT ![h] = [file |-> f, text |-> text, value |-> value,
                                    cred |-> cred]]
      /\ pc \in [Writers -> Points] /\ DOMAIN job = Writers /\ DOMAIN at = Writers
      /\ UNCHANGED <<config, file, tmp>>
  BY DEF Begin, IInv, Kinds, memory, disk
<1>4. Edit(h)'
  BY <1>1, <1>2, <1>3 DEF Edit
<1>5. Disk'
  BY <1>3, ServingFacts, ServingDisk
<1> QED
  BY <1>1, <1>3, <1>4, <1>5, HandlerInv DEF Points

\* An accepted body makes a config with the token of the current one.
LEMMA EditedType ==
  ASSUME NEW body \in Bodies, config \in Configs, Acceptable(body)
  PROVE  Edited(body) \in Configs /\ Edited(body).token = config.token
<1>1. Trimmed(body) \in ServerLists
  BY DEF ServerLists
<1>2. body.options \in Options
  BY AdminAssumption DEF Acceptable
<1> QED
  BY <1>1, <1>2 DEF Edited, Configs

\* A request is turned away, refused, or starts to write.
LEMMA RequestInv ==
  ASSUME IInv, NEW h \in Handlers, Request(h)
  PROVE  IInv'
<1> PICK cred \in Credentials :
        \/ Unauthorized(h, cred)
        \/ \E body \in Bodies : SetConfig(h, body, cred) \/ RefuseConfig(h, body, cred)
        \/ \E text \in Texts : SetBlocklist(h, text, cred)
  BY DEF Request
<1>1. CASE Unauthorized(h, cred)
  BY <1>1, SameInv DEF Unauthorized, memory, disk, work, past
<1>2. ASSUME NEW body \in Bodies, RefuseConfig(h, body, cred)
      PROVE  IInv'
  BY <1>2, SameInv DEF RefuseConfig, memory, disk, work, past
<1>3. ASSUME NEW body \in Bodies, SetConfig(h, body, cred)
      PROVE  IInv'
  <2>1. config \in Configs
    BY <1>3, ServingFacts DEF SetConfig
  <2>2. Edited(body) \in Configs /\ Edited(body).token = config.token
    BY <1>3, <2>1, EditedType DEF SetConfig
  <2>3. "config" \in Files
    BY DEF Files
  <2> QED
    BY <1>3, <2>2, <2>3, GateInv DEF SetConfig
<1>4. ASSUME NEW text \in Texts, SetBlocklist(h, text, cred)
      PROVE  IInv'
  <2>1. "blocklist" \in Files
    BY DEF Files
  <2> QED
    BY <1>4, <2>1, GateInv DEF SetBlocklist
<1> QED
  BY <1>1, <1>2, <1>3, <1>4

\* A request that ends leaves no trace but what it did to the disk.
LEMMA GiveInv ==
  ASSUME IInv, NEW h \in Handlers, boot = "up", Give(h), Disk'
  PROVE  IInv'
<1>1. h \in Writers /\ h # Main
  BY AdminAssumption DEF Writers
<1>2. /\ pc' = [pc EXCEPT ![h] = "idle"]
      /\ job' = [job EXCEPT ![h] = None]
      /\ at' = [at EXCEPT ![h] = "closed"]
      /\ UNCHANGED <<boot, config, served>>
  BY <1>1 DEF Give, memory, past
<1>3. pc \in [Writers -> Points] /\ DOMAIN job = Writers /\ DOMAIN at = Writers
  BY DEF IInv, Kinds
<1> QED
  BY <1>1, <1>2, <1>3, HandlerInv DEF Points

\* write_atomic of a request, with other requests beside it.
LEMMA HandlerWrites ==
  ASSUME IInv, NEW h \in Handlers, WriteAtomic(h)
  PROVE  IInv'
<1> DEFINE f == job[h].file
<1>1. h \in Writers /\ h # Main
  BY AdminAssumption DEF Writers
<1>2. pc \in [Writers -> Points] /\ DOMAIN job = Writers /\ DOMAIN at = Writers
  BY DEF IInv, Kinds
<1>3. pc[h] # "idle"
  BY DEF WriteAtomic, Open, OpenFails, Write, WriteFails, Rename, RenameFails
<1>4. Edit(h) /\ boot = "up" /\ f \in Files
  BY <1>3 DEF IInv, Edits, Edit
<1>5. Empty \notin Configs /\ Torn \notin Configs /\ None \notin Configs
      /\ None \notin {Empty, Torn}
  BY AdminAssumption
<1>6. CASE Open(h)
  <2>1. /\ tmp' = [tmp EXCEPT ![f] = Empty]
        /\ pc' = [pc EXCEPT ![h] = "write"]
        /\ at' = [at EXCEPT ![h] = "tmp"]
        /\ UNCHANGED <<boot, config, file, job, served>>
    BY <1>6 DEF Open, memory, past
  <2>2. /\ DOMAIN tmp' = Files
        /\ tmp'["config"] \in {tmp["config"], Empty}
    BY <2>1, <1>4, ServingFacts DEF Files
  <2>3. Disk'
    BY <1>4, <1>5, <2>1, <2>2, ServingFacts, ServingDisk DEF Carries, Contents
  <2>4. Edit(h)'
    BY <1>4, <2>1 DEF Edit
  <2> QED
    BY <1>1, <1>2, <1>4, <2>1, <2>3, <2>4, HandlerInv DEF Points
<1>7. CASE Write(h)
  <2> PICK new \in Overwrite(There(h), job[h].text) : Put(h, new)
    BY <1>7 DEF Write
  <2>1. /\ pc' = [pc EXCEPT ![h] = "rename"]
        /\ at' = [at EXCEPT ![h] = "closed"]
        /\ UNCHANGED <<boot, config, job, served>>
    BY <1>7 DEF Write, memory, past
  <2>2. new \in {job[h].text, Torn}
    BY DEF Overwrite
  <2>3. f = "config" => new \in Contents \ {None} /\ Carries(new, config.token)
    BY <1>4, <1>5, <2>2 DEF Edit, Contents, Carries
  <2>4. Disk'
    BY <1>1, <1>4, <2>1, <2>3, PutServing
  <2>5. Edit(h)'
    BY <1>4, <2>1 DEF Edit
  <2> QED
    BY <1>1, <1>2, <1>4, <2>1, <2>4, <2>5, HandlerInv DEF Points
<1>8. CASE Rename(h)
  <2>1. /\ tmp[f] # None
        /\ file' = [file EXCEPT ![f] = tmp[f]]
        /\ tmp' = [tmp EXCEPT ![f] = None]
        /\ pc' = [pc EXCEPT ![h] = IF f = "config" THEN "servers" ELSE "store"]
        /\ DOMAIN at' = Writers
        /\ UNCHANGED <<boot, config, job, served>>
    BY <1>1, <1>8 DEF Rename, memory, past, Moved
  <2>2. /\ DOMAIN file' = Files /\ DOMAIN tmp' = Files
        /\ file'["config"] = IF f = "config" THEN tmp["config"] ELSE file["config"]
        /\ tmp'["config"] = IF f = "config" THEN None ELSE tmp["config"]
        /\ f = "config" => tmp["config"] # None
    BY <2>1, <1>4, ServingFacts DEF Files
  <2>3. Disk'
    BY <1>4, <1>5, <2>1, <2>2, ServingFacts, ServingDisk DEF Carries, Contents
  <2>4. Edit(h)'
    BY <1>4, <2>1 DEF Edit
  <2> QED
    BY <1>1, <1>2, <1>4, <2>1, <2>3, <2>4, HandlerInv DEF Points
<1>9. CASE OpenFails(h) \/ RenameFails(h)
  <2>1. Give(h) /\ UNCHANGED <<file, tmp>>
    BY <1>9 DEF OpenFails, RenameFails, disk
  <2>2. served' = served
    BY <1>1, <2>1 DEF Give, past
  <2>3. Disk'
    BY <1>4, <2>1, <2>2, ServingFacts, ServingDisk
  <2> QED
    BY <1>4, <2>1, <2>3, GiveInv
<1>10. CASE WriteFails(h)
  <2> PICK new \in {There(h), Torn} : Put(h, new)
    BY <1>10 DEF WriteFails
  <2>1. Give(h) /\ served' = served
    BY <1>1, <1>10 DEF WriteFails, Give, past
  <2>2. CASE new = Torn \/ at[h] = "path"
    <3>1. f = "config" => new \in Contents \ {None} /\ Carries(new, config.token)
      BY <1>4, <1>5, <2>2, ServingFacts DEF There, Contents, Carries
    <3>2. Disk'
      BY <1>1, <1>4, <2>1, <3>1, PutServing
    <3> QED
      BY <1>4, <2>1, <3>2, GiveInv
  <2>3. CASE new = There(h) /\ at[h] # "path"
    <3>1. file' = file /\ DOMAIN tmp' = Files /\ tmp'["config"] = tmp["config"]
      BY <1>4, <2>3, ServingFacts DEF Put, There, disk, Files
    <3>2. Disk'
      BY <1>4, <2>1, <3>1, ServingFacts, ServingDisk
    <3> QED
      BY <1>4, <2>1, <3>2, GiveInv
  <2> QED
    BY <2>2, <2>3
<1> QED
  BY <1>6, <1>7, <1>8, <1>9, <1>10 DEF WriteAtomic

\* upstream.set_servers, and the swap of config or blocklist.
LEMMA InstallInv ==
  ASSUME IInv, NEW h \in Handlers, SetServers(h) \/ Store(h)
  PROVE  IInv'
<1>1. h \in Writers /\ h # Main /\ Main \in Writers /\ Handlers \subseteq Writers
  BY AdminAssumption DEF Writers
<1>2. pc \in [Writers -> Points] /\ DOMAIN job = Writers /\ DOMAIN at = Writers
  BY DEF IInv, Kinds
<1>3. pc[h] # "idle"
  BY DEF SetServers, Store
<1>4. Edit(h) /\ boot = "up"
  BY <1>3 DEF IInv, Edits, Edit
<1>5. CASE SetServers(h)
  <2>1. /\ pc' = [pc EXCEPT ![h] = "store"]
        /\ UNCHANGED <<boot, config, file, tmp, job, at, served>>
    BY <1>5 DEF SetServers, disk, past
  <2>2. Disk'
    BY <1>4, <2>1, ServingFacts, ServingDisk
  <2>3. Edit(h)'
    BY <1>4, <2>1 DEF Edit
  <2> QED
    BY <1>1, <1>2, <1>4, <2>1, <2>2, <2>3, HandlerInv DEF Points
<1>6. CASE Store(h)
  <2>1. /\ pc' = [pc EXCEPT ![h] = "idle"]
        /\ job' = [job EXCEPT ![h] = None]
        /\ config' \in {config, job[h].value}
        /\ config' # config => job[h].file = "config"
        /\ UNCHANGED <<boot, file, tmp, at, served>>
    BY <1>6 DEF Store, disk
  <2>2. config' \in Configs /\ config'.token = config.token
    BY <1>4, <2>1, ServingFacts DEF Edit
  <2>3. Kinds'
    BY <1>2, <1>4, <2>1, <2>2 DEF Kinds, Points, Stages
  <2>4. Disk'
    BY <1>4, <2>1, ServingFacts, ServingDisk
  <2>5. Stage'
    BY <1>4, <2>1, <2>2 DEF IInv, Stage, NeedsToken
  <2>6. MainWrites'
    BY <1>1, <1>2, <1>4, <2>1, ServingFacts DEF MainWrites
  <2>7. Edits'
    <3> SUFFICES ASSUME NEW x \in Handlers, pc'[x] # "idle" PROVE Edit(x)'
      BY DEF Edits
    <3>1. x # h /\ pc[x] # "idle" /\ job'[x] = job[x]
      BY <1>1, <1>2, <2>1
    <3> QED
      BY <3>1, <2>1, <2>2 DEF IInv, Edits, Edit
  <2>8. InForce' /\ TokenKept'
    BY <1>4, <2>1, <2>2 DEF IInv, InForce, TokenKept
  <2> QED
    BY <2>3, <2>4, <2>5, <2>6, <2>7, <2>8 DEF IInv
<1> QED
  BY <1>5, <1>6

-----------------------------------------------------------------------------
\* The start and the end of the process.

\* Before the process serves there is no request.
LEMMA NoRequests ==
  ASSUME IInv, boot # "up"
  PROVE  \A h \in Handlers : pc[h] = "idle"
  BY DEF IInv, Edits, Edit

\* main() generates or creates only what no client has seen.
LEMMA NobodyServed ==
  ASSUME IInv,
         boot \in {"default", "save"} \/ file["config"] = None
           \/ (boot = "token" /\ NeedsToken(config))
  PROVE  served = {}
  BY DEF IInv, Disk, Stage, InForce, NeedsToken, Carries

\* write_atomic of main(), which nobody disturbs.
LEMMA MainWritesInv ==
  ASSUME IInv, WriteAtomic(Main)
  PROVE  IInv'
<1>1. Main \in Writers /\ Main \notin Handlers /\ Handlers \subseteq Writers
  BY AdminAssumption DEF Writers
<1>2. /\ pc \in [Writers -> Points] /\ DOMAIN job = Writers /\ DOMAIN at = Writers
      /\ DOMAIN file = Files /\ DOMAIN tmp = Files
  BY DEF IInv, Kinds, Disk
<1>3. pc[Main] # "idle"
  BY DEF WriteAtomic, Open, OpenFails, Write, WriteFails, Rename, RenameFails
<1>4. /\ boot \in {"default", "save"} /\ job[Main].file = "config"
      /\ job[Main].text = config /\ config \in Configs
  BY <1>3 DEF IInv, MainWrites, Kinds
<1>5. served = {} /\ \A h \in Handlers : pc[h] = "idle"
  BY <1>4, NobodyServed, NoRequests
<1>6. Empty \notin Configs /\ Torn \notin Configs /\ None \notin Configs
      /\ "config" \in Files
  BY AdminAssumption DEF Files
<1>7. CASE Open(Main)
  <2>1. /\ tmp' = [tmp EXCEPT !["config"] = Empty]
        /\ pc' = [pc EXCEPT ![Main] = "write"]
        /\ at' = [at EXCEPT ![Main] = "tmp"]
        /\ UNCHANGED <<boot, config, file, job, served>>
    BY <1>4, <1>7 DEF Open, memory, past
  <2>2. Kinds'
    BY <1>2, <2>1 DEF IInv, Kinds, Points
  <2>3. Disk'
    BY <1>2, <1>5, <1>6, <2>1 DEF IInv, Disk, Carries, Contents
  <2>4. Stage'
    BY <2>1 DEF IInv, Stage, NeedsToken
  <2>5. MainWrites'
    BY <1>1, <1>2, <1>4, <1>6, <2>1 DEF MainWrites
  <2>6. Edits' /\ InForce' /\ TokenKept'
    BY <1>1, <1>2, <1>4, <1>5, <2>1 DEF Edits, InForce, TokenKept
  <2> QED
    BY <2>2, <2>3, <2>4, <2>5, <2>6 DEF IInv
<1>8. CASE Write(Main)
  <2>1. at[Main] = "tmp" /\ tmp["config"] = Empty
    BY <1>8 DEF IInv, MainWrites, Write
  <2>2. There(Main) = Empty
    BY <1>4, <2>1 DEF There
  <2>3. Put(Main, config)
    BY <1>4, <1>8, <2>2 DEF Write, Overwrite
  <2>4. /\ tmp' = [tmp EXCEPT !["config"] = config]
        /\ pc' = [pc EXCEPT ![Main] = "rename"]
        /\ at' = [at EXCEPT ![Main] = "closed"]
        /\ UNCHANGED <<boot, config, file, job, served>>
    BY <1>4, <1>8, <2>1, <2>3 DEF Put, Write, memory, past
  <2>5. Kinds'
    BY <1>2, <2>4 DEF IInv, Kinds, Points
  <2>6. Disk'
    BY <1>2, <1>4, <1>5, <1>6, <2>4 DEF IInv, Disk, Stage, Carries, Contents, NeedsToken
  <2>7. Stage'
    BY <2>4 DEF IInv, Stage, NeedsToken
  <2>8. MainWrites'
    BY <1>1, <1>2, <1>4, <1>6, <2>4 DEF MainWrites
  <2>9. Edits' /\ InForce' /\ TokenKept'
    BY <1>1, <1>2, <1>4, <1>5, <2>4 DEF Edits, InForce, TokenKept
  <2> QED
    BY <2>5, <2>6, <2>7, <2>8, <2>9 DEF IInv
<1>9. CASE Rename(Main)
  <2>1. tmp["config"] = config
    BY <1>9 DEF IInv, MainWrites, Rename
  <2>2. /\ file' = [file EXCEPT !["config"] = config]
        /\ tmp' = [tmp EXCEPT !["config"] = None]
        /\ pc' = [pc EXCEPT ![Main] = "idle"]
        /\ job' = [job EXCEPT ![Main] = None]
        /\ boot' = IF boot = "default" THEN "token" ELSE "list"
        /\ DOMAIN at' = Writers
        /\ UNCHANGED <<config, served>>
    BY <1>4, <1>9, <2>1 DEF Rename, Moved, memory, past
  <2>3. Kinds'
    BY <1>2, <1>4, <2>2 DEF Kinds, Points, Stages
  <2>4. Disk'
    BY <1>2, <1>4, <1>5, <1>6, <2>2 DEF Disk, Carries, Contents
  <2>5. Stage'
    BY <1>2, <1>4, <1>6, <2>2 DEF IInv, Stage, NeedsToken
  <2>6. MainWrites'
    BY <1>1, <1>2, <1>4, <2>2 DEF MainWrites
  <2>7. Edits' /\ InForce' /\ TokenKept'
    BY <1>1, <1>2, <1>4, <1>5, <2>2 DEF Edits, InForce, TokenKept
  <2> QED
    BY <2>3, <2>4, <2>5, <2>6, <2>7 DEF IInv
<1>10. CASE OpenFails(Main) \/ RenameFails(Main)
  <2>1. Gone /\ UNCHANGED <<file, tmp, served>>
    BY <1>10 DEF OpenFails, RenameFails, Give, disk
  <2>2. Disk'
    BY <2>1 DEF IInv, Disk, Carries, NeedsToken
  <2> QED
    BY <2>1, <2>2, GoneInv
<1>11. CASE WriteFails(Main)
  <2> PICK new \in {There(Main), Torn} : Put(Main, new)
    BY <1>11 DEF WriteFails
  <2>1. at[Main] = "tmp" /\ tmp["config"] = Empty
    BY <1>11 DEF IInv, MainWrites, WriteFails
  <2>2. new \in {Empty, Torn}
    BY <1>4, <2>1 DEF There
  <2>3. Gone /\ file' = file /\ served' = served /\ tmp' = [tmp EXCEPT !["config"] = new]
    BY <1>4, <1>11, <2>1 DEF WriteFails, Give, Put
  <2>4. Disk'
    BY <1>2, <1>5, <1>6, <2>2, <2>3 DEF IInv, Disk, Carries, Contents
  <2> QED
    BY <2>3, <2>4, GoneInv
<1> QED
  BY <1>7, <1>8, <1>9, <1>10, <1>11 DEF WriteAtomic

\* A stage of the start that writes nothing to config.toml.
LEMMA BootStep ==
  ASSUME IInv, boot # "up", UNCHANGED <<pc, job, at, config, served>>,
         boot' \in {"list", "fill"}, ~NeedsToken(config), file["config"] = config,
         boot # "down", boot \notin {"default", "save"},
         DOMAIN file' = Files, file'["config"] = file["config"], tmp' = tmp
  PROVE  IInv'
<1>1. Kinds'
  BY DEF IInv, Kinds, Stages
<1>2. Disk'
  BY DEF IInv, Disk, Carries, NeedsToken
<1>3. Stage'
  BY DEF Stage, NeedsToken
<1>4. MainWrites'
  BY DEF IInv, MainWrites
<1>5. Edits' /\ InForce' /\ TokenKept'
  BY NoRequests DEF IInv, Edits, InForce, TokenKept
<1> QED
  BY <1>1, <1>2, <1>3, <1>4, <1>5 DEF IInv

\* Each stage of the start.
LEMMA BootInv ==
  ASSUME IInv, Boot
  PROVE  IInv'
<1>1. Main \in Writers /\ Main \notin Handlers /\ Handlers \subseteq Writers
  BY AdminAssumption DEF Writers
<1>2. /\ pc \in [Writers -> Points] /\ DOMAIN job = Writers /\ DOMAIN at = Writers
      /\ DOMAIN file = Files /\ DOMAIN tmp = Files /\ Files = {"config", "blocklist"}
  BY DEF IInv, Kinds, Disk, Files
<1>3. None \notin Configs /\ Default \in Configs /\ "" \notin Random
      /\ "change-me" \notin Random
  BY AdminAssumption
<1>4. CASE Load
  <2>1. /\ boot = "down" /\ boot' = "token" /\ config' = file["config"]
        /\ UNCHANGED <<file, tmp, pc, job, at, served>>
    BY <1>4 DEF Load, disk, work, past
  <2>2. config' \in Configs
    BY <1>4, <2>1 DEF Load, IInv, Disk, Contents
  <2>3. Kinds'
    BY <1>2, <2>1, <2>2 DEF Kinds, Stages
  <2>4. Disk'
    BY <2>1 DEF IInv, Disk, Carries, NeedsToken
  <2>5. Stage'
    BY <2>1 DEF Stage
  <2>6. MainWrites'
    BY <2>1 DEF IInv, MainWrites
  <2>7. Edits'
    BY <2>1, NoRequests DEF Edits
  <2>8. InForce' /\ TokenKept'
    BY <2>1, <2>2 DEF IInv, InForce, TokenKept, Disk, Carries
  <2> QED
    BY <2>3, <2>4, <2>5, <2>6, <2>7, <2>8 DEF IInv
<1>5. CASE LoadFails
  BY <1>5, SameInv DEF LoadFails, memory, disk, work, past
<1>6. CASE LoadCreates
  <2>1. /\ boot = "down" /\ file["config"] = None
        /\ boot' = "default" /\ config' = Default
        /\ pc' = [pc EXCEPT ![Main] = "open"]
        /\ job' = [job EXCEPT ![Main] = [file |-> "config", text |-> Default,
                                         value |-> Default, cred |-> None]]
        /\ UNCHANGED <<file, tmp, at, served>>
    BY <1>6 DEF LoadCreates, Begin, disk
  <2>2. served = {} /\ \A h \in Handlers : pc[h] = "idle"
    BY <2>1, NobodyServed, NoRequests
  <2>3. Kinds'
    BY <1>2, <1>3, <2>1 DEF Kinds, Stages, Points
  <2>4. Disk'
    BY <2>1 DEF IInv, Disk, Carries, NeedsToken
  <2>5. Stage'
    BY <2>1 DEF Stage
  <2>6. MainWrites'
    BY <1>1, <1>2, <2>1 DEF MainWrites
  <2>7. Edits' /\ InForce' /\ TokenKept'
    BY <1>1, <1>2, <2>1, <2>2 DEF Edits, InForce, TokenKept
  <2> QED
    BY <2>3, <2>4, <2>5, <2>6, <2>7 DEF IInv
<1>7. ASSUME NEW t \in Fresh, GenerateToken(t)
      PROVE  IInv'
  <2>1. /\ boot = "token" /\ NeedsToken(config)
        /\ boot' = "save" /\ config' = [config EXCEPT !.token = t]
        /\ pc' = [pc EXCEPT ![Main] = "open"]
        /\ job' = [job EXCEPT ![Main] = [file |-> "config", text |-> config',
                                         value |-> config', cred |-> None]]
        /\ UNCHANGED <<file, tmp, at, served>>
    BY <1>7 DEF GenerateToken, Begin, disk
  <2>2. served = {} /\ \A h \in Handlers : pc[h] = "idle"
    BY <2>1, NobodyServed, NoRequests
  <2>3. config \in Configs /\ file["config"] = config /\ t \in Random
    BY <2>1 DEF IInv, Kinds, Stage, Fresh
  <2>4. config' \in Configs /\ config'.token = t
    BY <2>1, <2>3 DEF Configs, Tokens
  <2>5. Kinds'
    BY <1>2, <2>1, <2>4 DEF Kinds, Stages, Points
  <2>6. Disk'
    BY <2>1 DEF IInv, Disk, Carries, NeedsToken
  <2>7. Stage'
    BY <1>3, <2>1, <2>3, <2>4 DEF Stage, NeedsToken
  <2>8. MainWrites'
    BY <1>1, <1>2, <2>1 DEF MainWrites
  <2>9. Edits' /\ InForce' /\ TokenKept'
    BY <1>1, <1>2, <2>1, <2>2 DEF Edits, InForce, TokenKept
  <2> QED
    BY <2>5, <2>6, <2>7, <2>8, <2>9 DEF IInv
<1>8. CASE CreateList
  <2>1. /\ boot \in {"list", "token"} /\ ~NeedsToken(config) /\ file["config"] = config
    BY <1>8 DEF CreateList, IInv, Stage
  <2>2. /\ boot' = "fill" /\ file' = [file EXCEPT !["blocklist"] = Empty]
        /\ UNCHANGED <<config, tmp, pc, job, at, served>>
    BY <1>8 DEF CreateList, memory, work
  <2>3. DOMAIN file' = Files /\ file'["config"] = file["config"]
    BY <1>2, <2>2
  <2> QED
    BY <2>1, <2>2, <2>3, BootStep
<1>9. CASE FillList
  <2>1. /\ boot = "fill" /\ ~NeedsToken(config) /\ file["config"] = config
    BY <1>9 DEF FillList, IInv, Stage
  <2>2. /\ boot' = "list" /\ file' = [file EXCEPT !["blocklist"] = DEFAULT_BLOCKLIST]
        /\ UNCHANGED <<config, tmp, pc, job, at, served>>
    BY <1>9 DEF FillList, memory, work
  <2>3. DOMAIN file' = Files /\ file'["config"] = file["config"]
    BY <1>2, <2>2
  <2> QED
    BY <2>1, <2>2, <2>3, BootStep
<1>10. CASE FillFails
  <2>1. Gone /\ tmp' = tmp /\ served' = served
        /\ file' = [file EXCEPT !["blocklist"] = Torn]
    BY <1>10 DEF FillFails
  <2>2. DOMAIN file' = Files /\ file'["config"] = file["config"]
    BY <1>2, <2>1
  <2>3. Disk'
    BY <2>1, <2>2 DEF IInv, Disk, Carries, NeedsToken
  <2> QED
    BY <2>1, <2>3, GoneInv
<1>11. CASE Serve
  <2>1. /\ boot \in {"list", "token"} /\ ~NeedsToken(config) /\ file["config"] = config
        /\ config \in Configs
    BY <1>11 DEF Serve, IInv, Stage, Kinds
  <2>2. /\ boot' = "up" /\ served' = served \cup {config.token}
        /\ UNCHANGED <<config, file, tmp, pc, job, at>>
    BY <1>11 DEF Serve, disk, work
  <2>3. \A t \in served' : t = config.token
    BY <2>1, <2>2 DEF IInv, InForce
  <2>4. Kinds'
    BY <1>2, <2>1, <2>2 DEF Kinds, Stages
  <2>5. Disk'
    BY <1>3, <2>1, <2>2, <2>3 DEF IInv, Disk, Carries, NeedsToken
  <2>6. Stage'
    BY <2>1, <2>2 DEF Stage, NeedsToken
  <2>7. MainWrites'
    BY <2>1, <2>2 DEF IInv, MainWrites
  <2>8. Edits'
    BY <2>1, <2>2, NoRequests DEF Edits
  <2>9. InForce' /\ TokenKept'
    BY <2>2, <2>3 DEF InForce, TokenKept
  <2> QED
    BY <2>4, <2>5, <2>6, <2>7, <2>8, <2>9 DEF IInv
<1> QED
  BY <1>4, <1>5, <1>6, <1>7, <1>8, <1>9, <1>10, <1>11 DEF Boot

\* The process may die at any point.
LEMMA CrashInv ==
  ASSUME IInv, Crash
  PROVE  IInv'
<1>1. Gone /\ UNCHANGED <<file, tmp, served>>
  BY DEF Crash, disk
<1>2. Disk'
  BY <1>1 DEF IInv, Disk, Carries, NeedsToken
<1> QED
  BY <1>1, <1>2, GoneInv

-----------------------------------------------------------------------------
\* The invariant is inductive.
LEMMA NextInv == IInv /\ [Next]_vars => IInv'
<1> SUFFICES ASSUME IInv, [Next]_vars PROVE IInv'
  OBVIOUS
<1>1. ASSUME NEW w \in Writers, WriteAtomic(w) PROVE IInv'
  BY <1>1, HandlerWrites, MainWritesInv DEF Writers
<1>2. ASSUME NEW h \in Handlers, Request(h) \/ SetServers(h) \/ Store(h) PROVE IInv'
  BY <1>2, RequestInv, InstallInv
<1>3. CASE Boot
  BY <1>3, BootInv
<1>4. CASE Crash
  BY <1>4, CrashInv
<1>5. CASE UNCHANGED vars
  BY <1>5, SameInv DEF vars, memory, disk, work, past
<1> QED
  BY <1>1, <1>2, <1>3, <1>4, <1>5 DEF Next

\* For any number of handlers, any requests, failures and crashes: whoever is
\* past auth holds the token in force, which is neither empty nor the legacy
\* one (web.rs auth and set_config, main.rs).
THEOREM OnlyAuthorised == Spec => []Authorised
<1>1. IInv => Authorised
  BY DEF IInv, Authorised, Stage, NeedsToken, Edits, Edit
<1> QED
  BY <1>1, InitInv, NextInv, PTL DEF Spec

\* The token in force never changes once something was served, however often
\* the process dies and starts again (main.rs, Config::save, write_atomic).
THEOREM TokenSurvives == Spec => []TokenKept
<1>1. IInv => TokenKept
  BY DEF IInv
<1> QED
  BY <1>1, InitInv, NextInv, PTL DEF Spec
=============================================================================
