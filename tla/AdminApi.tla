------------------------------ MODULE AdminApi ------------------------------
(***************************************************************************)
(* The admin API of web.rs, the files it keeps (config.rs, blocklist.rs)   *)
(* and the part of main.rs that reads them at the start.                   *)
(*                                                                         *)
(* Requests run in parallel: a handler does not wait for another one, and  *)
(* no lock orders them.  write_atomic creates or truncates the temporary   *)
(* file of its path, writes, and renames; each is a step, and each may     *)
(* fail.  Two calls for one path use the same temporary file: a descriptor *)
(* that is open follows its file through a rename.  The process may die    *)
(* between any two steps; what was written stays (the machine does not go  *)
(* down with it).                                                          *)
(*                                                                         *)
(* A config is its upstream servers, its admin token and its options: all  *)
(* the other fields a request carries.                                     *)
(***************************************************************************)
EXTENDS Blocklist, FiniteSets

CONSTANTS Servers,     \* upstream addresses
          Options,     \* values of the other fields of a config
          Labels,      \* labels that are not empty
          Names,       \* names that clients ask for
          Handlers,    \* requests the web server works on at a time
          Main,        \* main(), which writes during the start
          Bodies,      \* bodies of POST /api/config
          Texts,       \* texts of POST /api/blocklist
          Default,     \* Config::default()
          DEFAULT_BLOCKLIST,
          OldConfigs,  \* config files an operator may have put there
          OldTexts,    \* blocklist files an operator may have put there
          Random,      \* the tokens random_token() draws
          Guess,       \* a credential that is nobody's token
          Blank, Bad,  \* an empty entry, an entry that does not parse
          None,        \* no file, no value
          Empty,       \* a file without a byte
          Torn,        \* bytes that are not the text of any one write
          MaxStarts,   \* bound: starts of the process
          MaxRequests  \* bound: requests of a behaviour

Files   == {"config", "blocklist"}
Writers == Handlers \cup {Main}

VARIABLES boot,       \* how far main() is; "up" is serving
          config,     \* AppState.config
          servers,    \* the list Upstream uses
          blocklist,  \* AppState.blocklist
          file, tmp,  \* contents of each file and of its temporary file
          pc,         \* where a writer is
          job,        \* what it writes, and for whom
          at,         \* what its open descriptor refers to
          starts, requests,
          minted,     \* tokens that were drawn
          served,     \* history: tokens that were in force while serving
          solo,       \* history: no other request for the file since it began
          clean,      \* history: the last change of the file was undisturbed
          kept        \* history: what a crash may leave, per file

memory == <<config, servers, blocklist>>
disk   == <<file, tmp>>
work   == <<pc, job, at>>
past   == <<served, solo, clean, kept>>
vars   == <<boot, memory, disk, work, starts, requests, minted, past>>

Tokens == {"", "change-me"} \cup Random
              \cup {c.token : c \in OldConfigs \cup {Default}}

\* set_config trims the entries and drops the empty ones.
Trimmed(body) == SelectSeq(body.servers, LAMBDA s : s # Blank)

\* The server lists a config may have.
ServerLists == {c.servers : c \in OldConfigs \cup {Default}}
                   \cup {Trimmed(body) : body \in Bodies}

Configs == [servers : ServerLists, options : Options, token : Tokens]
Line    == Lines(Labels \cup {Nil} \cup Marks)

\* The texts a blocklist file may have, and the lists that may be in force.
BlockTexts == OldTexts \cup {DEFAULT_BLOCKLIST}
                  \cup {ToFileText(FromText(t)) : t \in Texts}
Lists      == {FromText(t) : t \in BlockTexts \cup Texts \cup {{}}}

\* What a writer may have to do.
Work == [file : Files, text : Configs \cup BlockTexts, value : Configs \cup Lists,
         cred : Tokens \cup {Guess, None}]

ASSUME AdminAssumption ==
    /\ OldConfigs \cup {Default} \subseteq Configs
    /\ Bodies \subseteq [servers : Seq(Servers \cup {Bad, Blank}),
                        options : Options \cup {Bad}]
    /\ \A t \in OldTexts \cup Texts \cup {DEFAULT_BLOCKLIST} : t \subseteq Line
    /\ Star \in Labels
    /\ Names \subseteq Seq(Labels)
    /\ {None, Empty, Torn} \cap (Configs \cup BlockTexts) = {}
    /\ None \notin {Empty, Torn} \cup Work
    /\ Main \notin Handlers
    /\ MaxStarts \in Nat
    /\ MaxRequests \in Nat
    /\ Random \cap ({"", "change-me", Guess} \cup {c.token : c \in OldConfigs}) = {}

-----------------------------------------------------------------------------
\* Helpers.

\* Config::upstream_addrs drops what does not parse.
UpstreamAddrs(c) == SelectSeq(c.servers, LAMBDA s : s # Bad)

\* What SelectSeq makes of a list of addresses.
ASSUME AddrsAssumption == \A c \in Configs : UpstreamAddrs(c) \in Seq(Servers)

Acceptable(body) ==
    /\ Trimmed(body) # <<>>
    /\ \A i \in DOMAIN Trimmed(body) : Trimmed(body)[i] # Bad
    /\ body.options # Bad

\* The config a body asks for: everything else is taken from the current one.
Edited(body) ==
    [config EXCEPT !.servers = Trimmed(body), !.options = body.options]

\* Mutant of NeedsToken: the legacy credential passes.
NeedsTokenIfEmpty(c) == c.token = ""

\* main(): a token that must be replaced before anything is served.
NeedsToken(c) == c.token \in {"", "change-me"}

\* The token gate.
Auth(cred) == config.token = "" \/ cred = config.token

Busy(w, f) == pc[w] # "idle" /\ job[w].file = f
Active(f)  == {w \in Writers : Busy(w, f)}

\* What the next start makes of the contents of a file.
Parsed(f, text) ==
    IF f = "config" \/ text \in {None, Torn} THEN text
    ELSE FromText(IF text = Empty THEN {} ELSE text)

Memory(f) == IF f = "config" THEN config ELSE blocklist

\* A text written from offset 0 over what is there: the end of a longer text
\* stays behind.
Overwrite(old, new) == IF old \in {Empty, new} THEN {new} ELSE {new, Torn}

\* Writer w sets out to replace file f.
Begin(w, f, text, value, cred) ==
    /\ pc' = [pc EXCEPT ![w] = "open"]
    /\ job' = [job EXCEPT ![w] = [file |-> f, text |-> text, value |-> value,
                                  cred |-> cred]]
    /\ solo' = [x \in Writers |-> IF x = w THEN Active(f) = {}
                                           ELSE solo[x] /\ ~Busy(x, f)]
    /\ clean' = [clean EXCEPT ![f] = @ /\ Active(f) = {}]

\* All that a process has in memory is gone, its requests included.
Gone ==
    /\ boot' = "down"
    /\ config' = None
    /\ servers' = <<>>
    /\ blocklist' = None
    /\ pc' = [w \in Writers |-> "idle"]
    /\ job' = [w \in Writers |-> None]
    /\ at' = [w \in Writers |-> "closed"]
    /\ solo' = [w \in Writers |-> FALSE]

Init ==
    /\ boot = "down"
    /\ config = None
    /\ servers = <<>>
    /\ blocklist = None
    /\ \E c \in OldConfigs \cup {None}, t \in OldTexts \cup {None} :
          file = [f \in Files |-> IF f = "config" THEN c ELSE t]
    /\ tmp = [f \in Files |-> None]
    /\ pc = [w \in Writers |-> "idle"]
    /\ job = [w \in Writers |-> None]
    /\ at = [w \in Writers |-> "closed"]
    /\ starts = 0
    /\ requests = 0
    /\ minted = {}
    /\ served = {}
    /\ solo = [w \in Writers |-> FALSE]
    /\ clean = [f \in Files |-> TRUE]
    /\ kept = [f \in Files |-> {}]

-----------------------------------------------------------------------------
\* write_atomic.

\* File::create: the temporary file exists and is empty.
Open(w) ==
    /\ pc[w] = "open"
    /\ tmp' = [tmp EXCEPT ![job[w].file] = Empty]
    /\ at' = [at EXCEPT ![w] = "tmp"]
    /\ pc' = [pc EXCEPT ![w] = "write"]
    /\ UNCHANGED <<boot, memory, file, job, starts, requests, minted, past>>

\* The bytes new reach the file that the descriptor of w refers to.
Put(w, new) ==
    LET f == job[w].file IN
    CASE at[w] = "tmp"  -> tmp' = [tmp EXCEPT ![f] = new] /\ UNCHANGED file
      [] at[w] = "path" -> file' = [file EXCEPT ![f] = new] /\ UNCHANGED tmp
      [] OTHER          -> UNCHANGED disk

There(w) ==
    LET f == job[w].file IN
    CASE at[w] = "tmp"  -> tmp[f]
      [] at[w] = "path" -> file[f]
      [] OTHER          -> Empty

\* write_all and close.
Write(w) ==
    /\ pc[w] = "write"
    /\ \E new \in Overwrite(There(w), job[w].text) : Put(w, new)
    /\ at' = [at EXCEPT ![w] = "closed"]
    /\ pc' = [pc EXCEPT ![w] = "rename"]
    /\ UNCHANGED <<boot, memory, job, starts, requests, minted, past>>

\* The descriptors of file f after a rename: the temporary file is now at the
\* path, and what was there is no longer reachable by name.
Moved(f) ==
    [x \in Writers |->
        CASE Busy(x, f) /\ at[x] = "tmp"  -> "path"
          [] Busy(x, f) /\ at[x] = "path" -> "unlinked"
          [] OTHER                        -> at[x]]

\* rename(2).  A handler goes on to install what it saved, main() with the
\* next step of the start.
Rename(w) ==
    LET f == job[w].file IN
    /\ pc[w] = "rename"
    /\ tmp[f] # None
    /\ file' = [file EXCEPT ![f] = tmp[f]]
    /\ tmp' = [tmp EXCEPT ![f] = None]
    /\ at' = Moved(f)
    /\ IF w = Main
         THEN /\ pc' = [pc EXCEPT ![w] = "idle"]
              /\ job' = [job EXCEPT ![w] = None]
              /\ boot' = IF boot = "default" THEN "token" ELSE "list"
         ELSE /\ pc' = [pc EXCEPT ![w] = IF f = "config" THEN "servers" ELSE "store"]
              /\ UNCHANGED <<boot, job>>
    /\ UNCHANGED <<memory, starts, requests, minted, past>>

\* An error ends the request, or the process if it is main()'s.
Give(w) ==
    IF w = Main
      THEN Gone /\ UNCHANGED <<starts, requests, minted, served, clean, kept>>
      ELSE /\ pc' = [pc EXCEPT ![w] = "idle"]
           /\ job' = [job EXCEPT ![w] = None]
           /\ at' = [at EXCEPT ![w] = "closed"]
           /\ UNCHANGED <<boot, memory, starts, requests, minted, past>>

OpenFails(w) == pc[w] = "open" /\ Give(w) /\ UNCHANGED disk

\* The disk is full, for instance: a part of the text has been written.
WriteFails(w) ==
    /\ pc[w] = "write"
    /\ \E new \in {There(w), Torn} : Put(w, new)
    /\ Give(w)

\* Mutant of RenameFails: the result of rename is not looked at.
RenameFailsUnseen(w) ==
    /\ pc[w] = "rename"
    /\ w # Main
    /\ pc' = [pc EXCEPT ![w] = IF job[w].file = "config" THEN "servers" ELSE "store"]
    /\ UNCHANGED <<boot, memory, disk, job, at, starts, requests, minted, past>>

\* Also when the temporary file is gone, renamed by another request.
RenameFails(w) == pc[w] = "rename" /\ Give(w) /\ UNCHANGED disk

-----------------------------------------------------------------------------
\* Requests.

\* auth: 401 unless the credential is the token.
Unauthorized(h, cred) ==
    /\ boot = "up" /\ pc[h] = "idle"
    /\ ~Auth(cred)
    /\ requests' = requests + 1
    /\ UNCHANGED <<boot, memory, disk, work, starts, minted, past>>

\* set_config returns early: no server, a bad address, a bad sinkhole address.
RefuseConfig(h, body, cred) ==
    /\ boot = "up" /\ pc[h] = "idle"
    /\ Auth(cred)
    /\ ~Acceptable(body)
    /\ requests' = requests + 1
    /\ UNCHANGED <<boot, memory, disk, work, starts, minted, past>>

\* Mutant of SetConfig: the body is not checked.
SetConfigUnchecked(h, body, cred) ==
    /\ boot = "up" /\ pc[h] = "idle"
    /\ Auth(cred)
    /\ requests' = requests + 1
    /\ Begin(h, "config", Edited(body), Edited(body), cred)
    /\ UNCHANGED <<boot, memory, disk, at, starts, minted, served, kept>>

\* set_config up to cfg.save.
SetConfig(h, body, cred) ==
    /\ boot = "up" /\ pc[h] = "idle"
    /\ Auth(cred)
    /\ Acceptable(body)
    /\ requests' = requests + 1
    /\ Begin(h, "config", Edited(body), Edited(body), cred)
    /\ UNCHANGED <<boot, memory, disk, at, starts, minted, served, kept>>

\* Mutant of SetBlocklist: the list is in force before it is saved.
SetBlocklistFirst(h, text, cred) ==
    /\ boot = "up" /\ pc[h] = "idle"
    /\ Auth(cred)
    /\ requests' = requests + 1
    /\ blocklist' = FromText(text)
    /\ Begin(h, "blocklist", ToFileText(FromText(text)), FromText(text), cred)
    /\ UNCHANGED <<boot, config, servers, disk, at, starts, minted, served, kept>>

\* set_blocklist up to write_atomic.
SetBlocklist(h, text, cred) ==
    /\ boot = "up" /\ pc[h] = "idle"
    /\ Auth(cred)
    /\ requests' = requests + 1
    /\ Begin(h, "blocklist", ToFileText(FromText(text)), FromText(text), cred)
    /\ UNCHANGED <<boot, memory, disk, at, starts, minted, served, kept>>

\* upstream.set_servers
SetServers(h) ==
    /\ pc[h] = "servers"
    /\ servers' = UpstreamAddrs(job[h].value)
    /\ pc' = [pc EXCEPT ![h] = "store"]
    /\ UNCHANGED <<boot, config, blocklist, disk, job, at, starts, requests, minted,
                   past>>

\* config.store or blocklist.store, and the response.
Store(h) ==
    LET f == job[h].file IN
    /\ pc[h] = "store"
    /\ IF f = "config"
         THEN config' = job[h].value /\ UNCHANGED blocklist
         ELSE blocklist' = job[h].value /\ UNCHANGED config
    /\ pc' = [pc EXCEPT ![h] = "idle"]
    /\ job' = [job EXCEPT ![h] = None]
    /\ clean' = [clean EXCEPT ![f] = @ \/ solo[h]]
    /\ UNCHANGED <<boot, servers, disk, at, starts, requests, minted, served, solo,
                   kept>>

-----------------------------------------------------------------------------
\* Start and death of the process.

\* load_or_create reads the file that is there.
Load ==
    /\ boot = "down" /\ starts < MaxStarts
    /\ file["config"] \notin {None, Empty, Torn}
    /\ config' = file["config"]
    /\ boot' = "token"
    /\ starts' = starts + 1
    /\ UNCHANGED <<servers, blocklist, disk, work, requests, minted, past>>

\* The file does not parse: main() returns the error.
LoadFails ==
    /\ boot = "down" /\ starts < MaxStarts
    /\ file["config"] \in {Empty, Torn}
    /\ starts' = starts + 1
    /\ UNCHANGED <<boot, memory, disk, work, requests, minted, past>>

\* There is no file: the default config is saved.
LoadCreates ==
    /\ boot = "down" /\ starts < MaxStarts
    /\ file["config"] = None
    /\ config' = Default
    /\ boot' = "default"
    /\ starts' = starts + 1
    /\ Begin(Main, "config", Default, Default, None)
    /\ UNCHANGED <<servers, blocklist, disk, at, requests, minted, served, kept>>

\* random_token(): what it has not returned before.
Fresh == Random \ minted

\* Mutant of GenerateToken: the token is not saved.
GenerateTokenUnsaved(t) ==
    /\ boot = "token" /\ NeedsToken(config)
    /\ minted' = minted \cup {t}
    /\ config' = [config EXCEPT !.token = t]
    /\ boot' = "list"
    /\ UNCHANGED <<servers, blocklist, disk, work, starts, requests, past>>

\* An unset or legacy token is replaced by a random one, which is saved.
GenerateToken(t) ==
    /\ boot = "token" /\ NeedsToken(config)
    /\ minted' = minted \cup {t}
    /\ config' = [config EXCEPT !.token = t]
    /\ boot' = "save"
    /\ Begin(Main, "config", config', config', None)
    /\ UNCHANGED <<servers, blocklist, disk, at, starts, requests, served, kept>>

\* Blocklist::from_file: the default list is created in place.
CreateList ==
    /\ boot = "list" \/ (boot = "token" /\ ~NeedsToken(config))
    /\ file["blocklist"] = None
    /\ file' = [file EXCEPT !["blocklist"] = Empty]
    /\ boot' = "fill"
    /\ clean' = [clean EXCEPT !["blocklist"] = FALSE]
    /\ UNCHANGED <<memory, tmp, work, starts, requests, minted, served, solo, kept>>

FillList ==
    /\ boot = "fill"
    /\ file' = [file EXCEPT !["blocklist"] = DEFAULT_BLOCKLIST]
    /\ boot' = "list"
    /\ clean' = [clean EXCEPT !["blocklist"] = TRUE]
    /\ UNCHANGED <<memory, tmp, work, starts, requests, minted, served, solo, kept>>

FillFails ==
    /\ boot = "fill"
    /\ file' = [file EXCEPT !["blocklist"] = Torn]
    /\ Gone
    /\ UNCHANGED <<tmp, starts, requests, minted, served, clean, kept>>

\* The list is read and the server is up.  A torn list is still a list: of
\* some of the lines.
Serve ==
    /\ boot = "list" \/ (boot = "token" /\ ~NeedsToken(config))
    /\ file["blocklist"] # None
    /\ IF file["blocklist"] = Torn
         THEN blocklist' \in {FromText(t) : t \in Texts}
         ELSE blocklist' = Parsed("blocklist", file["blocklist"])
    /\ servers' = UpstreamAddrs(config)
    /\ boot' = "up"
    /\ served' = served \cup {config.token}
    /\ UNCHANGED <<config, disk, work, starts, requests, minted, solo, clean, kept>>

\* SIGKILL, a panic of main, SIGINT.
Crash ==
    /\ boot # "down"
    /\ Gone
    /\ kept' = IF boot = "up"
                 THEN [f \in Files |-> {Memory(f)} \cup
                                         {job[w].value : w \in Active(f)}]
                 ELSE kept
    /\ UNCHANGED <<disk, starts, requests, minted, served, clean>>

-----------------------------------------------------------------------------

WriteAtomic(w) ==
    \/ Open(w)  \/ OpenFails(w)
    \/ Write(w) \/ WriteFails(w)
    \/ Rename(w) \/ RenameFails(w)

Credentials == served \cup {Guess, ""}

Request(h) ==
    /\ requests < MaxRequests
    /\ \E cred \in Credentials :
          \/ Unauthorized(h, cred)
          \/ \E body \in Bodies : SetConfig(h, body, cred) \/ RefuseConfig(h, body, cred)
          \/ \E text \in Texts : SetBlocklist(h, text, cred)

Boot ==
    \/ Load \/ LoadFails \/ LoadCreates
    \/ \E t \in Fresh : GenerateToken(t)
    \/ CreateList \/ FillList \/ FillFails
    \/ Serve

Next ==
    \/ \E w \in Writers : WriteAtomic(w)
    \/ \E h \in Handlers : Request(h) \/ SetServers(h) \/ Store(h)
    \/ Boot
    \/ Crash

Spec == Init /\ [][Next]_vars

-----------------------------------------------------------------------------
\* Properties.

TypeOK ==
    /\ boot \in {"down", "default", "token", "save", "list", "fill", "up"}
    /\ config \in Configs \cup {None}
    /\ servers \in Seq(Servers)
    /\ blocklist \in Lists \cup {None}
    /\ \A d \in {file, tmp} :
          /\ DOMAIN d = Files
          /\ d["config"] \in Configs \cup {None, Empty, Torn}
          /\ d["blocklist"] \in BlockTexts \cup {None, Empty, Torn}
    /\ pc \in [Writers -> {"idle", "open", "write", "rename", "servers", "store"}]
    /\ at \in [Writers -> {"closed", "tmp", "path", "unlinked"}]
    /\ DOMAIN job = Writers
    /\ \A w \in Writers : (job[w] = None) <=> (pc[w] = "idle")
    /\ starts \in 0 .. MaxStarts
    /\ requests \in 0 .. MaxRequests
    /\ minted \subseteq Random
    /\ served \subseteq Tokens
    /\ solo \in [Writers -> BOOLEAN]
    /\ clean \in [Files -> BOOLEAN]
    /\ DOMAIN kept = Files

\* Whoever gets past auth holds the token that is in force, from the first to
\* the last step of the request, and that token is neither the empty nor the
\* legacy one: main() replaces those before it serves, and no edit, however
\* many run in parallel, changes the token in force (web.rs auth and set_config).
\* config.rs says otherwise of an empty token: see EmptyDisablesAuth.
Authorised ==
    boot = "up" =>
        /\ config.token \notin {"", "change-me"}
        /\ \A h \in Handlers : pc[h] # "idle" => job[h].cred = config.token

\* config.rs on admin_token: "Empty disables auth."  Where every config there is
\* at a start has an empty token, any credential passes.  (main() replaces the
\* token, as README and config.example.toml say.)
EmptyDisablesAuth ==
    boot = "up" /\ (\A c \in OldConfigs \cup {Default} : c.token = "") =>
        \A cred \in Credentials : Auth(cred)

\* A token that was ever in force stays: it was saved before the first request
\* was served, and neither edits nor crashes nor restarts replace it.
TokenKept == \A s, t \in served : s = t

\* When the last change of a file was one request alone and it is over, well or
\* not, then memory has what the next start will read, and the upstream uses the
\* servers of the config.  This does not hold of requests that overlapped; the
\* next one that runs alone repairs what they did.
Settled ==
    boot = "up" =>
        \A f \in Files :
            clean[f] /\ Active(f) = {} =>
                /\ Parsed(f, file[f]) = Memory(f) \/ (f = "blocklist" /\ IsOdd(blocklist))
                /\ f = "config" => servers = UpstreamAddrs(config)

\* After a crash a file that no two requests disturbed is whole: it has what was
\* in force, or what the request that the crash cut off was about to install.
Durable ==
    boot = "down" =>
        \A f \in Files :
            clean[f] /\ kept[f] # {} =>
                \/ Parsed(f, file[f]) \in kept[f]
                \/ f = "blocklist" /\ \E bl \in kept[f] : IsOdd(bl)

\* What is blocked is what the lines of the file mean by the documentation,
\* through from_text, the file, is_blocked and restarts: a plain domain or a
\* pasted URL blocks its host and the subdomains, a wildcard the subdomains only.
\* Lines that normalize() misreads are left out: blocklist.rs says it strips
\* "scheme/path/port/trailing dot if a user pastes a URL", but it looks for the
\* end of a scheme anywhere in the line, and not for a query.
BlocksAsDocumented ==
    boot = "up" /\ clean["blocklist"] /\ Active("blocklist") = {}
                /\ ~IsOdd(blocklist)
                /\ (\A l \in file["blocklist"] : ~IsMisread(l)) =>
        \A n \in Names :
            IsBlocked(blocklist, n) <=> \E l \in file["blocklist"] : Covers(l, n)

\* config.rs on write_atomic: "so a crash mid-write can't leave a
\* truncated/corrupt file".
ConfigNeverCorrupt == file["config"] \notin {Empty, Torn}
=============================================================================
