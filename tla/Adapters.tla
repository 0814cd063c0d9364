-------------------------------- MODULE Adapters --------------------------------
(***************************************************************************)
(* Carrying an action out: the adapters of recon/, the parsers of evidence/*)
(* that read what they leave, one request, query or process per step.      *)
(*                                                                         *)
(* What is out there is constant.  What disturbs it, an answer lost on the *)
(* way or one of the events of module ReconCycle, is a trouble, and there  *)
(* are at most MaxTroubles of them.  A job's "learned" is the evidence its *)
(* artifact would be parsed into.                                          *)
(***************************************************************************)
EXTENDS ReconWorld, SequencesExt

CONSTANTS
    Site,           \* page -> what a GET answers: code, to, server (it names its
                    \* server), marks (a fingerprint can be told from it), links,
                    \* params (a set of pages whose links or forms carry parameters)
    NoPage,
    WildHosts,      \* hosts that answer any path alike
    Words,          \* page -> the pages the word list makes of it, in order
    Zone,           \* name -> its addresses
    Candidates,     \* name -> the names the word list makes of it, in order
    RecordTypes,    \* DNS_RECORD_TYPES, the address records among them
    Open,           \* the open ports
    TableName,      \* port -> the name nmap's table has for it, or "unknown"
    TrueName,       \* port -> the name of what speaks there
    MaxRedirects,
    MaxTroubles

\* What answers stay within the things of module ReconWorld.
ASSUME SiteAssumption ==
    /\ NoPage \notin Pages
    /\ Site \in [Pages -> [code : STRING, to : Pages \cup {NoPage},
                          server : BOOLEAN, marks : BOOLEAN, links : SUBSET Pages, params : SUBSET Pages]]
    /\ Words \in [Pages -> Seq(Pages)]
    /\ MaxRedirects \in Nat
ASSUME NameAssumption ==
    /\ Zone \in [Names -> SUBSET Addresses]
    /\ Candidates \in [Names -> Seq(Names)]
    /\ RecordTypes \in Seq(STRING)
    /\ Open \subseteq Ports

VARIABLES
    job,        \* the action being carried out
    files,      \* artifacts/*/response.meta.json: <<page asked for, final page, has it a body>>
    held,       \* the directory adapter's _last_result says that a request timed out
    troubles

\* act, on, shape: the coverage key.  todo: what is left to ask.  at: the URL asked.
\* trail: the pages asked so far.  good: the last page that answered.  learned: facts.
\* late: a request of this job timed out.  result: "running" or how it ended, "retry"
\* for an error code of RETRYABLE_ERROR_CODES and "broken" for a ParseError.
Results == {"running", "completed", "timeout", "retry", "failed", "broken", "unavailable",
            "raised"}
Idle == [act |-> "none", on |-> NoPage, shape |-> "none", todo |-> <<>>, at |-> NoPage,
         trail |-> <<>>, good |-> NoPage, learned |-> {}, late |-> FALSE, result |-> "completed"]

Running(acts) == job.act \in acts /\ job.result = "running"
Goes(result) == job' = [job EXCEPT !.result = result]
Ends(result, learned) == job' = [job EXCEPT !.result = result, !.learned = learned]
LateEnd(result, learned) ==
    job' = [job EXCEPT !.result = result, !.learned = learned, !.late = TRUE]
Trouble == troubles < MaxTroubles /\ troubles' = troubles + 1
Asked(page) == Append(job.trail, page)

--------------------------------------------------------------------------------
(***************************************************************************)
(* http/adapter.py, http/tech.py: one GET, redirects followed by hand      *)
(***************************************************************************)
PortOf(page) == <<page[1], page[2]>>
Speaks(page, name) == PortOf(page) \in Open /\ TrueName[PortOf(page)] = name
Answers(page) == Speaks(page, "http")

\* No connection: for certain where no port is open, by misfortune elsewhere
Refused(page) == IF PortOf(page) \in Open THEN Trouble ELSE UNCHANGED troubles

\* evidence/parsers/http_probe.py: what the last good answer holds is told of the page
\* that was asked for first.  Of technologies it knows the Server header.
HttpFacts(start, last) ==
    LET s == Site[last]
        near == {l \in s.links : l[1] = start[1]}
    IN  {<<"url", start>>, <<"status", start>>, <<"end", start>>}
        \cup (IF s.server THEN {<<"tech", start>>} ELSE {})
        \cup ({"url", "end"} \X near)

\* evidence/parsers/tech.py: fingerprints of headers and body, and nothing of the page
\* itself.  It is aimed at pages that are known, to which its rows of headers add nothing.
TechFacts(start, last) == IF Site[last].marks THEN {<<"tech", start>>} ELSE {}

\* evidence/registry.py: each adapter's artifact has its parser
Parsed(act, start, last) ==
    IF act = "technology_detection" THEN TechFacts(start, last) ELSE HttpFacts(start, last)

\* Faulty variant of the next one: any destination will do
FollowsAnywhere(from) ==
    /\ Site[from].to # NoPage
    /\ \A i \in DOMAIN job.trail : job.trail[i] # Site[from].to
    /\ Len(job.trail) < MaxRedirects

\* A redirect is followed to a destination in scope that was not asked before
Follows(from) ==
    /\ Site[from].to # NoPage
    /\ Allowed(Site[from].to[1])
    /\ \A i \in DOMAIN job.trail : job.trail[i] # Site[from].to
    /\ Site[from].to # from
    /\ Len(job.trail) < MaxRedirects

\* A page answers; a redirect makes the adapter ask again
HttpAnswered ==
    /\ Running({"http_probe", "technology_detection"})
    /\ Answers(job.at)
    /\ IF Follows(job.at)
       THEN /\ job' = [job EXCEPT !.trail = Asked(job.at), !.good = job.at,
                                  !.at = Site[job.at].to]
            /\ UNCHANGED files
       ELSE /\ job' = [job EXCEPT !.trail = Asked(job.at), !.good = job.at,
                                  !.learned = Parsed(job.act, job.on, job.at),
                                  !.result = "completed"]
            /\ files' = files \cup {<<job.on, job.at, TRUE>>}
    /\ UNCHANGED <<held, troubles>>

\* Faulty variant of the next one: a request without an answer is done all the same
HttpLostQuietly(late) ==
    /\ job' = [job EXCEPT !.trail = Asked(job.at), !.late = late, !.result = "completed"]
    /\ files' = files \cup {<<job.at, job.at, FALSE>>}

\* No answer: with an earlier one in hand that one is the result.  Without, the payload
\* that is left behind is empty.
HttpLost(late) ==
    IF job.good # NoPage
    THEN /\ job' = [job EXCEPT !.trail = Asked(job.at), !.late = late, !.result = "completed",
                               !.learned = Parsed(job.act, job.on, job.good)]
         /\ files' = files \cup {<<job.on, job.good, TRUE>>}
    ELSE /\ job' = [job EXCEPT !.trail = Asked(job.at), !.late = late,
                               !.result = IF late THEN "timeout" ELSE "failed"]
         /\ files' = files \cup {<<job.at, job.at, FALSE>>}

HttpFails ==
    /\ Running({"http_probe", "technology_detection"})
    /\ \/ Refused(job.at) /\ HttpLost(FALSE)
       \/ Trouble /\ HttpLost(TRUE)
    /\ UNCHANGED held

\* What is no HTTP makes http.client raise an error that is neither an OSError nor a
\* timeout.  Nothing catches it.
HttpRaises ==
    /\ Running({"http_probe", "technology_detection", "directory_enumeration"})
    /\ Goes("raised")
    /\ \/ Trouble
       \/ PortOf(job.at) \in Open /\ ~Answers(job.at) /\ UNCHANGED troubles
    /\ UNCHANGED <<files, held>>

--------------------------------------------------------------------------------
(***************************************************************************)
(* http/directory.py: two requests for names nobody would use, then the    *)
(* words.  todo begins with NoPage for each of the former.                 *)
(***************************************************************************)
\* evidence/parsers/directory.py: what a row is worth.  A page that never answered has
\* status 0, and is told of like any other.
WordFacts(page) ==
    IF Answers(page) /\ Site[page].code = "missing" THEN {<<"status", page>>}
    ELSE {<<"url", page>>, <<"status", page>>}
         \cup {<<"url", t>> : t \in {u \in {Site[page].to} \ {NoPage} :
                                        Answers(page) /\ Allowed(u[1])}}

\* _enumerate, up to the words
Canary ==
    /\ Running({"directory_enumeration"}) /\ job.todo # <<>> /\ Head(job.todo) = NoPage
    /\ \/ /\ Answers(job.on)
          /\ IF NoPage \in ToSet(Tail(job.todo)) \/ job.on[1] \notin WildHosts
             THEN job' = [job EXCEPT !.todo = Tail(job.todo)] /\ UNCHANGED held
             ELSE Ends("completed", {<<"url", job.on>>}) /\ held' = FALSE
          /\ UNCHANGED troubles
       \/ Refused(job.on) /\ Ends("failed", {}) /\ held' = FALSE
       \/ Trouble /\ LateEnd("timeout", {}) /\ held' = TRUE
    /\ UNCHANGED files

\* A word's page; a request that times out is the last one
Word ==
    /\ Running({"directory_enumeration"}) /\ job.todo # <<>> /\ Head(job.todo) # NoPage
    /\ LET page == Head(job.todo)
           next(facts) == job' = [job EXCEPT !.todo = Tail(job.todo),
                                             !.learned = @ \cup facts]
       IN  \/ next(WordFacts(page)) /\ UNCHANGED <<held, troubles>>
           \/ Trouble /\ next({<<"url", page>>, <<"status", page>>}) /\ UNCHANGED held
           \/ Trouble /\ LateEnd("timeout", {}) /\ held' = TRUE
    /\ UNCHANGED files

\* All words asked: the result is good unless _last_result, which may be that of an
\* earlier run, says that a request timed out
WordsDone ==
    /\ Running({"directory_enumeration"}) /\ job.todo = <<>>
    /\ IF held THEN Ends("timeout", {}) ELSE Goes("completed")
    /\ UNCHANGED <<files, held, troubles>>

--------------------------------------------------------------------------------
(***************************************************************************)
(* http/endpoint.py: reads what a probe has stored, asks nobody.  Which of *)
(* several files with one final page it takes is not settled, and an empty *)
(* one is as good as any.                                                  *)
(***************************************************************************)
LinkFacts(page) ==
    LET near == {l \in Site[page].links : l[1] = page[1]}
    IN  ({"url", "end"} \X near) \cup ({"param"} \X (near \cap Site[page].params))

Endpoints ==
    /\ Running({"endpoint_discovery"})
    /\ LET stored == {f \in files : f[2] = job.on}
       IN  \/ (\E f \in stored : f[3]) /\ Ends("completed", LinkFacts(job.on))
           \/ (stored = {} \/ \E f \in stored : ~f[3]) /\ Ends("completed", {})
    /\ UNCHANGED <<files, held, troubles>>

--------------------------------------------------------------------------------
(***************************************************************************)
(* dns/adapter.py.  A name without addresses does not exist; an address is *)
(* asked for like a name, and does not exist either.                       *)
(***************************************************************************)
AddressesOf(h) == IF h \in Names THEN Zone[h] ELSE {}

\* evidence/parsers/dns.py: a name that resolves becomes an alias of its addresses
RecordFacts(zone, h) ==
    ({"host"} \X AddressesOf(h)) \cup {<<"alias", h>>, <<"records", zone>>, <<"domain", zone>>}

\* query_records: one query per record type, no more after a timeout or an NXDOMAIN.
\* Any other failure counts as an answer without values.
DnsQuery ==
    /\ Running({"dns_enumeration"}) /\ job.todo # <<>>
    /\ \/ AddressesOf(job.on) = {} /\ Goes("completed") /\ UNCHANGED troubles
       \/ /\ AddressesOf(job.on) # {}
          /\ job' = [job EXCEPT !.todo = Tail(@),
                                !.learned = IF Head(job.todo) = "A"
                                            THEN RecordFacts(job.on, job.on) ELSE @]
          /\ UNCHANGED troubles
       \/ Trouble /\ job' = [job EXCEPT !.todo = Tail(@)]
       \/ Trouble /\ LateEnd(IF job.learned = {} THEN "timeout" ELSE "completed", job.learned)
    /\ UNCHANGED <<files, held>>

\* SubdomainAdapter.run: the names of the word list in turn.  A timeout ends the list,
\* and is only reported if nothing was discovered before.
SubdomainQuery ==
    /\ Running({"subdomain_enumeration"}) /\ job.todo # <<>>
    /\ LET name == Head(job.todo)
           next(facts) == job' = [job EXCEPT !.todo = Tail(@), !.learned = @ \cup facts]
       IN  \/ /\ name \in scope /\ AddressesOf(name) # {}
              /\ next(RecordFacts(job.on, name) \cup {<<"sub", job.on>>})
              /\ UNCHANGED troubles
           \/ (name \notin scope \/ AddressesOf(name) = {}) /\ next({}) /\ UNCHANGED troubles
           \/ name \in scope /\ Trouble /\ next({})
           \/ /\ name \in scope /\ Trouble
              /\ LateEnd(IF job.learned = {} THEN "timeout" ELSE "completed", job.learned)
    /\ UNCHANGED <<files, held>>

NamesDone ==
    /\ Running({"dns_enumeration", "subdomain_enumeration"}) /\ job.todo = <<>>
    /\ Goes("completed")
    /\ UNCHANGED <<files, held, troubles>>

--------------------------------------------------------------------------------
(***************************************************************************)
(* nmap/adapter.py, nmap/process.py.  todo says whether the process is     *)
(* bound to an interface.                                                  *)
(***************************************************************************)
\* evidence/parsers/nmap_xml.py: a scan lists the open ports under the names of nmap's
\* table, an enumeration one port under the name of what speaks there
NamedFacts(ports, name) ==
    ({"port"} \X ports) \cup ({"named"} \X {p \in ports : name[p] # "unknown"})
    \cup ({"http"} \X {p \in ports : name[p] = "http"})
Scanned(h) == IF h \in Names THEN Zone[h] ELSE {h}
ScanFacts ==
    IF job.act = "port_scan"
    THEN LET at == Scanned(job.on)
         IN  ({"host"} \X at) \cup ({"alias"} \X ({job.on} \cap Names))
             \cup NamedFacts({p \in Open : p[1] \in at}, TableName)
    ELSE LET at == Scanned(job.on[1])
         IN  ({"host"} \X at) \cup ({"alias"} \X ({job.on[1]} \cap Names))
             \cup NamedFacts({p \in Open : p[1] \in at /\ p[2] = job.on[2]}, TrueName)

\* run, _status_for: the XML file is what counts; a host that does not answer the ping is
\* left out of it.  An error to bind the interface makes the adapter run it again unbound.
Scan ==
    /\ Running({"port_scan", "service_enumeration"})
    /\ \/ Ends("completed", ScanFacts) /\ UNCHANGED troubles
       \/ Trouble /\ \/ Ends("completed", {})
                     \/ LateEnd("timeout", {})
                     \/ \E result \in {"retry", "failed", "broken", "unavailable"} : Ends(result, {})
                     \/ job.todo = <<"bound">> /\ job' = [job EXCEPT !.todo = <<>>]
    /\ UNCHANGED <<files, held>>

Working == HttpAnswered \/ HttpFails \/ HttpRaises \/ Canary \/ Word \/ WordsDone \/ Endpoints
           \/ DnsQuery \/ SubdomainQuery \/ NamesDone \/ Scan
================================================================================
