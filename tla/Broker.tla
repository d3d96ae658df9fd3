-------------------------------- MODULE Broker --------------------------------
(***************************************************************************)
(* The egress broker of the reference sandbox (reference/broker/broker.py):*)
(* a threaded HTTP proxy that decides every request against an allowlist,  *)
(* appends the decision to requests.log and a denial to events.log as      *)
(* well, then drains the request body and answers.  Each connection has a  *)
(* handler thread; every _write is atomic, under _LOCK.                    *)
(*                                                                         *)
(* A client's bytes are a sequence of units: a request head or a request   *)
(* body.  Clients may pipeline, stall in the middle of a body or hang up.  *)
(* The allowlist file may be edited between requests or fail to be read,   *)
(* a write may fail, the process may die.  A request target is what the    *)
(* client composed around the name of a host; the broker sees the target.  *)
(***************************************************************************)
EXTENDS Integers, Sequences, SequencesExt

CONSTANTS Conns,        \* client connections
          Requests,     \* requests clients send, see Composed and Framings
          Schemes,      \* words that can be the scheme of a URL
          Allowlists,   \* contents the allowlist file can have: sets of entries
          MaxRequests,  \* bound: requests ever sent
          MaxMishaps    \* bound: edits of the allowlist file, failed reads and
                        \* writes of files and crashes, together

(* A text is a sequence of tokens: words (the labels of a name, a user, a  *)
(* port, in lower case, as both sides are lowered before they are          *)
(* compared) and punctuation.  Two words side by side have a dot between   *)
(* them; "/" stands for each of the characters that end an authority.      *)
Ends == {"://", "/"}
Brackets == {"[", "]"}
Punctuation == Ends \cup Brackets \cup {"@", ":"}
Words == STRING \ Punctuation
IsText(s) == s \in Seq(STRING)
IsName(s) == IsText(s) /\ \A i \in DOMAIN s : s[i] \in Words
FreeOf(s, tokens) == \A i \in DOMAIN s : s[i] \notin tokens

(* RFC 3986: [scheme "://"] [userinfo "@"] host [":" port] [path].         *)
Composed(r) ==
    /\ r.scheme = <<>> \/ \E s \in Schemes : r.scheme = <<s, "://">>
    /\ FreeOf(r.userinfo, Ends \cup Brackets)
    /\ r.userinfo = <<>> \/ Last(r.userinfo) = "@"
    /\ IsName(r.host)
    /\ FreeOf(r.port, Ends \cup Brackets \cup {"@"})
    /\ r.port = <<>> \/ r.port[1] = ":"
    /\ r.path = <<>> \/ (r.path[1] \in Ends /\ r.scheme # <<>>)

(* What the first framing header of each kind says, and whether more bytes *)
(* follow as body: a second header of that kind says so, or the transfer   *)
(* coding is one the broker does not look for.                             *)
Framings == [first : {"none", "sized", "untrusted"}, more : BOOLEAN]

ASSUME BrokerAssumption ==
    /\ MaxRequests \in Nat /\ MaxMishaps \in Nat
    /\ Schemes \subseteq Words
    /\ \A r \in Requests :
          /\ IsText(r.scheme) /\ IsText(r.userinfo) /\ IsText(r.host)
          /\ IsText(r.port) /\ IsText(r.path)
          /\ r.framing \in Framings
          /\ r.host # <<>> => Composed(r)     \* others name no host
    /\ \A entries \in Allowlists : \A e \in entries :
          IsName(e.labels) /\ e.labels # <<>> /\ e.wild \in BOOLEAN

Crossings == 1..MaxRequests
Nobody == 0

VARIABLES versions,   \* the allowlist file's contents so far; the last is there now
          sent,       \* history: the requests sent, in order; crossing n is sent[n]
          stream,     \* [conn -> units sent by the client and not yet read]
          owes,       \* [conn -> parts of a body announced and not sent]
          hungUp,     \* [conn -> the client has closed its side]
          pc,         \* [conn -> what its handler thread does next]
          current,    \* [conn -> the crossing its handler works on]
          decision,   \* [conn -> the decision taken on it]
          closing,    \* [conn -> close_connection]
          requests, events, answers,
          lost,       \* history: crossings whose handler a fault ended
          misread,    \* history: the parts of bodies parsed as a request line
          inForce,    \* history: [crossing -> the versions that were there between
                      \* the reading of its request line and its record]
          faults

logs == <<requests, events, answers>>
client == <<sent, stream, owes, hungUp>>
handler == <<pc, current, decision, closing>>
world == <<versions, faults>>
ghosts == <<misread, lost, inForce>>
vars == <<client, handler, logs, ghosts, world>>

Mishaps == Len(versions) - 1 + faults
Unit(kind, n) == [kind |-> kind, crossing |-> n]

-----------------------------------------------------------------------------
(* s up to its first token in tokens; s after its last such token.         *)
Until(s, tokens) ==
    LET stops == {i \in 1..Len(s) : s[i] \in tokens}
    IN  IF stops = {} THEN s ELSE SubSeq(s, 1, Min(stops) - 1)

AfterLast(s, token) ==
    LET stops == {i \in 1..Len(s) : s[i] = token}
    IN  IF stops = {} THEN s ELSE SubSeq(s, Max(stops) + 1, Len(s))

(* The request target as the client composes it.                           *)
Target(r) == r.scheme \o r.userinfo \o r.host \o r.port \o r.path

(* urlsplit(text).netloc: there is one only behind a scheme.               *)
NetLoc(text) ==
    LET scheme == Until(text, {"://"})
    IN  IF scheme # <<>> /\ \A i \in 1..Len(scheme) : scheme[i] \in Schemes
        THEN Until(SubSeq(text, Len(scheme) + 2, Len(text)), Ends) ELSE <<>>

IsURL(text) == \E i \in 1..Len(text) : text[i] = "://"

(* Faulty variant: the port is cut off before the userinfo.                *)
HostBeforeUserinfo(text) ==
    AfterLast(Until(IF IsURL(text) THEN NetLoc(text) ELSE text, {":"}), "@")

(* host_of: only what is behind the last @ is the authority's host.        *)
HostOf(text) ==
    LET netloc == IF IsURL(text) THEN NetLoc(text) ELSE text
        authority == AfterLast(netloc, "@")
        inside == Until(authority, {"]"})
        first == {i \in 1..Len(inside) : inside[i] # "["}
    IN  IF authority # <<>> /\ authority[1] = "["
        THEN IF first = {} THEN <<>> ELSE SubSeq(inside, Min(first), Len(inside))
        ELSE Until(authority, {":"})

(* urlsplit raises on a netloc with one bracket and not the other, and on  *)
(* most of what can stand between two.                                     *)
Refusable == {r \in Requests : IsURL(Target(r)) /\ ~FreeOf(NetLoc(Target(r)), Brackets)}
Unparsable == {r \in Refusable : \E b \in Brackets : FreeOf(NetLoc(Target(r)), {b})}

Dots(text) == Cardinality({i \in 1..Len(text) - 1 : text[i] \in Words /\ text[i + 1] \in Words})

(* One entry of decide: *.x matches by suffix and by the number of dots.   *)
Matches(host, entry) ==
    IF entry.wild
    THEN /\ IsSuffix(entry.labels, host) /\ Len(host) > Len(entry.labels)
         /\ host[Len(host) - Len(entry.labels)] \in Words
         /\ Dots(host) = Len(entry.labels)
    ELSE host = entry.labels

(* What _handle makes of the target of each request, and what decide makes *)
(* of that, since it applies host_of once more.                            *)
Named == [r \in Requests |-> HostOf(Target(r))]
Matched == [r \in Requests |-> HostOf(HostOf(Target(r)))]

Decide(request, entries) ==
    IF \E e \in entries : Matches(Matched[request], e) THEN "allow" ELSE "deny"

-----------------------------------------------------------------------------
(* Faulty variants of the definitions below; the checks show that each is  *)
(* caught.                                                                 *)

EndThreadsKeepingCrossing(K) ==
    /\ pc' = [k \in Conns |-> IF k \in K THEN "none" ELSE pc[k]]
    /\ stream' = [k \in Conns |-> IF k \in K THEN <<>> ELSE stream[k]]
    /\ UNCHANGED <<owes, hungUp, current, decision, closing>>

ReceivedEntirely(k) ==
    pc[k] = "parsed" /\ (sent[current[k]].framing.first = "sized" => stream[k] # <<>>)

NoEvent(d) == "draining"

ChunkedTakenAsEmpty(k) == sent[current[k]].framing.first # "sized" \/ stream[k] # <<>>

LoadedOnce == versions[1]

-----------------------------------------------------------------------------
Init ==
    /\ \E entries \in Allowlists : versions = <<entries>>
    /\ sent = <<>>
    /\ stream = [k \in Conns |-> <<>>]
    /\ owes = [k \in Conns |-> {}]
    /\ hungUp = [k \in Conns |-> FALSE]
    /\ pc = [k \in Conns |-> "none"]
    /\ current = [k \in Conns |-> Nobody]
    /\ decision = [k \in Conns |-> "deny"]
    /\ closing = [k \in Conns |-> FALSE]
    /\ requests = <<>> /\ events = <<>> /\ answers = {}
    /\ misread = {} /\ lost = {} /\ inForce = [n \in Crossings |-> {}]
    /\ faults = 0

(* ---- clients and the outside world ---- *)

(* A client connects: ThreadingTCPServer starts a handler thread.          *)
Connect(k) ==
    /\ pc[k] = "none"
    /\ pc' = [pc EXCEPT ![k] = "idle"]
    /\ stream' = [stream EXCEPT ![k] = <<>>]
    /\ owes' = [owes EXCEPT ![k] = {}]
    /\ hungUp' = [hungUp EXCEPT ![k] = FALSE]
    /\ UNCHANGED <<sent, current, decision, closing, logs, ghosts, world>>

(* What is announced of a body: what the first headers say, and the rest.  *)
Announced(framing) ==
    (IF framing.first = "none" THEN {} ELSE {"body"})
        \cup (IF framing.more THEN {"rest"} ELSE {})

SendHead(k) ==
    /\ pc[k] # "none" /\ ~hungUp[k] /\ owes[k] = {}
    /\ Len(sent) < MaxRequests
    /\ \E r \in Requests :
        /\ sent' = Append(sent, r)
        /\ owes' = [owes EXCEPT ![k] = Announced(r.framing)]
    /\ stream' = [stream EXCEPT ![k] = Append(@, Unit("head", Len(sent) + 1))]
    /\ UNCHANGED <<hungUp, handler, logs, ghosts, world>>

(* A body whose text is itself a request is the same bytes as a pipelined  *)
(* request, which SendHead covers.                                         *)
SendBody(k) ==
    /\ pc[k] # "none" /\ ~hungUp[k]
    /\ \E part \in owes[k] :
        /\ part = "rest" => "body" \notin owes[k]
        /\ owes' = [owes EXCEPT ![k] = @ \ {part}]
        /\ stream' = [stream EXCEPT ![k] = Append(@, Unit(part, Nobody))]
    /\ UNCHANGED <<sent, hungUp, handler, logs, ghosts, world>>

HangUp(k) ==
    /\ pc[k] # "none" /\ ~hungUp[k]
    /\ hungUp' = [hungUp EXCEPT ![k] = TRUE]
    /\ UNCHANGED <<sent, stream, owes, handler, logs, ghosts, world>>

(* The version decisions are taken on now: the file is read per request.   *)
allowlist == versions[Len(versions)]

(* A handler has read the request line of crossing n and not recorded it.  *)
BeingDecided(n) == \E k \in Conns : pc[k] \in {"parsed", "decided"} /\ current[k] = n

EditAllowlist ==
    /\ Mishaps < MaxMishaps
    /\ \E entries \in Allowlists \ {allowlist} : versions' = Append(versions, entries)
    /\ inForce' = [n \in Crossings |->
                     inForce[n] \cup {v \in {Len(versions) + 1} : BeingDecided(n)}]
    /\ UNCHANGED <<faults, client, handler, logs, misread, lost>>

(* ---- a handler thread ---- *)

(* The threads of the connections K end, and with them the connections.    *)
EndThreads(K) ==
    /\ pc' = [k \in Conns |-> IF k \in K THEN "none" ELSE pc[k]]
    /\ stream' = [k \in Conns |-> IF k \in K THEN <<>> ELSE stream[k]]
    /\ owes' = [k \in Conns |-> IF k \in K THEN {} ELSE owes[k]]
    /\ hungUp' = [k \in Conns |-> hungUp[k] /\ k \notin K]
    /\ current' = [k \in Conns |-> IF k \in K THEN Nobody ELSE current[k]]
    /\ decision' = [k \in Conns |-> IF k \in K THEN "deny" ELSE decision[k]]
    /\ closing' = [k \in Conns |-> closing[k] /\ k \notin K]

(* The next bytes are parsed as a request line; what is left of a body     *)
(* gets a 400 and ends the connection.                                     *)
ReadRequestLine(k) ==
    /\ pc[k] = "idle" /\ stream[k] # <<>>
    /\ LET unit == Head(stream[k])
       IN  IF unit.kind = "head"
           THEN /\ pc' = [pc EXCEPT ![k] = "parsed"]
                /\ current' = [current EXCEPT ![k] = unit.crossing]
                /\ stream' = [stream EXCEPT ![k] = Tail(@)]
                /\ inForce' = [inForce EXCEPT ![unit.crossing] = {Len(versions)}]
                /\ UNCHANGED <<owes, hungUp, decision, closing, misread>>
           ELSE misread' = misread \cup {unit.kind} /\ EndThreads({k}) /\ UNCHANGED inForce
    /\ UNCHANGED <<sent, logs, lost, world>>

EndOfStream(k) ==
    /\ pc[k] = "idle" /\ stream[k] = <<>> /\ hungUp[k]
    /\ EndThreads({k})
    /\ UNCHANGED <<sent, logs, ghosts, world>>

Received(k) == pc[k] = "parsed"

(* host_of, which raises on a target that urlsplit refuses, before         *)
(* anything is written; _load_allowlist and decide.                        *)
TakeDecision(k) ==
    /\ Received(k)
    /\ LET request == sent[current[k]]
       IN  \/ request \in Refusable /\ EndThreads({k})
           \/ /\ request \notin Unparsable
              /\ decision' = [decision EXCEPT ![k] = Decide(request, allowlist)]
              /\ pc' = [pc EXCEPT ![k] = "decided"]
              /\ UNCHANGED <<stream, owes, hungUp, current, closing>>
    /\ UNCHANGED <<sent, logs, ghosts, world>>

(* log_decision writes an event only for a denial.                         *)
AfterRequest(d) == IF d = "deny" THEN "alerting" ELSE "draining"

(* log_decision, first write.                                              *)
LogRequest(k) ==
    /\ pc[k] = "decided"
    /\ requests' = Append(requests, [crossing |-> current[k],
                                     host     |-> Named[sent[current[k]]],
                                     decision |-> decision[k]])
    /\ pc' = [pc EXCEPT ![k] = AfterRequest(decision[k])]
    /\ UNCHANGED <<client, current, decision, closing, events, answers, ghosts, world>>

(* log_decision, second write.                                             *)
LogEvent(k) ==
    /\ pc[k] = "alerting"
    /\ events' = Append(events, [crossing |-> current[k], host |-> Named[sent[current[k]]]])
    /\ pc' = [pc EXCEPT ![k] = "draining"]
    /\ UNCHANGED <<client, current, decision, closing, requests, answers, ghosts, world>>

(* The allowlist cannot be read, is no JSON or has another shape, or one   *)
(* of the writes raises: the handler dies before it drains or answers.     *)
FileFails(k) ==
    /\ pc[k] \in {"parsed", "decided", "alerting"} /\ Mishaps < MaxMishaps
    /\ pc[k] = "parsed" => sent[current[k]] \notin Unparsable
    /\ faults' = faults + 1
    /\ lost' = lost \cup {current[k]}
    /\ EndThreads({k})
    /\ UNCHANGED <<sent, logs, misread, inForce, versions>>

(* What _drain_body can read to its end by the first header of each kind:  *)
(* no body, or one of the announced length that has arrived.               *)
Drainable(k) ==
    \/ sent[current[k]].framing.first = "none"
    \/ sent[current[k]].framing.first = "sized" /\ stream[k] # <<>>

Drained(k) ==
    /\ pc[k] = "draining" /\ Drainable(k)
    /\ stream' = IF sent[current[k]].framing.first = "sized"
                 THEN [stream EXCEPT ![k] = Tail(@)] ELSE stream
    /\ pc' = [pc EXCEPT ![k] = "answering"]
    /\ UNCHANGED <<sent, owes, hungUp, current, decision, closing, logs, ghosts, world>>

(* _drain_body returns False: the framing cannot be trusted, or the stream *)
(* ended early.  Until then a client that stalls keeps the thread waiting. *)
CannotDrain(k) ==
    /\ pc[k] = "draining" /\ ~Drainable(k)
    /\ sent[current[k]].framing.first = "sized" => hungUp[k]
    /\ closing' = [closing EXCEPT ![k] = TRUE]
    /\ pc' = [pc EXCEPT ![k] = "answering"]
    /\ UNCHANGED <<client, current, decision, logs, ghosts, world>>

(* A client that hangs up by a reset makes the next read or write of its   *)
(* connection raise; the thread ends, with or without unread bytes.        *)
ConnectionReset(k) ==
    /\ pc[k] \in {"idle", "draining", "answering"} /\ hungUp[k]
    /\ EndThreads({k})
    /\ UNCHANGED <<sent, logs, ghosts, world>>

(* 403 or 502; then the next request of the connection, unless it must be  *)
(* closed or the client asked for that.                                    *)
Respond(k) ==
    /\ pc[k] = "answering"
    /\ answers' = answers \cup {[crossing |-> current[k], decision |-> decision[k]]}
    /\ \/ EndThreads({k})
       \/ /\ ~closing[k]
          /\ pc' = [pc EXCEPT ![k] = "idle"]
          /\ current' = [current EXCEPT ![k] = Nobody]
          /\ UNCHANGED <<stream, owes, hungUp, decision, closing>>
    /\ UNCHANGED <<sent, requests, events, ghosts, world>>

(* The process dies with all its daemon threads and is started again; the  *)
(* logs are opened for appending and keep their lines.                     *)
Crash ==
    /\ Mishaps < MaxMishaps
    /\ faults' = faults + 1
    /\ lost' = lost \cup ({current[k] : k \in Conns} \ {Nobody})
    /\ EndThreads(Conns)
    /\ UNCHANGED <<sent, logs, misread, inForce, versions>>

HandlerStep(k) ==
    \/ ReadRequestLine(k) \/ EndOfStream(k) \/ TakeDecision(k)
    \/ LogRequest(k) \/ LogEvent(k)
    \/ Drained(k) \/ CannotDrain(k) \/ ConnectionReset(k) \/ Respond(k)

ClientStep(k) == Connect(k) \/ SendHead(k) \/ SendBody(k) \/ HangUp(k)

Next ==
    \/ \E k \in Conns : HandlerStep(k) \/ ClientStep(k) \/ FileFails(k)
    \/ EditAllowlist
    \/ Crash

Fairness == \A k \in Conns : WF_vars(HandlerStep(k))

Spec == Init /\ [][Next]_vars
FairSpec == Spec /\ Fairness

-----------------------------------------------------------------------------
TypeOK ==
    /\ \A v \in DOMAIN versions : versions[v] \in Allowlists
    /\ Len(versions) >= 1 /\ faults \in Nat /\ Mishaps <= MaxMishaps
    /\ Len(sent) <= MaxRequests /\ \A n \in DOMAIN sent : sent[n] \in Requests
    /\ \A k \in Conns : \A i \in DOMAIN stream[k] :
          stream[k][i] \in [kind : {"head"}, crossing : DOMAIN sent]
                             \cup [kind : {"body", "rest"}, crossing : {Nobody}]
    /\ owes \in [Conns -> SUBSET {"body", "rest"}] /\ hungUp \in [Conns -> BOOLEAN]
    /\ closing \in [Conns -> BOOLEAN] /\ decision \in [Conns -> {"allow", "deny"}]
    /\ pc \in [Conns -> {"none", "idle", "parsed", "decided", "alerting", "draining", "answering"}]
    /\ \A k \in Conns : current[k] \in IF pc[k] \in {"none", "idle"} THEN {Nobody} ELSE DOMAIN sent
    /\ misread \subseteq {"body", "rest"} /\ lost \subseteq DOMAIN sent
    /\ inForce \in [Crossings -> SUBSET DOMAIN versions]

(* broker.py, _drain_body: the body that the first framing headers of a    *)
(* request announce is never parsed as the request line of the next, for   *)
(* then that request is in neither log, however the client pipelines,      *)
(* stalls, claims a length or hangs up.  Bytes that only a repeated header *)
(* announces are not drained: see README.                                  *)
NoBodyReadAsRequest == "body" \notin misread

(* The record agrees with itself across the two files, which two separate  *)
(* writes of concurrent threads fill: each crossing is in each log at most *)
(* once, every event is of a recorded denial of the same host, and an      *)
(* answered denial has its event (log_decision, _handle).                  *)
LogsAgree ==
    /\ \A i, j \in DOMAIN requests :
          requests[i].crossing = requests[j].crossing => i = j
    /\ \A i, j \in DOMAIN events : events[i].crossing = events[j].crossing => i = j
    /\ \A i \in DOMAIN events : \E j \in DOMAIN requests :
          requests[j] = [crossing |-> events[i].crossing, host |-> events[i].host,
                         decision |-> "deny"]
    /\ \A a \in answers : \E j \in DOMAIN requests :
          /\ requests[j].crossing = a.crossing /\ requests[j].decision = a.decision
          /\ a.decision = "deny" => \E i \in DOMAIN events : events[i].crossing = a.crossing

(* What an entry covers by decide's docstring: a wildcard, exactly one     *)
(* more label.                                                             *)
Covers(e, host) ==
    IF e.wild THEN (\E n \in DOMAIN host : n = 1) /\ Tail(host) = e.labels
    ELSE host = e.labels

(* broker.py:41-73, 168-170: a crossing to a named host recorded as        *)
(* allowed is covered by an entry of the allowlist as it was at some       *)
(* moment between its request line and its record, whatever userinfo, port *)
(* and path the client wrapped the name in.                                *)
AllowedIsListed ==
    \A i \in DOMAIN requests :
        LET n == requests[i].crossing
        IN  requests[i].decision = "allow" /\ sent[n].host # <<>> =>
                \E v \in inForce[n] : \E e \in versions[v] : Covers(e, sent[n].host)

(* The other direction: it is denied only under an allowlist of that time  *)
(* none of whose entries covers it; an alert on a host listed all along    *)
(* would be the broker's own.                                              *)
DeniedIsUnlisted ==
    \A i \in DOMAIN requests :
        LET n == requests[i].crossing
        IN  requests[i].decision = "deny" /\ sent[n].host # <<>> =>
                \E v \in inForce[n] : \A e \in versions[v] : ~Covers(e, sent[n].host)

(* broker.py, _handle: logged before drained.  A request the broker has    *)
(* received is in requests.log in the end even when its client stalls in   *)
(* the middle of the body, unless the allowlist file, a write or the       *)
(* process failed on it, or its target has brackets that urlsplit may      *)
(* refuse.                                                                 *)
EveryCrossingIsRecorded ==
    \A n \in Crossings :
        (\E k \in Conns : pc[k] # "none" /\ current[k] = n)
            ~> \/ \E i \in DOMAIN requests : requests[i].crossing = n
               \/ n \in lost
               \/ n \in DOMAIN sent /\ sent[n] \in Refusable

(* broker.py:117-125, of every request line that was read: "all of it      *)
(* reaches decide() and log_decision()", so a handler lets go of a         *)
(* crossing only when it is in requests.log or a fault ended its work.     *)
AllOfItIsLogged ==
    [][\A k \in Conns : current[k] # Nobody /\ current'[k] # current[k] =>
          \/ \E i \in DOMAIN requests' : requests'[i].crossing = current[k]
          \/ current[k] \in lost']_vars

(* The two log files and the answers, as the abstract ledger sees them.    *)
L == INSTANCE Ledger WITH
        requests <- [i \in DOMAIN requests |->
                        [crossing |-> requests[i].crossing, decision |-> requests[i].decision]],
        events   <- [i \in DOMAIN events |-> events[i].crossing]

(* Every step of the broker is a step of the ledger or leaves it alone.    *)
LedgerSpec == L!Spec
=============================================================================
