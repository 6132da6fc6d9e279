----------------------------- MODULE NodeProofs -----------------------------
(***************************************************************************)
(* What TLC checks of a node: two daemons and a command on one state       *)
(* directory, for any number of processes, named peers, failures and       *)
(* crashes; and the MCP server beside them, for any script of its host.    *)
(*                                                                         *)
(* One fact carries the first: a daemon past the lock holds it, so at most *)
(* one is past it, and what it read of the directory is still so when it   *)
(* writes.  That needs commands to stay away until there is an identity,   *)
(* for they take no lock: NoToolFirst.                                     *)
(***************************************************************************)
EXTENDS Startup, Mcp, SequenceTheorems, TLAPS

Outside == {"down", "lock"}

\* Where a daemon's host is up, and where its listener may be.
WithHost == {"token", "truncate", "write", "trust", "serve", "close"}
WithPort == {"key", "mint", "publish", "host", "unbind"} \cup WithHost

Held == \A d \in Daemons : step[d] \notin Outside => lock = d

HostsUp == \A d \in Daemons \cap hosts : step[d] \in WithHost

PortHeld == port \in Daemons => step[port] \in WithPort

\* A command runs only where there is an identity, and so never mints one.
ToolsLate ==
  \A t \in Tools : /\ step[t] # "down" => key # Absent
                   /\ step[t] \in {"down", "key", "host", "serve", "close"}

\* Whoever mints an identity still finds none.
Fresh == \A p \in Processes :
  /\ step[p] \in {"mint", "publish"} => key = Absent
  /\ step[p] = "publish" => staged[p] \in Secrets

KnowsItself ==
  /\ \A p \in Processes : step[p] = "host" => key \in Secrets /\ ident[p] = key
  /\ used \subseteq Secrets

TokenSettled ==
  \A d \in Daemons : step[d] \in {"trust", "serve"} =>
    tok[d] # Empty /\ (d \notin Explicit => tok[d] = token)

\* Unless a file was misread, a token is replaced only if nobody can have read it.
TokenKept ==
  ~misread => /\ known # Empty => token = known
              /\ \A d \in Daemons : step[d] \in {"truncate", "write"} => token = Empty

Directory ==
  /\ TypeOK /\ Held /\ HostsUp /\ PortHeld /\ ToolsLate /\ Fresh /\ KnowsItself
  /\ IdentityLasts /\ TokenSettled /\ TokenKept /\ RefusedByStrangers

NoToolFirst == ~ToolsFirst

-----------------------------------------------------------------------------
(* Types *)

\* Every action keeps the types, whoever runs first.
LEMMA TypesKept == TypeOK /\ [Next]_vars => TypeOK'
<1> SUFFICES ASSUME TypeOK, [Next]_vars PROVE TypeOK'
  OBVIOUS
<1> USE StartupAssumption DEF TypeOK, Goto, Bail, Fault, Mint, Steps, Secrets, Absent, Damaged, Empty, Passed,
        Processes, files, dialing, bounds, history
<1>1. ASSUME NEW p \in Processes, Start(p) \/ IdentityFails(p) \/ Stop(p) \/ Crash(p)
      PROVE  TypeOK'
  <2>1. CASE Start(p)
    BY <2>1 DEF Start
  <2>2. CASE IdentityFails(p)
    BY <2>2 DEF IdentityFails
  <2>3. CASE Stop(p)
    BY <2>3 DEF Stop, NoMoreDialing
  <2>4. CASE Crash(p)
    BY <2>4 DEF Crash, NoMoreDialing
  <2>5. QED
    BY <1>1, <2>1, <2>2, <2>3, <2>4
<1>2. ASSUME NEW p \in Processes, Identify(p) \/ CloseHost(p)
      PROVE  TypeOK'
  <2>1. CASE ReadKey(p)
    BY <2>1 DEF ReadKey
  <2>2. CASE MintKey(p)
    BY <2>2 DEF MintKey
  <2>3. CASE PublishKey(p)
    BY <2>3 DEF PublishKey
  <2>4. CASE OpenHost(p)
    <3>1. ident[p] \in Secrets \cup {Absent}
      OBVIOUS
    <3>2. used' \subseteq Secrets \cup {Absent} /\ hosts' \subseteq Processes
      BY <2>4, <3>1 DEF OpenHost
    <3>3. step' \in [Processes -> Steps]
      BY <2>4 DEF OpenHost
    <3>4. QED
      BY <2>4, <3>2, <3>3 DEF OpenHost
  <2>5. CASE CloseHost(p)
    BY <2>5 DEF CloseHost
  <2>6. QED
    BY <1>2, <2>1, <2>2, <2>3, <2>4, <2>5 DEF Identify
<1>3. ASSUME NEW d \in Daemons, TakeLock(d) \/ Bind(d) \/ Unbind(d) \/ Unlock(d)
      PROVE  TypeOK'
  <2>1. CASE TakeLock(d)
    BY <2>1 DEF TakeLock
  <2>2. CASE Bind(d)
    BY <2>2 DEF Bind
  <2>3. CASE Unbind(d)
    BY <2>3 DEF Unbind
  <2>4. CASE Unlock(d)
    BY <2>4 DEF Unlock, NoMoreDialing
  <2>5. QED
    BY <1>3, <2>1, <2>2, <2>3, <2>4
<1>4. ASSUME NEW d \in Daemons, ReadToken(d) \/ TruncateToken(d) \/ WriteToken(d) \/ MisreadToken(d) \/ StateFails(d)
      PROVE  TypeOK'
  <2>1. CASE ReadToken(d)
    BY <2>1 DEF ReadToken
  <2>2. CASE TruncateToken(d)
    BY <2>2 DEF TruncateToken
  <2>3. CASE WriteToken(d)
    BY <2>3 DEF WriteToken
  <2>4. CASE MisreadToken(d)
    BY <2>4 DEF MisreadToken
  <2>5. CASE StateFails(d)
    BY <2>5 DEF StateFails
  <2>6. QED
    BY <1>4, <2>1, <2>2, <2>3, <2>4, <2>5
<1>5. ASSUME NEW d \in Daemons, Serve(d) \/ ServeFails(d) \/ Dialing(d)
      PROVE  TypeOK'
  <2>1. Static[d] \subseteq Peers
    BY DEF Peers
  <2>2. CASE Serve(d)
    BY <2>1, <2>2 DEF Serve
  <2>3. CASE ServeFails(d)
    BY <2>3 DEF ServeFails
  <2>4. CASE Dial(d)
    BY <2>4 DEF Dial
  <2>5. CASE NextRound(d)
    BY <2>5 DEF NextRound
  <2>6. QED
    BY <1>5, <2>2, <2>3, <2>4, <2>5 DEF Dialing
<1>6. CASE \E q \in Peers : PeerComes(q) \/ PeerGoes(q)
  BY ZenonT(40), <1>6 DEF PeerComes, PeerGoes
<1>7. CASE ReadsToken \/ StrangerLeaves
  BY ZenonT(40), <1>7 DEF ReadsToken, StrangerLeaves
<1>8. CASE UNCHANGED vars
  BY <1>8 DEF vars
<1> HIDE DEF TypeOK, Goto, Bail, Fault, Mint, Steps, Secrets, Absent, Damaged, Empty, Passed
<1>9. QED
  BY <1>1, <1>2, <1>3, <1>4, <1>5, <1>6, <1>7, <1>8 DEF Next, Progress, Leave, Identify

\* The directory is in order before anything was started.
LEMMA TypesAtFirst == Init => TypeOK
<1> SUFFICES ASSUME Init PROVE TypeOK
  OBVIOUS
<1>1. 0 \in 0..MaxMints /\ 0 \in 0..MaxFaults
  BY StartupAssumption
<1>2. /\ step \in [Processes -> Steps]
      /\ staged \in [Processes -> Secrets \cup {Absent}]
      /\ ident \in [Processes -> Secrets \cup {Absent}]
  BY DEF Init, Steps
<1>3. /\ tok \in [Daemons -> Secrets \cup {Empty, Passed}]
      /\ refusedBy \in [Daemons -> Daemons \cup {Nobody, Stranger}]
  BY DEF Init
<1>4. /\ todo \in [Daemons -> SUBSET Peers] /\ pending \in [Daemons -> SUBSET Peers]
      /\ \A d \in Daemons : todo[d] \subseteq pending[d] /\ pending[d] \subseteq Static[d]
  BY DEF Init
<1>5. QED
  BY <1>1, <1>2, <1>3, <1>4 DEF Init, TypeOK

\* The state of a directory is well typed, whoever comes and goes.
THEOREM TypeCorrect == Spec => []TypeOK
BY TypesAtFirst, TypesKept, PTL DEF Spec

-----------------------------------------------------------------------------
(* The directory *)

\* The directory stays in order under every step.
LEMMA DirectoryKept == NoToolFirst /\ Directory /\ [Next]_vars => Directory'
<1> SUFFICES ASSUME NoToolFirst, Directory, [Next]_vars PROVE Directory'
  OBVIOUS
<1>0. TypeOK /\ TypeOK'
  BY TypesKept DEF Directory
<1>a. Absent \notin Secrets /\ Empty \notin Secrets /\ Passed # Empty /\ Absent # Damaged
  BY DEF Absent, Empty, Passed, Damaged, Secrets
<1>b. Mint => minted' \in Secrets
  BY <1>0, StartupAssumption DEF Mint, Secrets, TypeOK
<1> USE StartupAssumption, <1>0 DEF Goto, Bail, Processes, Outside, WithHost, WithPort, files, dialing, bounds, history,
        Directory, TypeOK, Held, HostsUp, PortHeld, ToolsLate, Fresh, KnowsItself, IdentityLasts, TokenSettled,
        TokenKept, RefusedByStrangers, NoMoreDialing
<1>1. ASSUME NEW p \in Processes, Start(p)
      PROVE  Directory'
  BY <1>1 DEF Start, NoToolFirst
<1>2. ASSUME NEW p \in Processes, IdentityFails(p)
      PROVE  Directory'
  BY <1>2 DEF IdentityFails
<1>3. ASSUME NEW p \in Processes, Stop(p)
      PROVE  Directory'
  BY <1>3 DEF Stop
<1>4. ASSUME NEW p \in Processes, Crash(p)
      PROVE  Directory'
  BY <1>4 DEF Crash
<1>5. ASSUME NEW d \in Daemons, TakeLock(d)
      PROVE  Directory'
  BY <1>5 DEF TakeLock
<1>6. ASSUME NEW d \in Daemons, Bind(d)
      PROVE  Directory'
  BY <1>6 DEF Bind
<1>7. ASSUME NEW p \in Processes, ReadKey(p)
      PROVE  Directory'
  BY <1>7 DEF ReadKey
<1>8. ASSUME NEW p \in Processes, MintKey(p)
      PROVE  Directory'
  BY <1>8, <1>b DEF MintKey
<1>9. ASSUME NEW p \in Processes, PublishKey(p)
      PROVE  Directory'
  <2>1. p \in Daemons /\ lock = p /\ key = Absent /\ staged[p] \in Secrets
    BY <1>9 DEF PublishKey
  <2>2. used = {} /\ \A t \in Tools : step[t] = "down"
    BY <2>1, <1>a
  <2>3. \A d \in Daemons : d # p => step[d] \in Outside
    BY <2>1
  <2>4. key' \in Secrets /\ used' = {}
    BY <1>9, <2>1, <2>2 DEF PublishKey
  <2>5. Held' /\ HostsUp' /\ PortHeld' /\ ToolsLate' /\ IdentityLasts' /\ RefusedByStrangers'
    BY <1>9, <1>a, <2>1, <2>2, <2>3, <2>4 DEF PublishKey
  <2>6. Fresh' /\ KnowsItself'
    BY <1>9, <2>1, <2>2, <2>3, <2>4 DEF PublishKey
  <2>7. TokenSettled' /\ TokenKept'
    BY <1>9, <2>1 DEF PublishKey
  <2>8. QED
    BY <2>5, <2>6, <2>7
<1>10. ASSUME NEW p \in Processes, OpenHost(p)
      PROVE  Directory'
  BY <1>10 DEF OpenHost
<1>11. ASSUME NEW d \in Daemons, ReadToken(d)
      PROVE  Directory'
  BY <1>11, <1>a DEF ReadToken
<1>12. ASSUME NEW d \in Daemons, MisreadToken(d)
      PROVE  Directory'
  BY <1>12 DEF MisreadToken
<1>13. ASSUME NEW d \in Daemons, TruncateToken(d)
      PROVE  Directory'
  BY <1>13 DEF TruncateToken
<1>14. ASSUME NEW d \in Daemons, WriteToken(d)
      PROVE  Directory'
  BY <1>14, <1>a, <1>b DEF WriteToken
<1>15. ASSUME NEW d \in Daemons, StateFails(d)
      PROVE  Directory'
  BY <1>15 DEF StateFails
<1>16. ASSUME NEW d \in Daemons, Serve(d)
      PROVE  Directory'
  BY <1>16 DEF Serve
<1>17. ASSUME NEW d \in Daemons, ServeFails(d)
      PROVE  Directory'
  BY <1>17 DEF ServeFails
<1>18. ASSUME NEW p \in Processes, CloseHost(p)
      PROVE  Directory'
  BY <1>18 DEF CloseHost
<1>19. ASSUME NEW d \in Daemons, Unbind(d)
      PROVE  Directory'
  BY <1>19 DEF Unbind
<1>20. ASSUME NEW d \in Daemons, Unlock(d)
      PROVE  Directory'
  BY <1>20 DEF Unlock
<1>21. ASSUME NEW d \in Daemons, Dialing(d)
      PROVE  Directory'
  BY <1>21 DEF Dialing, Dial, NextRound
<1>22. CASE \E q \in Peers : PeerComes(q) \/ PeerGoes(q)
  BY <1>22 DEF PeerComes, PeerGoes
<1>23. CASE ReadsToken
  BY <1>23 DEF ReadsToken
<1>24. CASE StrangerLeaves
  BY <1>24 DEF StrangerLeaves
<1>25. CASE UNCHANGED vars
  BY <1>25 DEF vars
<1> HIDE DEF Goto, Bail, Outside, WithHost, WithPort, files, dialing, bounds, history,
        Directory, TypeOK, Held, HostsUp, PortHeld, ToolsLate, Fresh, KnowsItself, IdentityLasts, TokenSettled,
        TokenKept, RefusedByStrangers, NoMoreDialing
<1>26. QED
  BY <1>1, <1>2, <1>3, <1>4, <1>5, <1>6, <1>7, <1>8, <1>9, <1>10, <1>11, <1>12, <1>13, <1>14, <1>15, <1>16,
     <1>17, <1>18, <1>19, <1>20, <1>21, <1>22, <1>23, <1>24, <1>25
  DEF Next, Progress, Identify, Leave

\* The directory is in order in every reachable state.
LEMMA DirectoryAlways == NoToolFirst /\ Spec => []Directory
<1>1. Init => Directory
  <2>1. Init => TypeOK
    BY TypesAtFirst
  <2>2. QED
    BY <2>1, StartupAssumption
       DEF Init, Directory, Held, HostsUp, PortHeld, ToolsLate, Fresh, KnowsItself, IdentityLasts, TokenSettled,
           TokenKept, RefusedByStrangers, Outside, Processes
<1>2. NoToolFirst /\ Directory /\ [Next]_vars => Directory'
  BY DirectoryKept
<1>3. NoToolFirst => NoToolFirst'
  BY DEF NoToolFirst
<1>4. QED
  BY <1>1, <1>2, <1>3, PTL DEF Spec

\* Every host that ever ran on the directory ran with the key in its file.
THEOREM OneIdentity == NoToolFirst /\ Spec => []IdentityLasts
BY DirectoryAlways, PTL DEF Directory

\* A damaged identity stays, and a sound one is never damaged.
THEOREM DamagedStays == NoToolFirst /\ Spec => DamageIsKept
<1>1. Directory /\ [Next]_vars => [key = Damaged <=> key' = Damaged]_key
  <2>1. ASSUME NEW p \in Processes, PublishKey(p), Directory PROVE key # Damaged /\ key' # Damaged
    BY <2>1 DEF Directory, Fresh, PublishKey, Absent, Damaged, Secrets
  <2>2. ASSUME [Next]_vars, \A p \in Processes : ~PublishKey(p) PROVE key' = key
    <3>1. ASSUME NEW p \in Processes,
                 Start(p) \/ IdentityFails(p) \/ Stop(p) \/ Crash(p) \/ CloseHost(p)
                 \/ ReadKey(p) \/ MintKey(p) \/ OpenHost(p)
          PROVE  key' = key
      BY <3>1 DEF Start, IdentityFails, Stop, Crash, CloseHost, ReadKey, MintKey, OpenHost, files
    <3>2. ASSUME NEW d \in Daemons,
                 TakeLock(d) \/ Bind(d) \/ Unbind(d) \/ Unlock(d) \/ ReadToken(d) \/ TruncateToken(d)
                 \/ WriteToken(d) \/ MisreadToken(d) \/ StateFails(d) \/ Serve(d) \/ ServeFails(d) \/ Dialing(d)
          PROVE  key' = key
      BY <3>2 DEF TakeLock, Bind, Unbind, Unlock, ReadToken, TruncateToken, WriteToken, MisreadToken,
                  StateFails, Serve, ServeFails, Dialing, Dial, NextRound, files
    <3>3. CASE (\E q \in Peers : PeerComes(q) \/ PeerGoes(q)) \/ ReadsToken \/ StrangerLeaves \/ UNCHANGED vars
      BY <3>3 DEF PeerComes, PeerGoes, ReadsToken, StrangerLeaves, files, vars
    <3>4. QED
      BY <2>2, <3>1, <3>2, <3>3 DEF Next, Progress, Identify, Leave, Processes
  <2>3. QED
    BY <2>1, <2>2
<1>2. QED
  BY <1>1, DirectoryAlways, PTL DEF Spec, DamageIsKept

\* No two daemons run a host of the directory, let alone of one identity.
THEOREM OneHost == NoToolFirst /\ Spec => []NoTwins
<1>1. Directory => NoTwins
  BY DEF Directory, NoTwins, HostsUp, Held, WithHost, Outside
<1>2. QED
  BY <1>1, DirectoryAlways, PTL

\* A daemon that serves requires the token that clients find in the file.
THEOREM TokenServed == NoToolFirst /\ Spec => []TokenIsStored
<1>1. Directory => TokenIsStored
  BY DEF Directory, TokenIsStored, TokenSettled
<1>2. QED
  BY <1>1, DirectoryAlways, PTL

\* A token that was read stays good, unless a start could not read the file.
THEOREM TokenStaysGood == NoToolFirst /\ Spec => []TokenLasts
<1>1. Directory => TokenLasts
  BY DEF Directory, TokenLasts, TokenSettled, TokenKept
<1>2. QED
  BY <1>1, DirectoryAlways, PTL

\* Clients that look in the file, now or before a restart, are let in.
THEOREM TokensAreKept == NoToolFirst /\ Spec => []TokensHold
BY TokenServed, TokenStaysGood, PTL DEF TokensHold

\* The address of a daemon is never in the way of another daemon of its directory.
THEOREM OnlyStrangersRefuse == NoToolFirst /\ Spec => []RefusedByStrangers
BY DirectoryAlways, PTL DEF Directory

-----------------------------------------------------------------------------
(* The MCP server. *)

\* Serve is never more than one line behind the goroutine that reads for it.
InStep ==
  /\ reader = "sending" => read = taken + 1
  /\ reader \in {"reading", "failing"} => read = taken
  /\ taken <= read /\ read <= written

\* What Serve is at is a line it did not skip, and what it asks or answers is a request.
AtRequest ==
  /\ \A i \in 1..read : script[i] # "long"
  /\ serve \in {"decide", "asking", "answering"} => taken >= 1 /\ script[taken] # "skipped"
  /\ serve \in {"asking", "answering"} => Answerable(taken)

\* The types, of scripts and answers as sequences.
McpTypes ==
  /\ script \in Scripts /\ script \in Seq(Kinds) /\ written \in 0..Len(script)
  /\ read \in Nat /\ taken \in Nat
  /\ closed \in {"no", "host", "serve"} /\ cancelled \in BOOLEAN /\ wakes \in BOOLEAN
  /\ reader \in {"reading", "sending", "failing", "ended"}
  /\ serve \in {"select", "decide", "asking", "answering"} \cup Returned
  /\ reply \in {"done", "cut", "late", "failed"}
  /\ out \in Seq(Answer)

\* A request that was carried out, or may have been, is answered for what became of it.
ReportedTrue ==
  /\ serve = "answering" /\ script[taken] # "local" /\ reply = "done" => taken \in acted
  /\ acted \subseteq Answered \cup (IF serve = "answering" THEN {taken} ELSE {})
  /\ \A k \in DOMAIN out : out[k].ok /\ script[out[k].id] = "call" => out[k].id \in acted

\* The bridge between the host and the daemon.
Bridge == McpTypes /\ InStep /\ AtRequest /\ AnswersInOrder /\ ReportedTrue

\* A session begins with nothing read and nothing answered.
LEMMA BridgeInit == McpInit => Bridge
<1> SUFFICES ASSUME McpInit PROVE Bridge
  OBVIOUS
<1>1. script \in Scripts /\ script \in Seq(Kinds)
  BY ScriptsAssumption DEF McpInit
<1>2. out = <<>> /\ DOMAIN out = {}
  BY DEF McpInit
<1>3. McpTypes
  <2>1. out \in Seq(Answer)
    BY <1>2
  <2>2. cancelled \in BOOLEAN /\ wakes \in BOOLEAN
    BY DEF McpInit
  <2>3. written \in 0..Len(script)
    BY <1>1 DEF McpInit
  <2>4. read \in Nat /\ taken \in Nat /\ closed = "no" /\ reader = "reading"
        /\ serve = "select" /\ reply = "done"
    BY DEF McpInit
  <2> QED
    BY <1>1, <2>1, <2>2, <2>3, <2>4 DEF McpTypes
<1>4. InStep
  BY DEF McpInit, InStep
<1>5. AtRequest
  BY DEF McpInit, AtRequest
<1>6. Answered = {} /\ Due = {} /\ acted = {} /\ serve = "select"
  BY <1>2 DEF McpInit, Answered, Due
<1>7. AnswersInOrder /\ ReportedTrue
  BY <1>2, <1>6 DEF AnswersInOrder, ReportedTrue
<1>8. QED
  BY <1>3, <1>4, <1>5, <1>7 DEF Bridge

\* What neither takes a line nor answers one leaves the answers as they are.
LEMMA AnswersKeep ==
  ASSUME Bridge, UNCHANGED <<script, taken, out>>, Pending' = Pending,
         serve = "cancelled" => serve' = "cancelled"
  PROVE  AnswersInOrder'
<1>1. Due' = Due /\ Answered' = Answered
  BY DEF Due, Answered, Answerable
<1>2. QED
  BY <1>1 DEF Bridge, AnswersInOrder

\* The host writes a line, or closes its end, and takes nothing back.
LEMMA HostKeeps == ASSUME Bridge, Host PROVE Bridge'
<1>1. UNCHANGED <<script, wakes, reader, read, serve, taken, reply, acted, out>>
      /\ written' \in 0..Len(script) /\ written' >= written
      /\ closed' \in {"no", "host", "serve"} /\ cancelled' \in BOOLEAN
  <2>1. Len(script) \in Nat /\ written \in 0..Len(script) /\ closed \in {"no", "host", "serve"} /\ cancelled \in BOOLEAN
    BY DEF Bridge, McpTypes
  <2>2. CASE HostWrites BY <2>1, <2>2 DEF HostWrites
  <2>3. CASE HostCloses BY <2>1, <2>3 DEF HostCloses, host
  <2>4. CASE HostCancels BY <2>1, <2>4 DEF HostCancels
  <2> QED BY <2>2, <2>3, <2>4 DEF Host
<1>2. Pending' = Pending /\ Answered' = Answered
  BY <1>1 DEF Pending, Answered
<1>3. AnswersInOrder'
  BY <1>1, <1>2, AnswersKeep
<1>4. McpTypes' /\ InStep'
  BY <1>1 DEF Bridge, McpTypes, InStep
<1>7. AtRequest'
  BY <1>1 DEF Bridge, AtRequest, Answerable
<1>5. ReportedTrue'
  BY <1>1, <1>2 DEF Bridge, ReportedTrue
<1>6. QED
  BY <1>3, <1>4, <1>5, <1>7 DEF Bridge

\* The goroutine that reads is at most one line ahead.
LEMMA ReaderKeeps == ASSUME Bridge, Reader PROVE Bridge'
<1>1. /\ UNCHANGED <<script, wakes, written, cancelled, closed, serve, taken, reply, acted, out>>
      /\ \/ reader = "reading" /\ reader' = "sending" /\ read' = read + 1
            /\ read < written /\ script[read + 1] # "long"
         \/ read' = read /\ reader' = "ended"
         \/ read' = read /\ reader = "reading" /\ reader' = "failing"
  BY DEF Reader, Scan, Abandon, ReaderGoes, host
<1>2. Pending' = Pending /\ Answered' = Answered
  BY <1>1 DEF Pending, Answered
<1>3. AnswersInOrder'
  BY <1>1, <1>2, AnswersKeep
<1>4. McpTypes' /\ InStep'
  BY <1>1 DEF Bridge, McpTypes, InStep, Returned
<1>5. AtRequest'
  BY <1>1 DEF Bridge, AtRequest, Answerable, McpTypes
<1>6. ReportedTrue'
  BY <1>1, <1>2 DEF Bridge, ReportedTrue
<1>7. QED
  BY <1>3, <1>4, <1>5, <1>6 DEF Bridge

\* Serve returns, with or without the line it is at.
LEMMA ReturnKeeps ==
  ASSUME Bridge, UNCHANGED <<script, wakes, written, read, taken, reply, acted, out, cancelled>>,
         closed' \in {"no", "host", "serve"}, reader' \in {reader, "ended"},
         serve' \in Returned,
         serve = "select" \/ (serve = "decide" /\ serve' = "cancelled")
  PROVE  Bridge'
<1>1. Pending' = {} /\ Answered' = Answered
  BY DEF Pending, Answered, Returned
<1>2. Due' = {i \in 1..taken : Answerable(i)}
  BY <1>1 DEF Due, Answerable
<1>3. Due' = IF serve = "decide" /\ Answerable(taken) THEN Due \cup {taken} ELSE Due
  BY <1>2 DEF Due, Pending, Bridge, AtRequest, McpTypes
<1>4. AnswersInOrder'
  BY <1>1, <1>3 DEF Bridge, AnswersInOrder
<1>5. McpTypes' /\ InStep' /\ AtRequest'
  BY DEF Bridge, McpTypes, InStep, AtRequest, Returned
<1>6. ReportedTrue'
  BY <1>1 DEF Bridge, ReportedTrue, Returned
<1>7. QED
  BY <1>4, <1>5, <1>6 DEF Bridge

\* Serve takes the line that was read next.
LEMMA SelectLineKeeps == ASSUME Bridge, SelectLine PROVE Bridge'
<1>1. /\ UNCHANGED <<script, wakes, written, cancelled, closed, read, reply, acted, out>>
      /\ serve = "select" /\ reader = "sending" /\ reader' = "reading"
      /\ taken' = taken + 1 /\ taken' = read
      /\ serve' = IF script[read] = "skipped" THEN "select" ELSE "decide"
  BY DEF SelectLine, host, Bridge, InStep
<1>2. McpTypes' /\ InStep' /\ AtRequest'
  BY <1>1 DEF Bridge, McpTypes, InStep, AtRequest, Returned
<1>3. Answered' = Answered /\ Pending = {} /\ Pending' = IF script[taken'] = "skipped" THEN {} ELSE {taken'}
  BY <1>1 DEF Answered, Pending
<1>4. Due' = Due
  BY <1>1, <1>3 DEF Due, Answerable, Bridge, McpTypes
<1>5. AnswersInOrder'
  BY <1>1, <1>3, <1>4 DEF Bridge, AnswersInOrder
<1>6. ReportedTrue'
  BY <1>1, <1>3 DEF Bridge, ReportedTrue
<1>7. QED
  BY <1>2, <1>5, <1>6 DEF Bridge

\* A line is skipped, answered here or asked of the daemon.
LEMMA HandlesKeeps == ASSUME Bridge, serve = "decide", Handles PROVE Bridge'
<1>1. /\ UNCHANGED <<script, wakes, written, cancelled, closed, reader, read, taken, acted, out>>
      /\ reply' = "done"
      /\ serve' = CASE script[taken] = "notification" -> "select"
                    [] script[taken] = "local" -> "answering"
                    [] OTHER -> "asking"
  BY DEF Handles, host
<1>2. taken \in 1..Len(script) /\ taken <= read /\ script[taken] \in Kinds
      /\ script[taken] \notin {"skipped", "long"}
  BY DEF Bridge, AtRequest, InStep, McpTypes
<1>3. McpTypes' /\ InStep'
  BY <1>1 DEF Bridge, McpTypes, InStep
<1>4. AtRequest'
  BY <1>1, <1>2 DEF Bridge, AtRequest, Answerable, Kinds
<1>5. /\ Answered' = Answered
      /\ Pending = {taken}
      /\ Pending' = IF script[taken] = "notification" THEN {} ELSE {taken}
  BY <1>1, <1>2 DEF Answered, Pending
<1>6. Due' = Due
  BY <1>1, <1>5 DEF Due, Answerable
<1>7. AnswersInOrder'
  BY <1>1, <1>5, <1>6 DEF Bridge, AnswersInOrder
<1>8. ReportedTrue'
  BY <1>1, <1>5 DEF Bridge, ReportedTrue
<1>9. QED
  BY <1>3, <1>4, <1>7, <1>8 DEF Bridge

\* What the daemon carries out is what Serve is about to answer for.
LEMMA AskKeeps == ASSUME Bridge, Ask PROVE Bridge'
<1>1. /\ UNCHANGED <<script, wakes, written, cancelled, closed, reader, read, taken, out>>
      /\ serve = "asking" /\ serve' = "answering"
      /\ reply' \in {"done", "cut", "late", "failed"}
      /\ acted' \in {acted, acted \cup {taken}}
      /\ reply' = "done" => acted' = acted \cup {taken}
  BY DEF Ask, RoundTrip, host
<1>2. Pending' = Pending /\ Answered' = Answered
  BY <1>1 DEF Pending, Answered
<1>3. AnswersInOrder'
  BY <1>1, <1>2, AnswersKeep
<1>4. McpTypes' /\ InStep'
  BY <1>1 DEF Bridge, McpTypes, InStep
<1>5. AtRequest'
  BY <1>1 DEF Bridge, AtRequest, Answerable
<1>6. ReportedTrue'
  BY <1>1, <1>2 DEF Bridge, ReportedTrue
<1>7. QED
  BY <1>3, <1>4, <1>5, <1>6 DEF Bridge

\* An answer is appended for the line it is about.
LEMMA RespondKeeps == ASSUME Bridge, Respond PROVE Bridge'
<1> DEFINE a == [id |-> taken, ok |-> Succeeds]
<1>1. /\ UNCHANGED <<script, wakes, written, cancelled, closed, reader, read, taken, reply, acted>>
      /\ serve = "answering" /\ serve' = "select"
      /\ out' = Append(out, a)
  BY DEF Respond, host
<1>2. a \in Answer /\ out \in Seq(Answer) /\ taken \in 1..taken
  BY <1>1 DEF Answer, Bridge, McpTypes, Succeeds, AtRequest
<1>3. /\ out' \in Seq(Answer) /\ DOMAIN out' = 1..Len(out) + 1 /\ DOMAIN out = 1..Len(out) /\ Len(out) \in Nat
      /\ \A k \in 1..Len(out) : out'[k] = out[k]
      /\ out'[Len(out) + 1] = a
  BY <1>1, <1>2
<1> HIDE DEF a
<1>4. a.id = taken /\ a.ok = Succeeds
  BY DEF a
<1>5. Answered' = Answered \cup {taken}
  BY <1>3, <1>4 DEF Answered
<1>6. Pending = {taken} /\ Pending' = {}
  BY <1>1 DEF Pending
<1>7. Due' = Due \cup {taken} /\ Due \subseteq 1..taken /\ taken \notin Due
  BY <1>1, <1>2, <1>6 DEF Due, Answerable, Bridge, AtRequest
<1> taken \in Nat
  BY DEF Bridge, McpTypes
<1>8. \A k \in DOMAIN out : out[k].id < taken
  <2>1. \A k \in DOMAIN out : out[k].id \in Due
    BY DEF Bridge, AnswersInOrder, Answered
  <2> QED
    <3>1. \A i \in Due : i < taken
      BY <1>7
    <3> QED
      BY <2>1, <3>1
<1>9. \A j, k \in DOMAIN out' : j < k => out'[j].id < out'[k].id
  BY <1>3, <1>4, <1>8 DEF Bridge, AnswersInOrder
<1>10. AnswersInOrder'
  BY <1>1, <1>5, <1>7, <1>9 DEF Bridge, AnswersInOrder
<1>11. McpTypes' /\ InStep'
  BY <1>1, <1>3 DEF Bridge, McpTypes, InStep
<1>12. AtRequest'
  BY <1>1 DEF Bridge, AtRequest
<1>13. ReportedTrue'
  <2>1. \A k \in DOMAIN out' : out'[k].ok /\ script[out'[k].id] = "call" => out'[k].id \in acted
    <3>1. Succeeds /\ script[taken] = "call" => taken \in acted
      BY <1>1 DEF Bridge, ReportedTrue, Succeeds
    <3> QED
      BY <3>1, <1>1, <1>3, <1>4 DEF Bridge, ReportedTrue
  <2> QED
    BY <2>1, <1>1, <1>5 DEF Bridge, ReportedTrue
<1>14. QED
  BY <1>10, <1>11, <1>12, <1>13 DEF Bridge

\* Every step keeps it.
LEMMA BridgeStep == Bridge /\ [McpNext]_mcpVars => Bridge'
<1> SUFFICES ASSUME Bridge, [McpNext]_mcpVars PROVE Bridge'
  OBVIOUS
<1>1. CASE Host BY <1>1, HostKeeps
<1>2. CASE Reader BY <1>2, ReaderKeeps
<1>3. CASE SelectCancelled
  BY <1>3, ReturnKeeps DEF SelectCancelled, ReleaseReader, Returns, host, Returned, Bridge, McpTypes
<1>4. CASE SelectEnd
  BY <1>4, ReturnKeeps DEF SelectEnd, Returns, host, Returned, Bridge, McpTypes
<1>5. CASE SelectError
  BY <1>5, ReturnKeeps DEF SelectError, host, Returned, Bridge, McpTypes
<1>6. CASE SelectLine BY <1>6, SelectLineKeeps
<1>7. CASE Decide
  <2>1. CASE cancelled
    BY <2>1, <1>7, ReturnKeeps DEF Decide, ReleaseReader, Returns, host, Returned, Bridge, McpTypes
  <2>2. CASE ~cancelled
    BY <2>2, <1>7, HandlesKeeps DEF Decide
  <2> QED BY <2>1, <2>2
<1>8. CASE Ask BY <1>8, AskKeeps
<1>9. CASE Respond BY <1>9, RespondKeeps
<1>10. CASE UNCHANGED mcpVars
  <2>1. Pending' = Pending /\ Answered' = Answered
    BY <1>10 DEF Pending, Answered, mcpVars
  <2>2. AnswersInOrder'
    BY <1>10, <2>1, AnswersKeep DEF mcpVars
  <2>3. McpTypes' /\ InStep' /\ AtRequest' /\ ReportedTrue'
    BY <1>10, <2>1 DEF Bridge, mcpVars, McpTypes, InStep, AtRequest, Answerable, ReportedTrue, Returned
  <2> QED BY <2>2, <2>3 DEF Bridge
<1>11. QED
  BY <1>1, <1>2, <1>3, <1>4, <1>5, <1>6, <1>7, <1>8, <1>9, <1>10 DEF McpNext, Server

\* So it always holds.
LEMMA BridgeAlways == McpSpec => []Bridge
<1>1. QED
  BY BridgeInit, BridgeStep, PTL DEF McpSpec

\* The type invariant of the bridge.
THEOREM BridgeTypes == McpSpec => []McpTypeOK
<1>1. Bridge => McpTypeOK
  <2> SUFFICES ASSUME Bridge PROVE McpTypeOK
    OBVIOUS
  <2>0. Answered \subseteq 1..taken /\ acted \subseteq Answered \cup (IF serve = "answering" THEN {taken} ELSE {})
    BY DEF Bridge, ReportedTrue, AnswersInOrder, Due
  <2>1. acted \subseteq 1..taken
    <3>1. serve = "answering" => taken \in 1..taken
      BY DEF Bridge, McpTypes, AtRequest
    <3> QED BY <2>0, <3>1
  <2>2. acted \subseteq 1..Len(script)
    BY <2>1 DEF Bridge, McpTypes, InStep
  <2>3. \A k \in DOMAIN out : out[k] \in Answer
    BY DEF Bridge, McpTypes
  <2> QED
    BY <2>2, <2>3 DEF Bridge, McpTypes, InStep, McpTypeOK
<1>2. QED
  BY <1>1, BridgeAlways, PTL

\* Every request is answered once and in order, but for the one a cancellation
\* cuts off.
THEOREM AnsweredInOrder == McpSpec => []AnswersInOrder
<1>1. Bridge => AnswersInOrder
  BY DEF Bridge
<1>2. QED
  BY <1>1, BridgeAlways, PTL

\* What was carried out is answered for, or about to be; what is reported done was.
AskedIsTold ==
  /\ acted \subseteq Answered \cup Pending
  /\ \A k \in DOMAIN out : out[k].ok /\ script[out[k].id] = "call" => out[k].id \in acted

\* The agent learns what became of everything it asked for: what the daemon
\* carried out is answered, or about to be, and nothing but a delete is reported
\* as done that was not.
THEOREM AskedIsAnswered == McpSpec => []AskedIsTold
<1>1. Bridge => AskedIsTold
  BY DEF Bridge, ReportedTrue, AskedIsTold, Pending
<1>2. QED
  BY <1>1, BridgeAlways, PTL

=============================================================================
