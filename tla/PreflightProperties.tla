------------------------- MODULE PreflightProperties -------------------------
(***************************************************************************)
(* doctor and serve over one configuration and one machine.                *)
(***************************************************************************)
EXTENDS Preflight, Decision

CONSTANTS PreflightConfigs, Hosts

ASSUME HostsAssumption ==
  Hosts \subseteq [claude : Seq(Nat), git : BOOLEAN, journal : BOOLEAN, disk : BOOLEAN,
                   secret : BOOLEAN, token : BOOLEAN, tracker : BOOLEAN]

PreflightRequests ==
  [kind : {"preflight"}, config : PreflightConfigs, role : {"dev", "ba"}, host : Hosts]

PreflightCheck ==
  Decide("preflight", LAMBDA r :
    [doctor |-> doctor(r.config, r.role, r.host), starts |-> serveStarts(r.config, r.role, r.host)])

(***************************************************************************)
(* A green doctor is a promise about serve: with no change to the machine  *)
(* serve starts, the Claude CLI is no older than the floor part by part,   *)
(* and whoever certifies is not whoever writes.  For a configuration whose *)
(* agents are agent-user pairs: otherwise config.Load lets a reviewer have *)
(* no UPN, doctor only warns of it, and serve refuses to start             *)
(* (doctor.go 52-100, 195-218; serve.go 636-643, 724-738).                 *)
(***************************************************************************)
Older(version) ==
  \E i \in DOMAIN claudeVersionFloor :
    /\ Part(version, i) < claudeVersionFloor[i]
    /\ \A j \in 1..(i - 1) : Part(version, j) = claudeVersionFloor[j]

DoctorGreenServes ==
  LET c == Load(request.config).config
  IN  /\ Decided("preflight")
      /\ Answer.doctor = 0
      /\ c.entra.identity_mode = "agent-user-pair"
      => /\ Answer.starts
         /\ request.host.claude # <<>> /\ ~Older(request.host.claude)
         /\ reviewerIdentity(c) # c.roles[request.role].agent_user_name
=============================================================================
