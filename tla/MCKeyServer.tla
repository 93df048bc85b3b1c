---------------------------- MODULE MCKeyServer -----------------------------
(***************************************************************************)
(* Instances of KeyServer for TLC.  Addresses, apps and handlers are model *)
(* values; each group of definitions below is the data of one run.         *)
(***************************************************************************)
EXTENDS KeyServer

CONSTANTS h1, h2,           \* handlers
          pilot, other,     \* apps
          proxy, home, away \* addresses; the local proxy's is loopback

MCAddresses == {proxy, home, away}
Direct(addr) == [peer |-> addr, fwd |-> NoForward]
Forwarded(addr) == [peer |-> proxy, fwd |-> addr]

Request(id, a, ts) ==
  [id |-> id, app |-> a, key |-> 1, ts |-> ts, wellFormed |-> TRUE, wrap |-> 1]

Config(apps, ips) ==
  [label |-> 1, header |-> TRUE, events |-> FALSE, apps |-> apps,
   key |-> [a \in AppNames |-> 1], ips |-> [a \in AppNames |-> ips]]

(* A request, replayed, a second one of the same app, which its rate limit *)
(* of one a minute may refuse, and another app's request, whose admit      *)
(* purges the guard at any time.  The wrap of the first alone opens.       *)
OneConfig == {Config({pilot, other}, {home})}
HomeOnly == {Direct(home)}
ReplayRequests ==
  {Request(1, pilot, 2), [Request(2, pilot, 3) EXCEPT !.wrap = 2],
   [Request(3, other, 5) EXCEPT !.wrap = 2]}

(* Allowlists that differ in apps, events file, label, and in key, address *)
(* and header together; a request the first admits, and a malformed one.   *)
ReloadConfigs ==
  LET base == [Config({pilot}, {home}) EXCEPT !.events = TRUE] IN
  {base,
   [base EXCEPT !.apps = {}, !.events = FALSE],
   [base EXCEPT !.ips = [a \in AppNames |-> {away}], !.header = FALSE,
                !.key = [a \in AppNames |-> 2]],
   [base EXCEPT !.label = 2]}
ReloadRequests ==
  {Request(1, pilot, 0), [Request(2, pilot, 0) EXCEPT !.wellFormed = FALSE]}
ReloadSources == {Direct(home), Forwarded(away)}
=============================================================================
