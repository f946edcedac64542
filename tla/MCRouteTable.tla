---------------------------- MODULE MCRouteTable ----------------------------
(***************************************************************************)
(* A small routes(): the shapes of main.rs lines 295-465 in source order.  *)
(* get_supported_versions (one alias), get_login_types and login (GET and  *)
(* POST on the same two aliases, so Router::route merges method routers),  *)
(* the four hand-written state-event routes (GET and PUT), the two         *)
(* server-key routes, an endpoint registered after them, and the two       *)
(* initialSync routes.  One more path has no route at all.                 *)
(***************************************************************************)
EXTENDS RouteTable

CONSTANTS
    pVersions, pLoginR0, pLoginV3, pStateR0, pStateV3, pStateR0Slash,
    pStateV3Slash, pKeys, pKeysId, pEvent, pSyncR0, pSyncV3, pUnknown,
    hVersions, hLoginTypes, hLogin, hGetStateEmpty, hSendStateEmpty,
    hKeys, hKeysOld, hEvent, hInitialSync

MCPaths == {pVersions, pLoginR0, pLoginV3, pStateR0, pStateV3, pStateR0Slash,
            pStateV3Slash, pKeys, pKeysId, pEvent, pSyncR0, pSyncV3, pUnknown}

MCHandlers == {hVersions, hLoginTypes, hLogin, hGetStateEmpty, hSendStateEmpty,
               hKeys, hKeysOld, hEvent, hInitialSync}

Ruma(m, ps, h) == [kind |-> "ruma", method |-> m, paths |-> ps, handler |-> h]

\* get(h) or get(h).put(h2), as a method router.
Get(p, h) == [kind |-> "route", path |-> p, methods |-> {"GET"},
              handler |-> [m \in FilterMethods |-> h]]
GetPut(p, h, h2) == [kind |-> "route", path |-> p, methods |-> {"GET", "PUT"},
                     handler |-> [m \in FilterMethods |-> IF m = "PUT" THEN h2 ELSE h]]

MCRegistrations ==
    << Ruma("GET", <<pVersions>>, hVersions),
       Ruma("GET", <<pLoginR0, pLoginV3>>, hLoginTypes),
       Ruma("POST", <<pLoginR0, pLoginV3>>, hLogin),
       GetPut(pStateR0, hGetStateEmpty, hSendStateEmpty),
       GetPut(pStateV3, hGetStateEmpty, hSendStateEmpty),
       GetPut(pStateR0Slash, hGetStateEmpty, hSendStateEmpty),
       GetPut(pStateV3Slash, hGetStateEmpty, hSendStateEmpty),
       Get(pKeys, hKeys),
       Get(pKeysId, hKeysOld),
       Ruma("GET", <<pEvent>>, hEvent),
       Get(pSyncR0, hInitialSync),
       Get(pSyncV3, hInitialSync) >>

\* The same start, then a hand-written GET route on an alias that
\* get_login_types already routes: Router::route panics at startup.
MCConflictRegistrations ==
    << Ruma("GET", <<pVersions>>, hVersions),
       Ruma("GET", <<pLoginR0, pLoginV3>>, hLoginTypes),
       Get(pLoginV3, hKeys),
       Ruma("GET", <<pEvent>>, hEvent) >>

MCRouteLists == {MCRegistrations, MCConflictRegistrations}

MCServerKeys == {hKeys, hKeysOld}

MCReqMethods == {"GET", "HEAD", "POST", "PUT", "OPTIONS"}
=============================================================================
