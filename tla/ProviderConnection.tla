------------------------- MODULE ProviderConnection -------------------------
(***************************************************************************)
(* One user's provider connections: the rows in PostgreSQL, the copies of  *)
(* them that GetProviderConnection keeps in Redis, and the OAuth states    *)
(* the user may come back with.                                            *)
(*                                                                         *)
(* A handler loads an entity, awaits (events, the provider's API, the      *)
(* accounts it synchronises) and saves the whole entity.  A save selects   *)
(* the row again and writes status and credentials together or, when they  *)
(* equal the row's, neither, so its two statements are one step here.      *)
(* Nothing in the routed code writes another status than ACTIVE and        *)
(* DISCONNECTED, and nothing invalidates the copies in Redis.  A request   *)
(* that is refused before it writes anything is a stuttering step;         *)
(* last_sync_at only refuses syncs that are not forced, so it is left out. *)
(***************************************************************************)
EXTENDS Integers

CONSTANTS
    Connections,  \* bound: connection ids that may be created
    States,       \* bound: OAuth state tokens that may be handed out
    Requests,     \* concurrent requests of the user
    RedisFails    \* whether a Redis call may fail

ASSUME ConnectionsAssumption == Connections # {}
ASSUME FileAssumption == "file" \notin States /\ "none" \notin States
ASSUME RedisAssumption == RedisFails \in BOOLEAN

VARIABLES
    row,     \* provider_connections
    cached,  \* the copy under the connection's key, NoRow for no key
    oauth,   \* the key oauth_state:{state}
    req      \* locals of each request

vars == <<row, cached, oauth, req>>

(* from: the OAuth state whose callback created the row, or "file" for the *)
(* connection of a file import.  creds: encrypted_credentials is not NULL. *)
Rows == [from : States \cup {"file"},
         status : {"active", "disconnected"},
         creds : BOOLEAN]
NoRow == [from |-> "none", status |-> "none", creds |-> FALSE]
ActiveFrom(x) == [from |-> x, status |-> "active", creds |-> TRUE]

(* Mutant: a save leaves the credential columns alone when the entity has  *)
(* no credentials.                                                         *)
DisconnectedKept(r) == [r EXCEPT !.status = "disconnected"]

(* Mutant: the handler marks the connection as revoked.                    *)
DisconnectedRevoked(r) == [r EXCEPT !.status = "revoked", !.creds = FALSE]

(* mark_disconnected.                                                      *)
Disconnected(r) == [r EXCEPT !.status = "disconnected", !.creds = FALSE]

IsConnected(r) == r.status = "active" /\ r.creds

(* "kept": a callback has tried to delete the key and Redis failed.        *)
OauthStates == {"unused", "stored", "kept", "gone"}

(* raced (history): since this request read what it goes by, another one   *)
(* has changed it; or, for a callback, deleting the state had failed.      *)
Pcs == {"idle", "delete", "insert", "sync", "disconnect", "fill"}
Locals == [pc : Pcs, conn : Connections, copy : Rows \cup {NoRow},
           from : States \cup {"file"}, raced : BOOLEAN]

AnyConnection == CHOOSE c \in Connections : TRUE
Idle == [pc |-> "idle", conn |-> AnyConnection, copy |-> NoRow,
         from |-> "file", raced |-> FALSE]
Loaded(pc, c, r) == [Idle EXCEPT !.pc = pc, !.conn = c, !.copy = r]

Init ==
    /\ row = [c \in Connections |-> NoRow]
    /\ cached = [c \in Connections |-> NoRow]
    /\ oauth = [st \in States |-> "unused"]
    /\ req = [p \in Requests |-> Idle]

(* p goes on as l; the requests in `others` were overtaken by this step.   *)
Overtake(p, l, others) ==
    req' = [q \in Requests |->
               IF q = p THEN l
               ELSE IF q \in others THEN [req[q] EXCEPT !.raced = TRUE]
               ELSE req[q]]
Continue(p, l) == Overtake(p, l, {})

LoadedBefore(c) == {q \in Requests : /\ req[q].pc \in {"sync", "disconnect"}
                                     /\ req[q].conn = c}
LookedBefore(x) == {q \in Requests : /\ req[q].pc \in {"delete", "insert"}
                                     /\ req[q].from = x}

----------------------------------------------------------------------------
(* The OAuth flow of /providers: initiate_connection and oauth_callback.   *)

(* The URL is handed out whether or not the state could be stored.         *)
Initiate(st) ==
    /\ oauth[st] = "unused"
    /\ \E o \in IF RedisFails THEN {"stored", "gone"} ELSE {"stored"} :
          oauth' = [oauth EXCEPT ![st] = o]
    /\ UNCHANGED <<row, cached, req>>

StateExpires(st) ==
    /\ oauth[st] \in {"stored", "kept"}
    /\ oauth' = [oauth EXCEPT ![st] = "gone"]
    /\ UNCHANGED <<row, cached, req>>

CallbackRead(p, st) ==
    /\ req[p].pc = "idle"
    /\ oauth[st] \in {"stored", "kept"}
    /\ Continue(p, [Idle EXCEPT !.pc = "delete", !.from = st,
                                !.raced = (oauth[st] = "kept")])
    /\ UNCHANGED <<row, cached, oauth>>

(* Mutant: the state stays usable until it expires.                        *)
CallbackKeeps(p) ==
    /\ req[p].pc = "delete"
    /\ Continue(p, [req[p] EXCEPT !.pc = "insert"])
    /\ UNCHANGED <<row, cached, oauth>>

(* The result of the delete is not looked at.                              *)
CallbackDelete(p) ==
    /\ req[p].pc = "delete"
    /\ \/ oauth' = [oauth EXCEPT ![req[p].from] = "gone"]
       \/ /\ RedisFails
          /\ oauth[req[p].from] \in {"stored", "kept"}
          /\ oauth' = [oauth EXCEPT ![req[p].from] = "kept"]
    /\ Continue(p, [req[p] EXCEPT !.pc = "insert"])
    /\ UNCHANGED <<row, cached>>

(* A new ACTIVE row: ConnectProviderHandler at the end of a callback, or   *)
(* an import that found no connection of its own, which then goes on.      *)
Insert(p) ==
    /\ req[p].pc = "insert"
    /\ \E c \in Connections :
          /\ row[c] = NoRow
          /\ row' = [row EXCEPT ![c] = ActiveFrom(req[p].from)]
          /\ Overtake(p,
                      IF req[p].from = "file"
                      THEN Loaded("sync", c, ActiveFrom("file"))
                      ELSE Idle,
                      LookedBefore(req[p].from))
    /\ UNCHANGED <<cached, oauth>>

----------------------------------------------------------------------------
(* Synchronisations of accounts, and imports of files: the entity is       *)
(* loaded first and saved last, with everything else in between.           *)

(* Mutant: the connection comes from Redis when a copy is there.           *)
SyncFindCached(p, c) ==
    LET r == IF cached[c] = NoRow THEN row[c] ELSE cached[c] IN
    /\ req[p].pc = "idle"
    /\ r.from \in States
    /\ IsConnected(r)
    /\ Continue(p, Loaded("sync", c, r))
    /\ UNCHANGED <<row, cached, oauth>>

(* The credentials of a file connection do not decrypt.                    *)
SyncFind(p, c) ==
    /\ req[p].pc = "idle"
    /\ row[c].from \in States
    /\ IsConnected(row[c])
    /\ Continue(p, Loaded("sync", c, row[c]))
    /\ UNCHANGED <<row, cached, oauth>>

(* Mutant: only a connected connection is taken.                           *)
ImportLookConnected(p) ==
    /\ req[p].pc = "idle"
    /\ \/ \E c \in Connections :
             /\ row[c].from = "file"
             /\ IsConnected(row[c])
             /\ Continue(p, Loaded("sync", c, row[c]))
       \/ /\ \A c \in Connections : row[c].from # "file" \/ ~IsConnected(row[c])
          /\ Continue(p, [Idle EXCEPT !.pc = "insert"])
    /\ UNCHANGED <<row, cached, oauth>>

(* _get_or_create_connection: the first connection with the slug, whatever *)
(* its status.                                                             *)
ImportLook(p) ==
    /\ req[p].pc = "idle"
    /\ \/ \E c \in Connections :
             /\ row[c].from = "file"
             /\ Continue(p, Loaded("sync", c, row[c]))
       \/ /\ \A c \in Connections : row[c].from # "file"
          /\ Continue(p, [Idle EXCEPT !.pc = "insert"])
    /\ UNCHANGED <<row, cached, oauth>>

(* record_sync fails on an entity that is not ACTIVE, its result is not    *)
(* looked at, and the entity is saved all the same.                        *)
SyncSave(p) ==
    /\ req[p].pc = "sync"
    /\ row' = [row EXCEPT ![req[p].conn] = req[p].copy]
    /\ Overtake(p, Idle, LoadedBefore(req[p].conn))
    /\ UNCHANGED <<cached, oauth>>

----------------------------------------------------------------------------
(* DisconnectProviderHandler.                                              *)

DisconnectFind(p, c) ==
    /\ req[p].pc = "idle"
    /\ row[c] # NoRow
    /\ Continue(p, Loaded("disconnect", c, row[c]))
    /\ UNCHANGED <<row, cached, oauth>>

DisconnectSave(p) ==
    /\ req[p].pc = "disconnect"
    /\ row' = [row EXCEPT ![req[p].conn] = Disconnected(req[p].copy)]
    /\ Overtake(p, Idle, LoadedBefore(req[p].conn))
    /\ UNCHANGED <<cached, oauth>>

----------------------------------------------------------------------------
(* GetProviderConnectionHandler: a hit writes nothing.                     *)

(* Mutant: a hit is written back, which starts its TTL again.              *)
GetRefills(p, c) ==
    /\ req[p].pc = "idle"
    /\ row[c] # NoRow
    /\ Continue(p, Loaded("fill", c,
                          IF cached[c] = NoRow THEN row[c] ELSE cached[c]))
    /\ UNCHANGED <<row, cached, oauth>>

GetMiss(p, c) ==
    /\ req[p].pc = "idle"
    /\ row[c] # NoRow
    /\ cached[c] = NoRow \/ RedisFails
    /\ Continue(p, Loaded("fill", c, row[c]))
    /\ UNCHANGED <<row, cached, oauth>>

GetFill(p) ==
    /\ req[p].pc = "fill"
    /\ cached' = [cached EXCEPT ![req[p].conn] = req[p].copy]
    /\ Continue(p, Idle)
    /\ UNCHANGED <<row, oauth>>

CacheExpires(c) ==
    /\ cached[c] # NoRow
    /\ cached' = [cached EXCEPT ![c] = NoRow]
    /\ UNCHANGED <<row, oauth, req>>

(* A request ends early: a refusal by the provider, an exception at any    *)
(* await, a failed Redis write, or the process dies.                       *)
Abandon(p) ==
    /\ req[p].pc # "idle"
    /\ Continue(p, Idle)
    /\ UNCHANGED <<row, cached, oauth>>

Next ==
    \/ \E st \in States :
          \/ Initiate(st)
          \/ StateExpires(st)
          \/ \E p \in Requests : CallbackRead(p, st)
    \/ \E p \in Requests :
          \/ CallbackDelete(p)
          \/ Insert(p)
          \/ ImportLook(p)
          \/ SyncSave(p)
          \/ DisconnectSave(p)
          \/ GetFill(p)
          \/ Abandon(p)
          \/ \E c \in Connections :
                SyncFind(p, c) \/ DisconnectFind(p, c) \/ GetMiss(p, c)
    \/ \E c \in Connections : CacheExpires(c)

(* The TTL of a copy in Redis runs out.                                    *)
Fairness == \A c \in Connections : WF_vars(CacheExpires(c))

Spec == Init /\ [][Next]_vars /\ Fairness

----------------------------------------------------------------------------
(* Every variable has its type.                                            *)
TypeOK ==
    /\ row \in [Connections -> Rows \cup {NoRow}]
    /\ cached \in [Connections -> Rows \cup {NoRow}]
    /\ oauth \in [States -> OauthStates]
    /\ req \in [Requests -> Locals]

(* In every row and every cached copy the status is ACTIVE exactly when    *)
(* there are credentials, however saves of stale entities overlap: an      *)
(* ACTIVE row without them cannot be loaded any more (__post_init__        *)
(* raises, for the whole list of the user's connections), and a            *)
(* disconnected one that keeps them is not cleared.                        *)
Paired ==
    \A c \in Connections : \A r \in {row[c], cached[c]} :
        (r.status = "active") <=> r.creds

(* A disconnected connection comes back to life only through a sync or an  *)
(* import that had loaded it before the disconnection was committed and    *)
(* saves it afterwards; never through a copy that was stale already when   *)
(* it was read.                                                            *)
RevivedOnlyByOverlap ==
    [][\A c \in Connections :
          row[c].status = "disconnected" /\ row'[c].status = "active" =>
             \E p \in Requests : /\ req[p].pc = "sync"
                                 /\ req[p].conn = c
                                 /\ req[p].raced
                                 /\ req'[p].pc = "idle"]_vars

(* One OAuth state makes one connection and all imports of a user share    *)
(* one, disconnected or not; a second one is created only by a request     *)
(* that had looked before the first was committed, or whose state Redis    *)
(* had failed to delete.                                                   *)
SecondOnlyByOverlap ==
    [][\A c \in Connections :
          /\ row[c] = NoRow
          /\ row'[c] # NoRow
          /\ \E d \in Connections : row[d].from = row'[c].from
          => \E p \in Requests : /\ req[p].pc = "insert"
                                 /\ req[p].from = row'[c].from
                                 /\ req[p].raced
                                 /\ req'[p].pc # "insert"]_vars

(* A connection that stays disconnected is at some time shown as           *)
(* disconnected for good: no reader, and no stale fill, keeps the copy     *)
(* that says ACTIVE alive beyond its TTL.                                  *)
DisconnectShows ==
    \A c \in Connections :
        <>[](row[c].status = "disconnected") =>
            <>[](cached[c].status # "active")
=============================================================================
