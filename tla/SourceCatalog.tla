--------------------------- MODULE SourceCatalog ---------------------------
(* The source descriptors of data-sources as the data session uses them: the  *)
(* capability a source needs, the manifest that lists it, the attach plan,    *)
(* the redaction of a saved descriptor, the invalidation key of a remote      *)
(* source and the documented catalog of a governed one.                       *)
(*                                                                            *)
(* A locator (URL, DSN, file name) is a record [scheme, user, host, path]:    *)
(* scheme is NoScheme for a plain locator, user tells whether a user@ part is *)
(* there, and host may be NoHost; an @ inside a path, which the code takes    *)
(* for the end of the user part, is left out.  A hash is the byte stream it   *)
(* is fed.                                                                    *)
EXTENDS Integers, Sequences, FiniteSets
Lists == INSTANCE SequencesExt

CONSTANTS
    NoScheme,   \* a locator without "://"
    NoHost,     \* an empty authority
    NoLocator,  \* an absent or empty locator
    NoRef,      \* no credential reference
    NoOrigin,   \* no network origin
    NoDoc       \* a part of the documentation the sidecar leaves out

Locator == [scheme : STRING \cup {NoScheme}, user : BOOLEAN,
            host : STRING \cup {NoHost}, path : STRING]

ASSUME CatalogAssumption == NoLocator \notin Locator

\* A byte of UTF-8 text.
Byte == 0..244

\* SourceKind; the parameters of a remote source are a map, in key order.
SourceKind ==
    [kind : {"inline"}, table : STRING] \cup [kind : {"file"}, name : STRING]
    \cup [kind : {"remote"}, url : Locator, format : STRING, params : Seq(Seq(Byte) \X Seq(Byte))]
    \cup [kind : {"dbAttach"}, engine : {"sqlite", "postgres", "mysql"}, dsn : Locator \cup {NoLocator},
          target : Locator \cup {NoLocator}, ref : STRING \cup {NoRef}]
    \cup [kind : {"governedExtract"}, location : Locator]

Source == [id : STRING, kind : SourceKind]

\* Field; ColumnMetadata
Field == [name : STRING, type : STRING]
ColumnMetadata == [name : STRING, type : STRING \cup {NoDoc}, label : STRING \cup {NoDoc}]

VARIABLES
    sources,    \* the session's sources, in order of definition
    keys,       \* the invalidation keys the host recorded, with what they are for
    catalog     \* the last documented catalog, with the schema and sidecar it is of

catalogVars == << sources, keys, catalog >>

----------------------------------------------------------------------------
(* Origins and redaction.                                                   *)

\* scheme://host[:port], without a user@ part.
OriginOf(url) ==
    IF url = NoLocator \/ url.scheme = NoScheme THEN NoOrigin ELSE << url.scheme, url.host >>

DbOrigin(target) == IF target = NoLocator THEN NoOrigin ELSE << NoScheme, target.host >>

\* Mutant of RedactCredentials: a descriptor is saved as it is.
SavedAsIs(kind) == kind

\* A locator with a scheme loses its user@ part.
RedactDsn(dsn) ==
    IF dsn = NoLocator \/ dsn.scheme = NoScheme THEN dsn ELSE [dsn EXCEPT !.user = FALSE]

RedactCredentials(kind) ==
    IF kind.kind = "dbAttach" THEN [kind EXCEPT !.dsn = RedactDsn(@)] ELSE kind

----------------------------------------------------------------------------
(* Capabilities, manifest, attach plan.                                     *)

ReachableInBrowser(engine) == engine = "sqlite"

RequiredCapability(src) ==
    LET k == src.kind
        needs(cap, origin) == [cap |-> cap, origin |-> origin]
        db == DbOrigin(k.target)
    IN  CASE k.kind = "inline" -> needs("none", NoOrigin)
          [] k.kind = "file"   -> needs("fileImport", NoOrigin)
          [] k.kind = "remote" -> needs("network", OriginOf(k.url))
          [] k.kind = "dbAttach" ->
                 IF ReachableInBrowser(k.engine) THEN needs("fileImport", NoOrigin)
                 ELSE needs("networkCredential", IF db # NoOrigin THEN db ELSE OriginOf(k.dsn))
          [] k.kind = "governedExtract" ->
                 IF k.location.scheme \in {"http", "https"}
                 THEN needs("network", OriginOf(k.location)) ELSE needs("fileImport", NoOrigin)

ManifestTarget(src) ==
    LET k == src.kind
    IN  CASE k.kind = "inline" -> << "inline", k.table >>
          [] k.kind = "file"   -> << "file", k.name >>
          [] k.kind = "remote" -> IF OriginOf(k.url) = NoOrigin THEN << "url", k.url >>
                                  ELSE << "origin", OriginOf(k.url) >>
          [] k.kind = "dbAttach" -> IF k.target # NoLocator THEN << "db", k.target >>
                                    ELSE << "db", RedactDsn(k.dsn) >>
          [] k.kind = "governedExtract" -> << "location", k.location >>

Manifest ==
    [i \in DOMAIN sources |->
        [source |-> sources[i].id, kind |-> sources[i].kind.kind,
         capability |-> RequiredCapability(sources[i]), target |-> ManifestTarget(sources[i]),
         redacted |-> sources[i].kind.kind = "dbAttach"]]

\* granted is [fileImport, network, origins].
Authorize(src, granted) ==
    LET need == RequiredCapability(src)
    IN  CASE need.cap = "none" -> "ok"
          [] need.cap = "fileImport" -> IF granted.fileImport THEN "ok" ELSE "FileImportNotGranted"
          [] OTHER -> IF ~ granted.network THEN "NetworkNotGranted"
                      ELSE IF need.origin # NoOrigin /\ need.origin \notin granted.origins
                           THEN "OriginNotConsented" ELSE "ok"

\* The grant authorize_report asks about: file import only.
DefaultGrant == [fileImport |-> TRUE, network |-> FALSE, origins |-> {}]

AuthorizeReport == [i \in DOMAIN sources |-> Authorize(sources[i], DefaultGrant)]

AttachPlan(src) ==
    LET k == src.kind
    IN  IF k.kind # "dbAttach" THEN "NotDbAttach"
        ELSE IF ~ ReachableInBrowser(k.engine) /\ k.ref = NoRef THEN "MissingCredentialRef"
        ELSE [engine |-> k.engine, alias |-> src.id, target |-> k.target, ref |-> k.ref,
              inBrowser |-> ReachableInBrowser(k.engine)]

----------------------------------------------------------------------------
(* The invalidation key of a remote source.                                 *)

ValidateRemote(k) ==
    CASE k.kind # "remote"                        -> "NotRemote"
      [] k.url.scheme \notin {"http", "https"}    -> "UnsupportedScheme"
      [] k.url.user                               -> "EmbeddedCredentials"
      [] k.url.host = NoHost                      -> "MissingHost"
      [] OTHER                                    -> "ok"

\* params is the map in key order: a sequence of << key, value >>, each a
\* sequence of bytes.  The markers are bytes no UTF-8 text contains.
MarkedParams(params) ==
    Lists!FlattenSeq([i \in DOMAIN params |-> <<254>> \o params[i][1] \o <<253>> \o params[i][2]])

ParamStream(params) == MarkedParams(params)

RemoteDescriptorHash(k) == << k.url, 255, k.format >> \o ParamStream(k.params)

InvalidationKey(k, bytes) == Append(RemoteDescriptorHash(k), << "content", bytes >>)

----------------------------------------------------------------------------
(* The documented catalog of a governed extract.                            *)

\* The sidecar's entry of a name; the map keeps the last of several.
EntryOf(sidecar, name) ==
    sidecar[CHOOSE i \in DOMAIN sidecar :
                /\ sidecar[i].name = name
                /\ \A j \in i + 1 .. Len(sidecar) : sidecar[j].name # name]

HasEntry(sidecar, name) == \E i \in DOMAIN sidecar : sidecar[i].name = name

CatalogColumn(sidecar, field) ==
    IF HasEntry(sidecar, field.name)
    THEN LET m == EntryOf(sidecar, field.name)
         IN  [name |-> field.name, label |-> IF m.label = NoDoc THEN field.name ELSE m.label,
              type |-> field.type, documented |-> TRUE]
    ELSE [name |-> field.name, label |-> field.name, type |-> field.type, documented |-> FALSE]

Drift(sidecar, field) ==
    IF ~ HasEntry(sidecar, field.name) THEN << << "UndocumentedColumn", field.name >> >>
    ELSE IF EntryOf(sidecar, field.name).type \notin {NoDoc, field.type}
         THEN << << "TypeMismatch", field.name >> >> ELSE << >>

Absent(schema, entry) ==
    IF \A i \in DOMAIN schema : schema[i].name # entry.name
    THEN << << "MissingColumn", entry.name >> >> ELSE << >>

EnrichSchema(schema, sidecar) ==
    [columns |-> [i \in DOMAIN schema |-> CatalogColumn(sidecar, schema[i])],
     drift |-> Lists!FlattenSeq([i \in DOMAIN schema |-> Drift(sidecar, schema[i])])
               \o Lists!FlattenSeq([j \in DOMAIN sidecar |-> Absent(schema, sidecar[j])])]

----------------------------------------------------------------------------
CatalogInit == sources = << >> /\ keys = {} /\ catalog = NoDoc

\* A source of the same name is replaced where it stands.
DefineSource(src) ==
    /\ sources' = IF \E i \in DOMAIN sources : sources[i].id = src.id
                   THEN [i \in DOMAIN sources |-> IF sources[i].id = src.id THEN src ELSE sources[i]]
                   ELSE Append(sources, src)
    /\ UNCHANGED << keys, catalog >>

\* The session is saved and opened again: the saved descriptors are redacted.
ReopenSources ==
    /\ sources' = [i \in DOMAIN sources |->
                      [sources[i] EXCEPT !.kind = RedactCredentials(@)]]
    /\ UNCHANGED << keys, catalog >>

KeyRemote(i, bytes) ==
    /\ i \in DOMAIN sources
    /\ ValidateRemote(sources[i].kind) = "ok"
    /\ keys' = keys \cup {[kind |-> sources[i].kind, bytes |-> bytes,
                           key |-> InvalidationKey(sources[i].kind, bytes)]}
    /\ UNCHANGED << sources, catalog >>

DocumentSchema(schema, sidecar) ==
    /\ catalog' = [schema |-> schema, sidecar |-> sidecar, of |-> EnrichSchema(schema, sidecar)]
    /\ UNCHANGED << sources, keys >>

CatalogNext ==
    \/ \E src \in Source : DefineSource(src)
    \/ ReopenSources
    \/ \E i \in DOMAIN sources, bytes \in Nat : KeyRemote(i, bytes)
    \/ \E schema \in Seq(Field), sidecar \in Seq(ColumnMetadata) : DocumentSchema(schema, sidecar)

Cataloguing == CatalogInit /\ [][CatalogNext]_catalogVars

----------------------------------------------------------------------------
\* Redacting a saved source takes nothing the session asks of it: what it needs, what the
\* manifest shows and how the host attaches it are the same when the document
\* is opened again (redact_credentials, lib.rs:404; required_capability, :286).
SavedAsksTheSame ==
    \A i \in DOMAIN sources :
        LET saved == [sources[i] EXCEPT !.kind = RedactCredentials(@)]
        IN  /\ RequiredCapability(saved) = RequiredCapability(sources[i])
            /\ ManifestTarget(saved) = ManifestTarget(sources[i])
            /\ AttachPlan(saved) = AttachPlan(sources[i])

\* "Credentials are NEVER persisted into the saved file": a database
\* descriptor is saved without the user part of its DSN, and the manifest shows
\* none in its place (redact_credentials, lib.rs:419; redact_dsn, :437, which
\* knows a user part by the scheme before it and lets a DSN without one pass).
SavedWithoutUser ==
    LET clean(dsn) == dsn # NoLocator /\ dsn.scheme # NoScheme => ~ dsn.user
    IN  \A i \in DOMAIN sources :
            sources[i].kind.kind = "dbAttach" =>
                /\ clean(RedactCredentials(sources[i].kind).dsn)
                /\ sources[i].kind.target = NoLocator => clean(ManifestTarget(sources[i])[2])

\* Two keys are equal exactly when the same request gave the same bytes: a
\* changed answer or descriptor is never taken for the old one
\* (remote_invalidation_key, remote.rs:105; remote_descriptor_hash, :71).
KeysTell ==
    \A k, l \in keys :
        k.key = l.key <=> /\ k.bytes = l.bytes
                          /\ k.kind.url = l.kind.url /\ k.kind.format = l.kind.format
                          /\ k.kind.params = l.kind.params

\* The catalog shows every live column once with its live type, and says of
\* each side what the other lacks: as many drift entries as there are columns
\* the two disagree about (enrich_schema, governed.rs:127).
DriftTold ==
    catalog # NoDoc =>
        LET live  == {catalog.schema[i].name : i \in DOMAIN catalog.schema}
            told(n) == {d \in Lists!ToSet(catalog.of.drift) : d[2] = n}
        IN  /\ \A i \in DOMAIN catalog.schema :
                   /\ catalog.of.columns[i].name = catalog.schema[i].name
                   /\ catalog.of.columns[i].type = catalog.schema[i].type
            /\ \A n \in live \cup {catalog.sidecar[j].name : j \in DOMAIN catalog.sidecar} :
                   LET agree == /\ n \in live /\ HasEntry(catalog.sidecar, n)
                                /\ \A i \in DOMAIN catalog.schema : catalog.schema[i].name = n =>
                                       EntryOf(catalog.sidecar, n).type
                                           \in {NoDoc, catalog.schema[i].type}
                   IN  agree <=> told(n) = {}

\* Together: no description of a source misleads the session that reads it,
\* neither the one saved, nor a key, nor the catalog, and the one saved tells no
\* secret.
SourcesSound == SavedAsksTheSame /\ SavedWithoutUser /\ KeysTell /\ DriftTold
=============================================================================
