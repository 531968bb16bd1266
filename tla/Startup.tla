------------------------------ MODULE Startup ------------------------------
(***************************************************************************)
(* From the environment to a running process: how a setting is found, what *)
(* create_app refuses to start with, what the container refuses to build,  *)
(* and whom a token signs in.  The web process applies the policies and    *)
(* builds the container; the worker only builds the container.             *)
(*                                                                         *)
(* Names that several spellings stand for are listed once each; of an URL  *)
(* the parts the checks look at are kept, of a token its secret and        *)
(* whether it is strong: 24 characters or more and no common word.         *)
(***************************************************************************)
EXTENDS Integers, FiniteSets, Functions, TLC

CONSTANT Unset      \* a setting that is absent or empty

Token(secret, strong) == [secret |-> secret, strong |-> strong]

Url(scheme, listed, loopback, bare) ==
  [scheme |-> scheme, listed |-> listed, loopback |-> loopback, bare |-> bare]

Default ==
  [APP_ENV |-> "local",
   APP_ADMIN_TOKEN |-> Unset, APP_UPLOADER_TOKEN |-> Unset, APP_REVIEWER_TOKEN |-> Unset,
   APP_METRICS_TOKEN |-> Token("metrics-123", FALSE),
   STORAGE_BACKEND |-> "memory", DATABASE_URL |-> Unset,
   DOCUMENT_STORAGE_BACKEND |-> "local",
   S3_ENDPOINT_URL |-> Unset, S3_BUCKET |-> Unset, S3_ACCESS_KEY_ID |-> Unset, S3_SECRET_ACCESS_KEY |-> Unset,
   AZURE_STORAGE_CONTAINER |-> "documents", AZURE_STORAGE_TIMEOUT_SECONDS |-> 30,
   AZURE_STORAGE_ACCOUNT_URL |-> Unset, AZURE_STORAGE_CONNECTION_STRING |-> Unset,
   PROCESSING_QUEUE_BACKEND |-> "none", AZURE_SERVICE_BUS_TIMEOUT_SECONDS |-> 30,
   AZURE_SERVICE_BUS_NAMESPACE |-> Unset, AZURE_SERVICE_BUS_CONNECTION_STRING |-> Unset,
   PARSER_PROVIDER |-> "mock", MISTRAL_API_KEY |-> Unset,
   MISTRAL_OCR_ENDPOINT |-> Url("https", TRUE, FALSE, TRUE),
   EXTRACTOR_PROVIDER |-> "mock", EXTRACTOR_API_KEY |-> Unset,
   EXTRACTOR_ENDPOINT |-> Url("https", TRUE, FALSE, TRUE),
   PROVIDER_TIMEOUT_SECONDS |-> 60,
   ACCOUNTING_PROVIDER |-> "csv_download", ERPNEXT_API_KEY |-> Unset, ERPNEXT_API_SECRET |-> Unset,
   ERPNEXT_BASE_URL |-> Url("http", TRUE, TRUE, TRUE),
   MALWARE_SCANNING_ENABLED |-> TRUE, MALWARE_SCANNER_BACKEND |-> "signature", CLAMAV_PORT |-> 3310,
   DOCUMENT_RETENTION_DAYS |-> 90, PARSER_CACHE_RETENTION_HOURS |-> 24,
   SESSION_TTL_SECONDS |-> 28800, RATE_LIMIT_REQUESTS |-> 120, RATE_LIMIT_WINDOW_SECONDS |-> 60]

\* An empty variable counts as none: the next source is asked.
Given(source) == RestrictValues(source, LAMBDA value : value # Unset)

Then(source, next) ==
  [key \in DOMAIN source \union DOMAIN next |-> IF key \in DOMAIN source THEN source[key] ELSE next[key]]

Load(process, file) == Then(Given(process), Then(Given(file), Default))

IsPublicDemo(c) == c.APP_ENV \in {"public", "public-demo", "public_demo", "portfolio"}
IsHosted(c) == c.APP_ENV \in {"prod", "production"} \/ IsPublicDemo(c)
-----------------------------------------------------------------------------
(* The policies of create_app.                                              *)

Credentials(c) ==
  [admin |-> c.APP_ADMIN_TOKEN, uploader |-> c.APP_UPLOADER_TOKEN,
   reviewer |-> c.APP_REVIEWER_TOKEN, metrics |-> c.APP_METRICS_TOKEN]
Configured(c) == {p \in DOMAIN Credentials(c) : Credentials(c)[p] # Unset}

Required(c) ==
  {"admin", "metrics"} \union (IF IsPublicDemo(c) THEN {"uploader", "reviewer"} ELSE {})

TokensAllowed(c) ==
  /\ IsInjective([p \in Configured(c) |-> Credentials(c)[p].secret])
  /\ IsHosted(c) => /\ Required(c) \subseteq Configured(c)
                    /\ \A p \in Configured(c) : Credentials(c)[p].strong

ProvidersAllowed(c) == IsPublicDemo(c) => {c.PARSER_PROVIDER, c.EXTRACTOR_PROVIDER} = {"mock"}

Ports == 1 .. 65535

ScansForViruses(c) == c.MALWARE_SCANNER_BACKEND = "clamav" /\ c.MALWARE_SCANNING_ENABLED

ScanningAllowed(c) ==
  /\ c.MALWARE_SCANNER_BACKEND \in {"signature", "clamav"}
  /\ ScansForViruses(c) => c.CLAMAV_PORT \in Ports
  /\ c.APP_ENV \in {"prod", "production"} => ScansForViruses(c)

RetentionAllowed(c) ==
  c.DOCUMENT_RETENTION_DAYS \in 1 .. 3650 /\ c.PARSER_CACHE_RETENTION_HOURS \in 1 .. 8760

EndpointAllowed(url) == url.scheme = "https" /\ url.listed /\ url.bare
ErpAllowed(url) ==
  /\ url.listed /\ url.bare
  /\ \/ url.scheme = "https"
     \/ url.scheme = "http" /\ url.loopback

EgressAllowed(c) ==
  /\ c.PARSER_PROVIDER = "mistral_ocr" => EndpointAllowed(c.MISTRAL_OCR_ENDPOINT)
  /\ c.EXTRACTOR_PROVIDER = "llm_json" => EndpointAllowed(c.EXTRACTOR_ENDPOINT)
  /\ c.ACCOUNTING_PROVIDER = "erpnext" => ErpAllowed(c.ERPNEXT_BASE_URL)
-----------------------------------------------------------------------------
(* What the container builds.                                               *)

\* Memory has no transactions, no SQL queries and nothing another process sees.
Persistence(c) ==
  LET sql(dialect) == [rows |-> "stored", transactions |-> TRUE, jobs |-> dialect, queries |-> dialect]
  IN IF c.STORAGE_BACKEND = "memory"
     THEN [rows |-> "in this process", transactions |-> FALSE, jobs |-> "scan", queries |-> "scan"]
     ELSE sql(c.STORAGE_BACKEND)

PersistenceBuilds(c) ==
  \/ c.STORAGE_BACKEND = "sqlite"
  \/ c.STORAGE_BACKEND = "postgres" /\ c.DATABASE_URL # Unset
  \/ c.STORAGE_BACKEND = "memory" /\ ~IsHosted(c)

S3Builds(c) == Unset \notin {c.S3_ENDPOINT_URL, c.S3_BUCKET, c.S3_ACCESS_KEY_ID, c.S3_SECRET_ACCESS_KEY}

AzureBlobBuilds(c) ==
  /\ c.AZURE_STORAGE_CONTAINER # Unset /\ c.AZURE_STORAGE_TIMEOUT_SECONDS >= 1
  /\ c.AZURE_STORAGE_CONNECTION_STRING # Unset \/ c.AZURE_STORAGE_ACCOUNT_URL # Unset

StorageBuilds(c) ==
  \/ c.DOCUMENT_STORAGE_BACKEND = "local"
  \/ c.DOCUMENT_STORAGE_BACKEND = "s3" /\ S3Builds(c)
  \/ c.DOCUMENT_STORAGE_BACKEND = "azure" /\ AzureBlobBuilds(c)

ServiceBusBuilds(c) ==
  /\ c.AZURE_SERVICE_BUS_TIMEOUT_SECONDS >= 1
  /\ c.AZURE_SERVICE_BUS_CONNECTION_STRING # Unset \/ c.AZURE_SERVICE_BUS_NAMESPACE # Unset

QueueBuilds(c) ==
  \/ c.PROCESSING_QUEUE_BACKEND \in {"none", "memory"}
  \/ c.PROCESSING_QUEUE_BACKEND = "azure" /\ ServiceBusBuilds(c)

ReaderBuilds(key, endpoint, c) == EndpointAllowed(endpoint) /\ key # Unset /\ c.PROVIDER_TIMEOUT_SECONDS > 0

ParserBuilds(c) ==
  \/ c.PARSER_PROVIDER = "mock"
  \/ c.PARSER_PROVIDER = "mistral_ocr" /\ ReaderBuilds(c.MISTRAL_API_KEY, c.MISTRAL_OCR_ENDPOINT, c)

ExtractorBuilds(c) ==
  \/ c.EXTRACTOR_PROVIDER = "mock"
  \/ c.EXTRACTOR_PROVIDER = "llm_json" /\ ReaderBuilds(c.EXTRACTOR_API_KEY, c.EXTRACTOR_ENDPOINT, c)

AccountingBuilds(c) ==
  c.ACCOUNTING_PROVIDER = "erpnext" =>
    Unset \notin {c.ERPNEXT_API_KEY, c.ERPNEXT_API_SECRET} /\ ErpAllowed(c.ERPNEXT_BASE_URL)

Scanner(c) == IF c.MALWARE_SCANNING_ENABLED THEN c.MALWARE_SCANNER_BACKEND ELSE "none"

ContainerBuilds(c) ==
  /\ PersistenceBuilds(c) /\ StorageBuilds(c) /\ QueueBuilds(c)
  /\ ParserBuilds(c) /\ ExtractorBuilds(c) /\ AccountingBuilds(c)
  /\ Scanner(c) \in {"none", "signature", "clamav"}

WebStarts(c) ==
  /\ TokensAllowed(c) /\ ProvidersAllowed(c) /\ ScanningAllowed(c)
  /\ RetentionAllowed(c) /\ EgressAllowed(c)
  /\ ContainerBuilds(c)

WorkerStarts(c) == ContainerBuilds(c)
-----------------------------------------------------------------------------
(* Who a token signs in.                                                    *)

Nobody == "nobody"

\* The principals are tried in this order, the first match counts.
SignIns == <<"admin", "uploader", "reviewer">>

Matches(token, role, c) ==
  token # Unset /\ role \in Configured(c) /\ Credentials(c)[role].secret = token.secret

Authenticate(token, c) ==
  LET fits == {i \in 1 .. 3 : Matches(token, SignIns[i], c)}
  IN IF fits = {} THEN Nobody ELSE SignIns[CHOOSE i \in fits : \A j \in fits : i <= j]

AuthenticateMetrics(token, c) == Matches(token, "metrics", c)
-----------------------------------------------------------------------------
\* The first source that names a setting decides it, and each setting has a value
\* or is known to have none.
SettingsAreLayered(process, file) ==
  \A loaded \in {Load(process, file)}, key \in DOMAIN Default :
    LET values == <<process, file, Default>>
        naming == {i \in 1 .. 3 : key \in DOMAIN values[i] /\ values[i][key] # Unset}
    IN loaded[key] =
         IF naming = {} THEN Unset ELSE values[CHOOSE i \in naming : \A j \in naming : i <= j][key]

Protected(url) == url.listed /\ (url.scheme = "https" \/ url.loopback)

\* An application that started signs every token in as the one principal it was
\* given to, and nobody with the metrics token. Hosted, it runs on no built-in
\* credential and keeps its rows. In production every upload passes the virus
\* scanner; a public demo reads no invoice outside the process. What it is
\* configured to call is listed, and reached without TLS on this machine only.
\* A worker with the same settings starts too.
StartedAppsAreSound(c) ==
  WebStarts(c) =>
    /\ \A p \in Configured(c) \ {"metrics"} :
         /\ Authenticate(Credentials(c)[p], c) = p
         /\ ~AuthenticateMetrics(Credentials(c)[p], c)
    /\ Authenticate(c.APP_METRICS_TOKEN, c) = Nobody
    /\ IsHosted(c) =>
         /\ Persistence(c).rows = "stored" /\ Persistence(c).transactions
         /\ Authenticate(c.APP_ADMIN_TOKEN, c) = "admin"
         /\ \A p \in Configured(c) : Credentials(c)[p] # Default.APP_METRICS_TOKEN
    /\ IsHosted(c) /\ ~IsPublicDemo(c) => Scanner(c) = "clamav"
    /\ IsPublicDemo(c) => c.PARSER_PROVIDER = "mock" /\ c.EXTRACTOR_PROVIDER = "mock"
    /\ c.PARSER_PROVIDER # "mock" => Protected(c.MISTRAL_OCR_ENDPOINT)
    /\ c.EXTRACTOR_PROVIDER # "mock" => Protected(c.EXTRACTOR_ENDPOINT)
    /\ c.ACCOUNTING_PROVIDER = "erpnext" => Protected(c.ERPNEXT_BASE_URL)
    /\ WorkerStarts(c)
=============================================================================
