----------------------------- MODULE MCGateway -----------------------------
(***************************************************************************)
(* The services of the repository for TLC, and requests to them, beside    *)
(* the synthetic configurations of MCServiceConfig.                        *)
(*                                                                         *)
(* Ports are counted from 15000 and megabytes are scaled down.  A path in  *)
(* an OpenAPI document has one chunk for each segment and each slash.      *)
(***************************************************************************)
EXTENDS MCServiceConfig, Gateway

Join(segments) ==
  FoldLeft(LAMBDA path, segment : path \o <<Slash, segment>>, <<>>, segments)

Doc(gets, posts) ==
  [path \in {Join(p) : p \in gets \cup posts} |->
     IF path \in {Join(p) : p \in gets} THEN {"get"} ELSE {"post"}]

Repository == <<
  [Plain EXCEPT !.prefix = <<"cliente-bff">>, !.program = "bff", !.paths = Doc(
     {<<"health">>} \cup {<<"clients", "{clientId}", topic>> :
        topic \in {"summary", "products", "alerts", "contact"}}, {})],
  [Plain EXCEPT !.prefix = <<"cuenta-cliente">>, !.program = "account",
     !.url.port = 2,
     !.schedules = <<Object([k \in {<<"endpoint">>, <<"interval_secs">>} |->
       IF k = <<"endpoint">> THEN Text(<<"webhooks", "/", "customer-update">>)
       ELSE Number(30)])>>,
     !.paths = Doc(
     {<<"health">>, <<"webhooks", "customer-update">>, <<"accounts", "{accountId}">>}
       \cup {<<"accounts", "{accountId}", topic>> :
               topic \in {"holders", "limits", "movements"}}, {})],
  [Plain EXCEPT !.prefix = <<"sap-adapter">>, !.program = "sap", !.url.port = 3,
     !.listeners = <<One(<<"clientes.actualizado">>,
                         <<"/", "queues", "/", "cliente-actualizado">>)>>,
     !.paths = Doc(
     {<<"health">>} \cup {<<"sap", "customers", "{customerId}", topic>> :
        topic \in {"debt", "invoices", "status", "contacts"}},
     {<<"queues", "cliente-actualizado">>})],
  [Plain EXCEPT !.prefix = <<"shopify-adapter">>, !.program = "shopify",
     !.url.port = 4,
     !.schedules = <<Object([k \in {<<"endpoint">>, <<"interval_secs">>} |->
       IF k = <<"endpoint">> THEN Text(<<"/", "webhooks", "/", "orders", "/", "pull">>)
       ELSE Number(120)])>>,
     !.paths = Doc(
     {<<"health">>, <<"shopify", "orders">>, <<"shopify", "orders", "{orderId}">>,
      <<"webhooks", "orders", "pull">>}, {})] >>

(* The repository, with the runners of the example in README.md.            *)
ReadmeExample == {[Repository EXCEPT ![1].runners = 3]}

(* A prefix in the way of the runner's own pages.                           *)
Internal ==
  [Plain EXCEPT !.prefix = <<"__runner__">>,
                !.paths = Doc({<<"stats">>, <<"services">>, <<"info">>}, {})]

JustRepository == {Repository}

MCLayouts == Synthetic \cup JustRepository \cup {<<Internal, Plain>>}

(* The sources of the repository agree with their documents.                *)
ASSUME RepositoryAgrees == AllSourcesAgree

MCDirectoryName ==
  <<"atencion_cliente_bff", "atencion_cuenta_business",
    "facturacion_sap_adapter", "shopify_orders_adapter">>

MCIndexOf == [i \in {<<"0">>, <<"1">>} |-> IF i = <<"0">> THEN 0 ELSE 1]

MCParameters == {"{clientId}", "{accountId}", "{customerId}", "{orderId}"}

Request(method, segments) == [method |-> method, url |-> Join(segments)]
Get(segments) == Request("GET", segments)
Post(segments) == Request("POST", segments)

Bff == "atencion_cliente_bff"
Account == "atencion_cuenta_business"

MCRequests ==
  {[method |-> "GET", url |-> path] :
     path \in MCPaths \cup {<<>>, <<"/", "/", "cliente-bff", "/", "/", "health">>,
                            <<"/", "cliente-bff", "/", "health", "?", "x">>}} \cup
  {Get(segments) : segments \in {
     <<"health">>, <<"__runner__", "stats">>, <<"__runner__", "info">>,
     <<"__runner__", "services">>, <<"cliente-bff">>, <<"ping">>,
     <<"cliente-bff", "clients", "7", "summary">>,
     <<"cliente-bff", "clients", "{clientId}", "alerts">>,
     <<"cuenta-cliente", "accounts", "7">>,
     <<"cuenta-cliente", "webhooks", "customer-update">>,
     <<"sap-adapter", "sap", "customers", "7", "debt">>,
     <<"sap-adapter", "queues", "cliente-actualizado">>,
     <<"shopify-adapter", "shopify", "orders">>,
     <<"shopify-adapter", "shopify", "orders", "1001">>,
     <<"shopify-adapter", "shopify", "orders", "{orderId}">>,
     <<"shopify-adapter", "webhooks", "orders", "pull">>}} \cup
  {Get(<<"__runner__", "services">> \o rest) : rest \in {
     <<Bff>>, <<Bff, "logs">>, <<Bff, "openapi">>, <<Bff, "logs", "x">>,
     <<Bff, "schedules">>, <<"nobody", "logs">>}} \cup
  {Post(<<"__runner__", "services">> \o rest) : rest \in {
     <<Account, "schedules", "0", "toggle">>, <<Account, "schedules", "0", "run">>,
     <<Account, "schedules", "1", "run">>, <<Account, "schedules", "x", "run">>,
     <<Account, "schedules", "0", "stop">>, <<Account, "logs", "0", "run">>}} \cup
  {Post(segments) : segments \in {
     <<"__runner__", "queues", "clientes.actualizado">>,
     <<"__runner__", "queues", "shopify.pedidos.nuevos">>,
     <<"__runner__", "queues", "paid">>, <<"__runner__", "queues", "%20paid">>,
     <<"sap-adapter", "queues", "cliente-actualizado">>}} \cup
  {[method |-> "POST", url |-> Join(<<"__runner__", "queues">>) \o <<"/">>],
   Request("DELETE", <<"health">>)}
=============================================================================
