--------------------------- MODULE EgressEvidence ---------------------------
(***************************************************************************)
(* Documents about what left a session: the egress attestation in both     *)
(* versions, a proxy's attribution with the adapters of its vendors, and   *)
(* the envelope of the collector that fed it.  Channels keep their order.  *)
(***************************************************************************)
EXTENDS EvidenceDocument

-----------------------------------------------------------------------------
(* Egress attestation *)

EGRESS_ATTESTATION_MODES == {"intercept_enforced", "observe_only", "egress_proxy_split"}
ATTRIBUTION_TIMING_VALUES == {"pre_fetch", "post_fetch", "runtime_only", "network_observe"}

\* No limitation stated: the standard ones.
normalizeLimitations(limitations) ==
    IF List(limitations) = <<>> THEN <<"standard">> ELSE limitations

\* A binding that is not true is false.
buildEgressAttestationPreimage(input) ==
    [input EXCEPT !.observed_channels = List(@), !.limitations = normalizeLimitations(@),
                  !.mcp_pep_bound = @ = TRUE]

\* Mutant: no limitations, no field.
MutantBuildEgressAttestationDocument(input) ==
    LET preimage == buildEgressAttestationPreimage(input) @@ [schema |-> "v1"]
    IN Seal(IF input.limitations = NULL THEN Without(preimage, {"limitations"}) ELSE preimage,
            "attestation_digest")

buildEgressAttestationDocument(input) ==
    Seal(buildEgressAttestationPreimage(input) @@ [schema |-> "v1"], "attestation_digest")

buildEgressAttestationV2Document(input) ==
    Seal(buildEgressAttestationPreimage(input) @@ [schema |-> "v2"], "attestation_digest")

\* A document that only observed may not claim that the MCP gate enforced.
mcpSplitHonest(mode, mcpPepBound) ==
    mode \in {"egress_proxy_split", "observe_only"} => mcpPepBound = FALSE

verifyEgressAttestationV1(doc) ==
    /\ Present(doc, {"session_id", "generated_at"})
    /\ doc.attestation_mode \in EGRESS_ATTESTATION_MODES
    /\ List(doc.limitations) # <<>>
    /\ doc.attestation_digest =
         buildEgressAttestationPreimage(Without(doc, {"attestation_digest"}))
    /\ mcpSplitHonest(doc.attestation_mode, doc.mcp_pep_bound)

PreFetchIntentBound(doc) ==
    doc.attribution_timing = "pre_fetch" => doc.intent_receipt_digest # NULL

verifyEgressAttestationV2(doc) ==
    /\ verifyEgressAttestationV1(doc)
    /\ doc.run_id # NULL
    /\ doc.attribution_timing \in ATTRIBUTION_TIMING_VALUES
    /\ PreFetchIntentBound(doc)

verifyEgressAttestationBundle(doc) ==
    CASE doc.schema = "v2" -> verifyEgressAttestationV2(doc)
      [] doc.schema # "v2" -> doc.schema = "v1" /\ verifyEgressAttestationV1(doc)

-----------------------------------------------------------------------------
(* Attribution by an egress proxy, and the vendors it is adapted from *)

ATTRIBUTION_SOURCE_VALUES == {"egress_proxy", "sandbox", "network_observe"}
EGRESS_PROXY_VENDOR_ADAPTER_IDS ==
    {"squid", "envoy", "mitmproxy", "zscaler_zia", "generic", "aevesa_native"}

buildEgressProxyAttributionPreimage(input) == [input EXCEPT !.observed_channels = List(@)]

buildEgressProxyAttributionDocument(input) ==
    Seal(buildEgressProxyAttributionPreimage(input), "attribution_digest")

verifyEgressProxyAttributionBundle(doc) ==
    /\ Present(doc, {"run_id", "generated_at"})
    /\ doc.attribution_source \in ATTRIBUTION_SOURCE_VALUES
    /\ doc.attribution_timing \in ATTRIBUTION_TIMING_VALUES
    /\ List(doc.observed_channels) # <<>>
    /\ doc.attribution_digest =
         buildEgressProxyAttributionPreimage(Without(doc, {"attribution_digest"}))
    /\ PreFetchIntentBound(doc)

observedChannelsFromUrl(url) == IF url = NULL THEN <<"https.outbound">> ELSE <<"https.outbound", url>>

RunIdNames ==
    <<"run_id", "runId", "request_id", "requestId", "flow_id", "flowId", "x_request_id",
      "trace_id", "correlation_id">>

\* Without an id of its own a run is named by its url, time and session.
resolveRunId(raw, url) ==
    Default(First(raw, RunIdNames),
            [url |-> url, at |-> First(raw, <<"timestamp", "time", "generated_at", "start_time">>),
             session |-> First(raw, <<"session_id", "sessionId", "sourceContext">>)])

\* An intent without a stated timing is taken to have preceded the fetch.
resolveAttributionTiming(raw, ctx) ==
    LET explicit == Default(First(raw, <<"attribution_timing", "attributionTiming">>),
                            ctx.attribution_timing)
        intent == Default(First(raw, <<"intent_receipt_digest", "intentReceiptDigest">>),
                          ctx.intent_receipt_digest)
    IN CASE explicit \in ATTRIBUTION_TIMING_VALUES -> explicit
         [] explicit \notin ATTRIBUTION_TIMING_VALUES /\ intent # NULL -> "pre_fetch"
         [] OTHER -> "network_observe"

mergeContext(raw, ctx) ==
    LET url == First(raw, <<"url", "request_url", "requestUrl", "uri", "destination">>)
        source == Get(raw, "attribution_source")
        or(names, f) == Default(First(raw, names), ctx[f])
    IN [session_id |-> or(<<"session_id", "sessionId", "sourceContext", "client_session_id">>,
                          "session_id"),
        run_id |-> resolveRunId(raw, url),
        attribution_source |-> IF source \in {"sandbox", "network_observe"} THEN source
                               ELSE "egress_proxy",
        attribution_timing |-> resolveAttributionTiming(raw, ctx),
        observed_channels |-> observedChannelsFromUrl(url),
        intent_receipt_digest |->
          or(<<"intent_receipt_digest", "intentReceiptDigest">>, "intent_receipt_digest"),
        registry_manifest_digest |->
          or(<<"registry_manifest_digest", "registryManifestDigest">>, "registry_manifest_digest"),
        proxy_instance_id |->
          or(<<"proxy_instance_id", "proxyInstanceId", "instance_id", "node_id", "pod_name">>,
             "proxy_instance_id"),
        generated_at |-> or(<<"generated_at", "timestamp", "time", "start_time">>, "generated_at")]

\* The hint of a header, then the schema, then fields only one vendor has.
detectEgressProxyVendor(raw, hint) ==
    LET has(names) == First(raw, names) # NULL IN
    CASE hint # NULL -> hint
      [] hint = NULL /\ Get(raw, "schema") # NULL -> raw.schema
      [] OTHER ->
           CASE has(<<"squid_request_status", "hierarchy_code">>) -> "squid"
             [] ~has(<<"squid_request_status", "hierarchy_code">>)
                /\ has(<<"authority", "upstream_cluster", "response_flags">>) -> "envoy"
             [] OTHER ->
                  CASE has(<<"flow_id">>) /\ has(<<"request">>) -> "mitmproxy"
                    [] ~(has(<<"flow_id">>) /\ has(<<"request">>))
                       /\ has(<<"zia_transaction_id", "ziaTransactionId">>) -> "zscaler_zia"
                    [] OTHER -> "generic"

\* The vendor's own channels after those of the url.
MoreChannels(merged, channels) ==
    [merged EXCEPT !.observed_channels = @ \o SelectSeq(channels, LAMBDA c : c # NULL)]

WithUrl(raw, names) == ("url" :> First(raw, names)) @@ raw

normalizeSquidAccessLog(raw, ctx) ==
    MoreChannels(mergeContext(WithUrl(raw, <<"url", "request_uri", "requestUri", "uri">>), ctx),
                 <<Get(raw, "method"), Get(raw, "hierarchy_code")>>)

normalizeEnvoyAccessLog(raw, ctx) ==
    MoreChannels(mergeContext(WithUrl(raw, <<"url", "request_url", "authority", "host",
                                             "upstream_host">>), ctx),
                 <<First(raw, <<"upstream_cluster", "cluster_name">>), Get(raw, "response_code")>>)

\* request: the fields of the intercepted request.
normalizeMitmproxyFlow(raw, ctx) ==
    LET request == Default(Get(raw, "request"), [none |-> NULL])
        url == Default(Default(Get(raw, "url"), First(request, <<"url", "host", "pretty_host">>)),
                       Get(raw, "host"))
    IN MoreChannels(mergeContext(("url" :> url) @@ ("flow_id" :> First(raw, <<"flow_id", "id">>)) @@ raw,
                                 ctx),
                    <<Get(request, "method"), "mitmproxy.intercept">>)

\* The transaction and the gateway replace what the payload calls its request and
\* its instance, even where it names none.
normalizeZscalerZiaLog(raw, ctx) ==
    LET named == ("request_id" :> First(raw, <<"zia_transaction_id", "ziaTransactionId",
                                               "transaction_id">>))
                 @@ ("proxy_instance_id" :> First(raw, <<"zia_gateway", "gateway_name">>))
                 @@ WithUrl(raw, <<"url", "destination_url", "hostname", "domain">>)
    IN [MoreChannels(mergeContext(named, ctx),
                     <<Get(raw, "action"),
                       IF Get(raw, "policy_name") = NULL THEN NULL ELSE "zscaler.policy.bound">>)
        EXCEPT !.attribution_source = "network_observe"]

normalizeGenericProxyWebhook(raw, ctx) ==
    LET merged == mergeContext(raw, ctx)
        stated == Get(raw, "observed_channels")
    IN [merged EXCEPT !.observed_channels =
          IF stated = NULL THEN observedChannelsFromUrl(First(raw, <<"url", "destination", "host">>))
          ELSE IF stated = <<>> THEN @ ELSE stated]

normalizeEgressProxyVendorPayload(vendor, raw, ctx) ==
    CASE vendor = "squid" -> normalizeSquidAccessLog(raw, ctx)
      [] vendor = "envoy" -> normalizeEnvoyAccessLog(raw, ctx)
      [] vendor = "mitmproxy" -> normalizeMitmproxyFlow(raw, ctx)
      [] vendor = "zscaler_zia" -> normalizeZscalerZiaLog(raw, ctx)
      [] vendor \in {"aevesa_native", "generic"} -> normalizeGenericProxyWebhook(raw, ctx)

\* A payload that is an attribution already is passed on as it is.
buildEgressProxyAttributionFromVendor(raw, ctx, hint) ==
    IF Get(raw, "schema") = "aevesa_native" /\ Get(raw, "attribution_digest") # NULL
    THEN Without(raw, {"schema"})
    ELSE buildEgressProxyAttributionDocument(
           normalizeEgressProxyVendorPayload(detectEgressProxyVendor(raw, hint), raw, ctx))

-----------------------------------------------------------------------------
(* The envelope a collector signs over a feed; times in minutes *)

EGRESS_PROXY_COLLECTOR_DEFAULT_AUD == "aevesa.egress-proxy-collector-ingest/v1"
CollectorMaxAge == 5
CollectorMaxFutureSkew == 1

buildEgressProxyCollectorEnvelopePreimage(input) ==
    [input EXCEPT !.aud = Default(@, EGRESS_PROXY_COLLECTOR_DEFAULT_AUD),
                  !.feed_schema = Default(@, "attribution")]

\* A signature is the digest it is over and the key; NULL: unsigned.
buildEgressProxyCollectorEnvelopeDocument(input, key) ==
    LET preimage == buildEgressProxyCollectorEnvelopePreimage(input)
    IN preimage @@ [envelope_digest |-> preimage,
                    signature |-> IF key = NULL THEN NULL ELSE [over |-> preimage, key |-> key]]

\* A feed's own digest is taken as its digest.
computeFeedDigest(feed) ==
    IF feed.attribution_digest # NULL THEN feed.attribution_digest
    ELSE buildEgressProxyAttributionPreimage(Without(feed, {"attribution_digest"}))

verifyRs256JwsOverDigest(jws, digest, key) == jws.key = key /\ jws.over = digest

\* o.feed, o.key, o.iss, o.now: what the verifier was given, or NULL;
\* o.skip: signatures are not checked.
verifyEgressProxyCollectorEnvelope(doc, o) ==
    /\ Present(doc, {"collector_id", "iss", "aud", "kid", "jti", "iat", "exp"})
    /\ doc.iat <= doc.exp
    /\ doc.envelope_digest =
         buildEgressProxyCollectorEnvelopePreimage(Without(doc, {"envelope_digest", "signature"}))
    /\ doc.aud = EGRESS_PROXY_COLLECTOR_DEFAULT_AUD
    /\ o.iss # NULL => doc.iss = o.iss
    /\ o.feed # NULL => doc.feed_digest = computeFeedDigest(o.feed)
    /\ doc.signature # NULL
    /\ o.skip \/ (o.key # NULL /\ verifyRs256JwsOverDigest(doc.signature, doc.envelope_digest, o.key))
    /\ o.now # NULL =>
         /\ doc.iat <= o.now + CollectorMaxFutureSkew
         /\ o.now <= doc.exp
         /\ o.now <= doc.iat + CollectorMaxAge

EGRESS_PROXY_ASSURANCE_TIER_VALUES ==
    <<"self_attested", "internal_collector_authenticated", "externally_signed">>

TierRank(tier) ==
    IF \E n \in 1..3 : EGRESS_PROXY_ASSURANCE_TIER_VALUES[n] = tier
    THEN CHOOSE n \in 1..3 : EGRESS_PROXY_ASSURANCE_TIER_VALUES[n] = tier
    ELSE 1

egressProxyTierMeetsMinimum(tier, minimumTier) == TierRank(tier) >= TierRank(minimumTier)

\* A feed nobody authenticated caps the verdict and is not "independently
\* observed", whatever it says of itself.
evaluateEgressProxyProvenanceDisclosure(provenance) ==
    IF provenance = NULL
    THEN [allowed |-> FALSE, downgrade |-> FALSE, cap |-> NULL]
    ELSE LET self == TierRank(provenance.assurance_tier) = 1
         IN [allowed |-> ~self /\ egressProxyTierMeetsMinimum(provenance.assurance_tier,
                                                              "internal_collector_authenticated"),
             downgrade |-> self,
             cap |-> IF self THEN "warn" ELSE NULL]

extractProxyAttributionProvenance(doc) ==
    Default(Get(doc, "proxy_attribution_provenance"),
            IF Get(doc, "egress_mint") = NULL THEN NULL
            ELSE Get(doc.egress_mint, "proxy_attribution_provenance"))
=============================================================================
