---------------------------- MODULE PackageFormat ----------------------------
(***************************************************************************)
(* Application packages: built and signed on the developer's machine by    *)
(* tools/lvapp, verified on the device by verify_package with the one      *)
(* official key of OfficialTrustStore.  A package is a header, a canonical *)
(* manifest, a file table, the payload and, once signed, an envelope; what *)
(* reaches the device may be damaged on the way.  Digests and signatures   *)
(* are the values they are taken of.                                       *)
(***************************************************************************)
EXTENDS Integers, Sequences, FiniteSets

CONSTANTS Keys,             \* signing keys
          Official,         \* kOfficialReleasePublicKeyHex, or "unconfigured"
          Projects,         \* sources of applications: records of manifest facts
          MaxDamage         \* bound: changes of a package on its way

\* The texts of a manifest are sequences of characters, segments or names.
PackageAssumption ==
    \A p \in Projects : {p.id, p.version, p.path, p.capabilities} \subseteq Seq(STRING)

VARIABLES built,            \* app.lvapp.dev of each project, or NoPackage
          signed,           \* app.lvapp of each project, or NoPackage
          signings,         \* history: <<key, unsigned part>> of every signature
          delivered,        \* the file on the device, or NoPackage
          damage,           \* changes made to it so far
          crypto,           \* libcrypto is complete on the device
          verdict           \* PackageStatus of verify_package, or "none"

vars == <<built, signed, signings, delivered, damage, crypto, verdict>>

NoPackage == [format |-> "none"]
NoSignature == [key |-> "none", over |-> <<>>]
ZeroKey == "zero"

MAX_NAME == 64
AllowedCapabilities == <<"audio.output", "network", "storage.private">>   \* in their order
Letters    == {"a", "0"}
Separators == {".", "-"}

-----------------------------------------------------------------------------
(* The tool.                                                                *)

\* /^[a-z0-9]+(?:[.-][a-z0-9]+)+$/
IdPattern(id) ==
    \E cuts \in (SUBSET DOMAIN id) \ {{}} :
        /\ \A i \in DOMAIN id : id[i] \in (IF i \in cuts THEN Separators ELSE Letters)
        /\ \A i \in cuts : {i - 1, i + 1} \subseteq DOMAIN id \ cuts

\* /^\d+\.\d+\.\d+$/
VersionPattern(version) ==
    \E i, j \in DOMAIN version :
        /\ 1 < i /\ i + 1 < j /\ j < Len(version)
        /\ \A k \in DOMAIN version : version[k] = (IF k \in {i, j} THEN "." ELSE "0")

\* sortedUniqueStrings: the list is its own sorted copy without repetition.
SortedUnique(list) ==
    \A i, j \in DOMAIN list : i < j =>
        \E k, l \in DOMAIN AllowedCapabilities :
            k < l /\ list[i] = AllowedCapabilities[k] /\ list[j] = AllowedCapabilities[l]

\* validatePackagePath; a path is the sequence of its segments.
validatePackagePath(path) ==
    path # <<>> /\ \A i \in DOMAIN path : path[i] \notin {"", ".", "..", "ends in .", "forbidden"}

\* validateManifest: the name is measured in UTF-16 units.
ValidForTool(manifest) ==
    /\ IdPattern(manifest.project.id) /\ VersionPattern(manifest.project.version)
    /\ manifest.project.nameUnits \in 1..MAX_NAME
    /\ manifest.project.memory \in 8..512
    /\ \A i \in DOMAIN manifest.project.capabilities :
          \E k \in DOMAIN AllowedCapabilities :
              manifest.project.capabilities[i] = AllowedCapabilities[k]
    /\ SortedUnique(manifest.project.capabilities)
    /\ validatePackagePath(manifest.project.path) /\ manifest.project.hasEntry

Manifest(project, key) ==
    [project |-> project, signingKeyId |-> key, hashes |-> project.contents]

\* collectFiles refuses links; the package is written only if it does not exist.
Build(project) ==
    LET manifest == Manifest(project, ZeroKey)
    IN  /\ built[project] = NoPackage
        /\ ~project.links /\ ValidForTool(manifest)
        /\ built' = [built EXCEPT ![project] =
               [format |-> "LVAPP001", development |-> TRUE, layout |-> TRUE,
                manifest |-> manifest, table |-> project.contents,
                payload |-> project.contents, signature |-> NoSignature]]
        /\ UNCHANGED <<signed, signings, delivered, damage, crypto, verdict>>

\* Wrong variant: the signature does not cover header and manifest.
Unsigned_PayloadOnly(package) == <<package.table, package.payload>>
\* What the signature is over: everything before the envelope.
Unsigned(package) ==
    <<package.development, package.manifest, package.table, package.payload>>

\* signPackage: the flag is cleared and the key's id put into the manifest.
Sign(project, key) ==
    LET manifest == Manifest(project, key)
        package == [built[project] EXCEPT !.development = FALSE, !.manifest = manifest]
    IN  /\ built[project] # NoPackage /\ signed[project] = NoPackage
        /\ ValidForTool(manifest)
        /\ signed' = [signed EXCEPT ![project] =
               [package EXCEPT !.signature = [key |-> key, over |-> Unsigned(package)]]]
        /\ signings' = signings \cup
               {<<key, FALSE, manifest, package.table, package.payload>>}
        /\ UNCHANGED <<built, delivered, damage, crypto, verdict>>

\* parsePackage: structure, table against manifest and payload, then the
\* envelope; the signature when a public key is given.
ParsedByTool(package, key) ==
    /\ package # NoPackage /\ package.layout /\ ValidForTool(package.manifest)
    /\ package.development <=> package.manifest.signingKeyId = ZeroKey
    /\ package.table = package.payload /\ package.manifest.hashes = package.table
    /\ ~package.development =>
         /\ package.signature.key = package.manifest.signingKeyId
         /\ package.signature.key = key
         /\ package.signature.over = Unsigned(package)

\* lvapp verify: a production package and an explicit key.
VerifiedByTool(package, key) ==
    ParsedByTool(package, key) /\ ~package.development

-----------------------------------------------------------------------------
(* The device.                                                              *)

\* One character after the other; a leading separator is refused only if it is a
\* dot.
app_id(id) ==
    /\ id # <<>> /\ id[1] # "." /\ id[Len(id)] \notin Separators
    /\ \A i \in DOMAIN id : id[i] \in Letters \cup Separators
    /\ \A i \in 2..Len(id) : id[i - 1] \notin Separators \/ id[i] \notin Separators
    /\ \E i \in DOMAIN id : id[i] \in Separators

semantic_version(version) ==
    /\ Cardinality({i \in DOMAIN version : version[i] = "."}) = 2
    /\ \A i \in DOMAIN version :
          \/ version[i] = "0"
          \/ version[i] = "." /\ i > 1 /\ i < Len(version) /\ version[i - 1] = "0"

valid_path(path) ==
    /\ path # <<>> /\ path[1] # "" /\ path[Len(path)] # ""
    /\ \A i \in DOMAIN path : path[i] \notin {"", ".", "..", "ends in .", "forbidden"}

Place(capability) ==
    IF \E k \in DOMAIN AllowedCapabilities : AllowedCapabilities[k] = capability
    THEN CHOOSE k \in DOMAIN AllowedCapabilities : AllowedCapabilities[k] = capability
    ELSE 0

\* Each item is compared with the one before.
sorted_string_array(list) ==
    \A i \in 2..Len(list) : Place(list[i - 1]) < Place(list[i])

\* Wrong variant: applications of more than 256 MiB are refused.
parse_manifest_Memory256(manifest) ==
    /\ app_id(manifest.project.id) /\ semantic_version(manifest.project.version)
    /\ manifest.project.nameBytes \in 1..MAX_NAME
    /\ manifest.project.memory \in 8..256
    /\ sorted_string_array(manifest.project.capabilities)
    /\ \A i \in DOMAIN manifest.project.capabilities :
          Place(manifest.project.capabilities[i]) # 0
    /\ valid_path(manifest.project.path) /\ manifest.project.hasEntry

\* parse_manifest: as the tool, with the name measured in bytes.
parse_manifest(manifest) ==
    /\ app_id(manifest.project.id) /\ semantic_version(manifest.project.version)
    /\ manifest.project.nameBytes \in 1..MAX_NAME
    /\ manifest.project.memory \in 8..512
    /\ sorted_string_array(manifest.project.capabilities)
    /\ \A i \in DOMAIN manifest.project.capabilities :
          Place(manifest.project.capabilities[i]) # 0
    /\ valid_path(manifest.project.path) /\ manifest.project.hasEntry

\* The checks of verify_package in their order, each with the status it reports.
Checks(package) == <<
    <<package.format = "LVAPP001", "invalid_header">>,
    <<~package.development, "development_rejected">>,
    <<package.layout, "invalid_layout">>,
    <<parse_manifest(package.manifest) /\ package.manifest.signingKeyId # ZeroKey,
      "invalid_manifest">>,
    <<package.manifest.hashes = package.table, "invalid_entry">>,
    <<crypto, "crypto_unavailable">>,
    <<package.table = package.payload, "content_hash_mismatch">>,
    <<package.signature.key = package.manifest.signingKeyId, "signature_invalid">>,
    <<package.signature.key = Official, "signer_untrusted">>,
    <<package.signature.over = Unsigned(package), "signature_invalid">> >>

verify_package(package) ==
    LET checks == Checks(package)
        failed == {i \in DOMAIN checks : ~checks[i][1]}
    IN  IF failed = {} THEN "verified"
        ELSE checks[CHOOSE i \in failed : \A j \in failed : i <= j][2]

\* OfficialTrustStore::verify: nothing is trusted before a key is configured.
Verify ==
    /\ delivered # NoPackage /\ verdict = "none"
    /\ verdict' = IF Official = "unconfigured" THEN "signer_untrusted"
                  ELSE verify_package(delivered)
    /\ UNCHANGED <<built, signed, signings, delivered, damage, crypto>>

-----------------------------------------------------------------------------
(* The way to the device.                                                   *)

Init == /\ built = [p \in Projects |-> NoPackage]
        /\ signed = [p \in Projects |-> NoPackage]
        /\ signings = {} /\ delivered = NoPackage /\ damage = 0
        /\ crypto \in BOOLEAN /\ verdict = "none"

Deliver(project) ==
    /\ delivered = NoPackage
    /\ delivered' \in {built[project], signed[project]} \ {NoPackage}
    /\ UNCHANGED <<built, signed, signings, damage, crypto, verdict>>

\* Part of the file is lost, changed, or replaced by the part of another package.
Damaged(package, other) ==
    {[package EXCEPT !.layout = FALSE],
     [package EXCEPT !.manifest.project.capabilities = Append(@, "network")],
     [package EXCEPT !.manifest.project.id = <<"-">> \o @],
     [package EXCEPT !.manifest.project.version = @ \o <<".", "0">>],
     [package EXCEPT !.manifest.project.path = Append(@, "..")],
     [package EXCEPT !.format = "damaged"],
     [package EXCEPT !.development = ~@],
     [package EXCEPT !.manifest = other.manifest],
     [package EXCEPT !.table = other.table],
     [package EXCEPT !.payload = other.payload],
     [package EXCEPT !.signature = other.signature]}

Damage(project) ==
    /\ delivered # NoPackage /\ verdict = "none" /\ damage < MaxDamage
    /\ signed[project] # NoPackage
    /\ delivered' \in Damaged(delivered, signed[project])
    /\ damage' = damage + 1
    /\ UNCHANGED <<built, signed, signings, crypto, verdict>>

\* The file is removed and another one may be copied to the device.
Replace ==
    /\ verdict # "none"
    /\ delivered' = NoPackage /\ damage' = 0 /\ verdict' = "none"
    /\ UNCHANGED <<built, signed, signings, crypto>>

Next == \/ \E p \in Projects : Build(p) \/ Deliver(p) \/ Damage(p)
        \/ \E p \in Projects, k \in Keys : Sign(p, k)
        \/ Verify
        \/ Replace

Spec == Init /\ [][Next]_vars

-----------------------------------------------------------------------------
\* What the device accepts is, byte for byte before the envelope, something
\* that was signed with the official key: parts of two signed packages do not
\* make a third (Unsigned, Checks).
VerifiedMeansAsSigned ==
    verdict = "verified" =>
        <<Official, delivered.development, delivered.manifest, delivered.table,
          delivered.payload>> \in signings

\* Why it holds: wherever a package is, its envelope is one that was made for
\* something signed, and an accepted package has the official key's over itself.
Fields == {"format", "development", "layout", "manifest", "table", "payload", "signature"}

Made(signature) ==
    \/ signature = NoSignature
    \/ <<signature.key, signature.over[1], signature.over[2], signature.over[3], signature.over[4]>>
           \in signings

Genuine(package) ==
    package # NoPackage => Fields \subseteq DOMAIN package /\ Made(package.signature)

PackageInv ==
    /\ DOMAIN built = Projects /\ DOMAIN signed = Projects
    /\ \A p \in Projects : Genuine(built[p]) /\ Genuine(signed[p])
    /\ Genuine(delivered)
    /\ verdict = "verified" =>
         /\ delivered # NoPackage
         /\ delivered.signature.key = Official
         /\ delivered.signature.over = Unsigned(delivered)

\* Why tool and device agree: only what the tool finds valid is signed, and a
\* verdict is about the package that is there.
AgreementInv ==
    /\ \A s \in signings : \E p \in Projects, k \in Keys :
          s[3] = Manifest(p, k) /\ ValidForTool(s[3])
    /\ verdict # "none" =>
         /\ delivered # NoPackage
         /\ verdict = IF Official = "unconfigured" THEN "signer_untrusted"
                      ELSE verify_package(delivered)

\* What lvapp verify accepts for the official key, the device accepts, if it
\* has libcrypto and the name is as many bytes long as it has UTF-16 units.
ToolAndDeviceAgree ==
    verdict # "none" /\ crypto /\ Official # "unconfigured"
      /\ delivered.format = "LVAPP001"
      /\ delivered.manifest.project.nameBytes = delivered.manifest.project.nameUnits
    => (VerifiedByTool(delivered, Official) <=> verdict = "verified")
=============================================================================
