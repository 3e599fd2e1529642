----------------------------- MODULE VisualLabData -----------------------------
(***************************************************************************)
(* The data files of the two sequence pages and of the hub, as far as      *)
(* what the pages do depends on them: the choices of the predictions, the  *)
(* lanes with the ends of their steps, where the evidence of a step is     *)
(* said to be found, the code points that steps and nodes name, and the    *)
(* links to other pages.  A node that names no code point is left out.     *)
(***************************************************************************)
EXTENDS Integers, Sequences, TLC

Linked(from, to, scope, codePointIds) ==
    [from |-> from, to |-> to, scope |-> scope, codePointIds |-> codePointIds]

Step(from, to, scope) == Linked(from, to, scope, <<>>)

Lane(id, nextLaneIds, steps) ==
    [id |-> id, nextLaneIds |-> nextLaneIds, steps |-> steps]

Scenario(options, answer, lanes) ==
    [options |-> options, answer |-> answer, lanes |-> lanes]

-----------------------------------------------------------------------------
Nodes09 ==
       [n \in {"source-code", "gradle-build", "application-jar", "dockerfile"}
            |-> << "dockerfile-jar" >>]
    @@ [n \in {"dockerignore"}
            |-> << "dockerignore-build-context" >>]
    @@ [n \in {"compose-runtime", "environment-config", "prod-profile"}
            |-> << "prod-env" >>]

CodePoints09 ==
    << "dockerfile-jar", "dockerignore-build-context", "prod-env" >>

BuildImage == Lane("build-image", <<>>, <<
    Step("source-code", "gradle-test", "test"),
    Step("gradle-test", "gradle-build", "test"),
    Linked("gradle-build", "application-jar", "manual", << "dockerfile-jar" >>),
    Linked("dockerfile", "docker-builder", "code", << "dockerfile-jar" >>),
    Step("application-jar", "docker-builder", "manual"),
    Step("docker-builder", "docker-image", "manual") >>)

ImageRuntime == Lane("image-runtime", <<>>, <<
    Step("docker-image", "compose-runtime", "manual"),
    Step("compose-runtime", "container", "manual"),
    Step("container", "spring-process", "runtime"),
    Step("spring-process", "runtime-evidence", "runtime") >>)

RuntimeReady ==
    Scenario({"jar", "image", "runtime"}, "runtime",
             << BuildImage, ImageRuntime >>)

BuildGate == Lane("build-gate", <<>>, <<
    Step("source-code", "gradle-test", "test"),
    Step("gradle-test", "test-failure", "test") >>)

RuntimeTestFailed ==
    Scenario({"test", "image", "container"}, "test",
             << BuildGate >>)

CopyBoundary == Lane("copy-boundary", <<>>, <<
    Linked("gradle-build", "application-jar", "manual", << "dockerfile-jar" >>),
    Linked("dockerfile", "docker-builder", "code", << "dockerfile-jar" >>),
    Linked("dockerignore", "docker-builder", "code", << "dockerignore-build-context" >>),
    Step("application-jar", "docker-builder", "manual"),
    Step("docker-builder", "image-build-failure", "manual") >>)

RuntimeCopyMismatch ==
    Scenario({"jar", "image", "process"}, "image",
             << CopyBoundary >>)

RuntimeConfigBoundary == Lane("runtime-config-boundary", <<>>, <<
    Linked("environment-config", "compose-runtime", "runtime", << "prod-env" >>),
    Step("compose-runtime", "container", "runtime"),
    Step("container", "spring-process", "runtime"),
    Linked("prod-profile", "spring-process", "code", << "prod-env" >>),
    Step("spring-process", "runtime-evidence", "runtime") >>)

RuntimeEnvMissing ==
    Scenario({"command", "port", "evidence"}, "evidence",
             << RuntimeConfigBoundary >>)

Sequence09 ==
    [next |-> "10", nodes |-> Nodes09, codePoints |-> CodePoints09,
     scenarios |-> << RuntimeReady, RuntimeTestFailed,
                      RuntimeCopyMismatch, RuntimeEnvMissing >>]

Nodes10 ==
       [n \in {"publish-job"}
            |-> << "tag-trigger" >>]
    @@ [n \in {"deploy-job"}
            |-> << "dns-gate", "staging-validation" >>]
    @@ [n \in {"staged-release"}
            |-> << "staging-validation" >>]
    @@ [n \in {"dns-service", "dns-failure"}
            |-> << "dns-gate" >>]
    @@ [n \in {"deploy-script", "nginx-http", "certbot", "acme-failure"}
            |-> << "certificate-bootstrap" >>]
    @@ [n \in {"nginx-https"}
            |-> << "https-proxy" >>]
    @@ [n \in {"verify-job", "verify-script", "previous-release", "runtime-failure"}
            |-> << "verify-and-rollback" >>]

CodePoints10 ==
    << "tag-trigger", "dns-gate", "staging-validation",
       "certificate-bootstrap", "https-proxy", "verify-and-rollback" >>

ReleasePath == Lane("release-path", << "https-transition", "verify-success" >>, <<
    Linked("release-operator", "publish-job", "runtime", << "tag-trigger" >>),
    Linked("publish-job", "publish-job", "code", << "tag-trigger" >>),
    Step("publish-job", "image-registry", "runtime"),
    Step("publish-job", "deploy-job", "code"),
    Linked("deploy-job", "staged-release", "runtime", << "staging-validation" >>),
    Linked("staged-release", "deploy-script", "runtime", << "staging-validation" >>),
    Step("deploy-script", "app-container", "runtime") >>)

HttpsTransition == Lane("https-transition", << "verify-success" >>, <<
    Linked("deploy-job", "dns-service", "runtime", << "dns-gate" >>),
    Linked("deploy-script", "nginx-http", "runtime", << "certificate-bootstrap" >>),
    Linked("certbot", "acme-ca", "runtime", << "certificate-bootstrap" >>),
    Step("acme-ca", "nginx-http", "runtime"),
    Linked("certbot", "certificate-volume", "runtime", << "certificate-bootstrap" >>),
    Linked("certificate-volume", "nginx-https", "runtime", << "https-proxy" >>),
    Linked("nginx-https", "app-container", "code", << "https-proxy" >>) >>)

VerifySuccess == Lane("verify-success", <<>>, <<
    Linked("verify-job", "verify-script", "runtime", << "verify-and-rollback" >>),
    Step("verify-script", "state-services", "runtime"),
    Step("verify-script", "app-container", "runtime"),
    Linked("verify-script", "nginx-https", "runtime", << "verify-and-rollback" >>),
    Step("external-client", "nginx-https", "runtime"),
    Step("verify-script", "workflow-result", "runtime"),
    Step("release-operator", "security-group", "manual") >>)

FreshHttpsRelease ==
    Scenario({"published", "proxied", "externally-ready"}, "externally-ready",
             << ReleasePath, HttpsTransition, VerifySuccess >>)

DnsBlocked == Lane("dns-blocked", <<>>, <<
    Step("publish-job", "deploy-job", "runtime"),
    Linked("deploy-job", "dns-service", "runtime", << "dns-gate" >>),
    Linked("dns-service", "dns-failure", "runtime", << "dns-gate" >>) >>)

DnsTargetMismatch ==
    Scenario({"publish", "ssh", "verify"}, "ssh",
             << DnsBlocked >>)

AcmePrerequisite == Lane("acme-prerequisite", << "acme-blocked" >>, <<
    Linked("deploy-job", "dns-service", "runtime", << "dns-gate" >>),
    Linked("deploy-job", "staged-release", "runtime", << "staging-validation" >>),
    Step("staged-release", "deploy-script", "runtime") >>)

AcmeBlocked == Lane("acme-blocked", <<>>, <<
    Linked("deploy-script", "nginx-http", "runtime", << "certificate-bootstrap" >>),
    Linked("certbot", "acme-ca", "runtime", << "certificate-bootstrap" >>),
    Step("acme-ca", "acme-failure", "runtime"),
    Linked("acme-failure", "deploy-script", "code", << "certificate-bootstrap" >>),
    Step("deploy-script", "previous-release", "runtime") >>)

Port80Closed ==
    Scenario({"updated", "unchanged", "self-signed"}, "unchanged",
             << AcmePrerequisite, AcmeBlocked >>)

ReleaseApplied == Lane("release-applied", << "verify-failed", "infra-rollback" >>, <<
    Linked("staged-release", "deploy-script", "runtime", << "staging-validation" >>),
    Step("deploy-script", "app-container", "runtime"),
    Linked("certificate-volume", "nginx-https", "runtime", << "https-proxy" >>) >>)

VerifyFailed == Lane("verify-failed", << "infra-rollback" >>, <<
    Linked("verify-job", "verify-script", "runtime", << "verify-and-rollback" >>),
    Step("verify-script", "app-container", "runtime"),
    Step("verify-script", "nginx-https", "runtime"),
    Linked("nginx-https", "runtime-failure", "runtime", << "verify-and-rollback" >>) >>)

InfraRollback == Lane("infra-rollback", <<>>, <<
    Linked("runtime-failure", "previous-release", "runtime", << "verify-and-rollback" >>),
    Step("previous-release", "state-services", "runtime"),
    Step("previous-release", "app-container", "runtime"),
    Step("previous-release", "certificate-volume", "runtime"),
    Step("verify-script", "app-container", "runtime"),
    Step("release-operator", "app-container", "manual"),
    Linked("verify-script", "workflow-result", "code", << "verify-and-rollback" >>) >>)

ReadinessFailureRollback ==
    Scenario({"success", "failed-restored", "volumes-reset"}, "failed-restored",
             << ReleaseApplied, VerifyFailed, InfraRollback >>)

Sequence10 ==
    [next |-> "11", nodes |-> Nodes10, codePoints |-> CodePoints10,
     scenarios |-> << FreshHttpsRelease, DnsTargetMismatch,
                      Port80Closed, ReadinessFailureRollback >>]

HubSequences == {"09", "10"}
=============================================================================
