# Verification of sveltosctl

TLA+ specifications of `sveltosctl`, the command line of Sveltos, with the TLC
configurations that check them on small instances and TLAPS proofs of the
results that matter most. Paths are relative to the repository; functions are
named as they are in the Go code.

`sveltosctl` is a short-lived process. It parses one command line, makes a
series of Kubernetes API calls against a management cluster (and, for
`generate kubeconfig` and `register --fleet-cluster-context`, another cluster
or the user's kubeconfig file), and exits. It keeps no state of its own: what
it can get wrong is the *sequence of calls*. Any of them may fail, may fail
although it took place, may be repeated, or may be the last one before the
process is killed; other invocations, the controllers of Sveltos and those of
Kubernetes write the same objects in the meantime; and the next invocation
starts from whatever the last one left.

## Inventory

| component | source | state | operations | modelled by |
|---|---|---|---|---|
| push-mode registration | `onboard/cluster.go` | kubeconfig Secret, SveltosCluster | `onboardSveltosCluster`, `patchSecret`, `patchSveltosCluster` | `Onboard` |
| workload-identity registration | `onboard/cluster.go`, `cluster_eks.go`, `cluster_gke.go`, `cluster_aks.go` | CA Secret, SveltosCluster | `onboardSveltosClusterWithWorkloadIdentity`, `patchCASecret`, `patchSveltosClusterWithWorkloadIdentity` | `Onboard` |
| pull-mode registration | `onboard/pullmode.go` | Namespace, ServiceAccount, token Secret, Role, ClusterRole, RoleBinding, ClusterRoleBinding, SveltosCluster | `onboardSveltosClusterInPullMode` and the nine functions it calls | `Onboard` |
| deregistration | `onboard/deregister.go` | all of the above | `deregisterSveltosCluster` and the deletion helpers | `Onboard` |
| typed access with retries | `utils/crud.go` | the retry counter of a call | `GetResource`, `CreateResource`, `UpdateResource`, `DeleteResource`, `shouldRetry` | `Onboard` (operators `Get`, `Create`, `Update`, `MayRetry`) |
| redeploy | `redeploy/force_deployment.go` | statuses of ClusterSummaries | `getClusterSummariesInOrder`, `performStatusReset` | `Redeploy`, `ResetOrder` |
| fleet-cluster contexts | `onboard/cluster.go` 373-489 | `current-context` of the kubeconfig file | `getKubeconfigData`, `createKubeconfig`, `switchCurrentContext` | `Fleet` |
| log-level | `loglevel/*.go`, `utils/debuggingconfigurations.go` | the DebuggingConfiguration | `Set`, `Unset`, `updateDebuggingConfiguration`, `collectDebuggingConfiguration` | `LogLevel` |
| generate kubeconfig | `generate/generate_kubeconfig.go` | ServiceAccount, RBAC, token Secret | `GenerateKubeconfigForServiceAccount`, `getToken`, ... | `Generate`, `Fleet` |
| show | `show/*.go` | none: a table made from several reads | `addons`, `dryrun`, `resources`, `usage`, `admin-rbac`, `classifier-labels` | `Show`, `ShowCommon` and a module per subcommand |
| list helpers | `utils/*.go` | none | one List each | those of `show` in `ShowCommon` (`Answer`), the rest in their callers |
| router, version | `cmd/sveltosctl`, `commands/*.go` | none | parse a command line | not modelled |
| agent manifest, generator, API types | `agent`, `generator.go`, `api` | none | generated text | not modelled |

(Sources of commands are under `src/internal/commands`, those of `utils` under
`src/internal`.)

**How they interact.** The commands never call one another, but for
`register --fleet-cluster-context`, which generates a kubeconfig on its way;
they meet in the API server and in the kubeconfig file. Register and deregister
work on the same objects: deregister reads the SveltosCluster to decide *which*
objects to delete, so it depends on what an earlier register, possibly in
another mode, possibly cut short, wrote into it. Log levels of all components
share one object, which every `log-level set` rewrites. Every command reads the
`current-context` of the kubeconfig file when it starts, so a fleet registration
that has switched it decides where the others work. Controllers take part: the
token controller of Kubernetes, which fills the Secrets that pull mode and
`generate kubeconfig --service-account-token` read; the addon controller of
Sveltos, which writes and deletes the ClusterSummaries `redeploy` patches; and
all those that write what `show` lists. `register` and `deregister` reach the
server partly through the `k8sAccess` wrapper, which repeats a call after a
retriable error up to `maxRetry` times, and partly through the plain client,
which does not; the model keeps the difference.

**What is hard.** The hazards, each at its line, are in `PROJECT.json`. They
fall into: a crash or an error between two of up to nine writes; a call that
took place and is repeated; Get-then-Create and Get-then-Update races; a mode
read once and acted upon later; a sequence of legal commands that reaches a
state no single command was written for; names of cluster-scoped resources
shared by two clusters; statuses patched against stale objects; sorting by
maps; loops that end only because something counts, or do not count; a list that
is rewritten from a copy read before; a file that is shared and switched to and
fro; a table made of lists that were read at different moments.

**What makes each component correct.**

* Registration: the SveltosCluster never names a credential that is not there;
  a registration that reports success is what *its* options ask for; a
  pull-mode registration that prints its YAML prints a usable one, whatever the
  clusters are called.
* Deregistration: success without a warning means nothing is left.
* Typed access: a call is repeated a bounded number of times; every command ends.
* Redeploy: dependencies before dependents; circular dependencies, and only
  those, are refused before anything is patched; success means all were reset.
* Fleet contexts: the user's `current-context` is what it was; the cluster that
  was asked for is registered, where the user was.
* Log level: a component has one level; setting one leaves the others' alone;
  a command does all or nothing.
* Generate: a kubeconfig is handed out only for an account and a token that are
  there, with the permissions of that account, and the wait for the token ends.
* Show: the table has a line for everything that was asked for and there, and
  for nothing else; a command fails for what it should.

## Modules

### `Onboard`

State: `store`, a function from (kind, cluster) keys to the object the API
server holds or `Absent`; `proc`, the local state of every process; `fresh`,
the object whose latest resourceVersion the process holds between its Get and
its Update; and `torn`, a history variable: the clusters of which a deregister
has deleted something. A cluster leaves `torn` only when a deregister gets to
its end with no other process at work on that cluster and the SveltosCluster
gone. So it stays there if the deregister is interrupted, and also if the
deregister ends beside a registration.

An object is reduced to the parts the commands write or decide on: for the
SveltosCluster `pullMode`, whether it names the kubeconfig Secret (`keyName`),
`wi` (the workload identity, with or without a CA Secret), the renewal option,
labels and shard; for a Role or ClusterRole the release whose template it was
made from; for a binding the cluster its subject belongs to; for the token
Secret whether it is filled. A resource's name is its key: namespaced kinds
belong to one cluster, the two cluster-scoped kinds are shared by clusters
whose namespace and name join to the same string (`ScopedName`), a Namespace by
its clusters (`NamespaceOf`).

One action is one API call: `proc[p].at` names the function that is executing
and `proc[p].step` its next call, so every interleaving of the calls of two
processes is a behaviour. `Get`, `Write`, `Create` and `Update` are a call as
its caller sees it: served; *refused* (an error, no effect); *lost* (an error
although the write took place); and, through `k8sAccess`, repeated after either
while `MayRetry` allows it. `Update` needs the resourceVersion of the Get:
the server answers Conflict if another write changed the object. `Patch` is the
get-create-or-update shape of `patchSecret` and its siblings; `CreateOrRefresh`
that of `createClusterRole` and `createSveltosCluster`, where any error of the
Get leads to Create and AlreadyExists is success. Then each function of the
code is an action of its name. `Start` is a user running a command line,
`Crash` a killed process, `FillToken` the token controller. (That controller
also removes token Secrets whose ServiceAccount is gone. This is not modelled:
no property asks for a Secret to be there once the account is not.)

Abstractions worth knowing: the values of Secrets and the text that is printed
are opaque; the providers of workload identity are one; `--shard` and
`--labels` are values (parsing is not modelled); a Namespace can exist from the
start and is never deleted, because no command deletes one.

### `Redeploy` and `ResetOrder`

`Redeploy` keeps the fields set in the status of each ClusterSummary (or
`Absent`), the `DependsOn` of each, and per invocation the maps of the code:
`csMap` (the statuses as listed), `dependencies`, `outgoingCount`, `queue` and
`resetOrder`. `listSummaries` is the List with the graph construction,
`popQueue` one round of Kahn's algorithm, `checkCycle` the comparison of lengths,
`patchStatus` one merge patch. Where the code walks a Go map, every order is
possible. The patch removes the fields the *listed* object had. The addon
controller and users are `Reconcile`, `Delete`, `CreateSummary` and `Edit`.

`ResetOrder` is the abstract specification: an invocation fixes a plan once,
resets nothing if the plan is circular, each summary at most once and never
before those it depends on, and succeeds only when all are reset. `Redeploy`
implements it (`KeepsOrder`), with `plan`, `reset` and `outcome` computed from
the local state of the invocation.

### `LogLevel`

State: `store`, the list of entries of the one DebuggingConfiguration, or
`Absent`; per invocation the list it is going to write and whether it holds the
latest resourceVersion (`held`); and `start`, a history: the list an invocation
started with, until somebody else writes. A command makes three reads before it
writes: the one whose list it changes (`collectLogLevelConfiguration`), the one
whose resourceVersion it writes with (`updateLogLevelConfiguration`), and the
one that decides between Create and Update (`checkExists`, in
`UpdateDebuggingConfiguration`). Each is an action, and so are the two writes.
`SetIn` and `UnsetIn` are the loops over the list, zero entries included;
`Sorted` is every order `sort.Sort` may leave. `UnsetIn` keeps the other
positions of the list in their order. Whether the server accepts
entries without a component depends on the installed CRD, which is not in the
repository: `BlankAccepted` holds the possibilities.

### `Generate` and `Fleet`

`Generate` has the calls of `GenerateKubeconfigForServiceAccount` on one
cluster: `server` is what each cluster holds of namespaces, accounts, role,
binding and token Secrets, and `proc` where each process is, with which of the
clusters its client talks to (`target`). All go through the plain client:
`Create` takes AlreadyExists for success, `Get` takes NotFound for an error.
`getToken` is one round of the loop, `sleep` the pause, `Fill` the token
controller. `misses` is a history of failed Gets.

`Fleet` adds the kubeconfig file (`current`) and the two functions around the
switch: both remember the current context, the inner one switches, builds a
client from the file (`getConfig`), generates, and switches back; then the outer
one switches back. `Begin` is a process that starts: its management cluster is
what the file points to at that moment. `found` is the history that says so, for
as long as no other process has switched. The registration that follows is one
step here; `Onboard` has its calls.

### `Show`, `ShowCommon` and the modules of the subcommands

A module per subcommand (`ShowAddOns`, `ShowDryRun`, `ShowResources`,
`ShowUsage`, `ShowAdminRbac`, `ShowClassifierLabels`) has no state of its own. It
has the subcommand twice. Following the code: `Calls`, the reads it makes;
`Follow`, the reads an answer leads to (a List for each namespace, a Get for
each reference); `Lines`, what it adds to its table; `Broken`, whether the answer
ends it. Following the help texts, quoted with their lines: `Table`, what it
ought to show of the objects there are, and `Faulty`, whether it ought to fail.
Where the code does otherwise than its texts say, `Table` follows the code in a
named exception with the text beside it: `InCluster` and `ListedProfiles` in
`ShowAddOns`, `ProfilesElsewhere` in `ShowUsage`. What these mean for the
properties is said below.

`Show` is the machine that runs one: `Call` makes the next read and adds the
lines, `Break` and `CallFails` end it, `Render` prints, and `Put` and `Drop`
are everybody else. Two histories relate the reads to the world they were made
in: `stayed`, the objects that were there all the time, and `seen`, those that
were there at some time. A table made while the world changes is right if it
lies between the table of `stayed` and that of `seen`.

Where the order of the code's calls is that of a Go map it does not show: tables
are sets of lines, and no line depends on the order of two answers but those of
`classifier-labels`, whose lists have a fixed order.

`ObjectsAssumption` says of the objects what their Go types, their validation
and the API server do: names are not empty, a profile deploys charts and
resources and references no profiles, a Classifier is in no namespace.

### The proof modules and the `MC` modules

`OnboardProofs`, `RedeployProofs`, `LogLevelProofs`, `FleetProofs` and
`ShowProofs` are the proofs; `OutcomeProofs` continues `OnboardProofs` with what
a command leaves when it succeeds; `WalkTheorems` has the lemmas about sequences
without repetitions that two of them share; and the `MC` modules are the
instances for TLC. In `MCOnboard` a *habit* is a set of command lines; a history
sticks to one of the `Habits` of the run, which keeps the combinations that
matter and drops the product of all of them.

Operators named `Mistaken_X` are plausible mistakes in the code `X` models (a
dropped error, a forgotten reset, a retry without limit). No specification uses
them; they are there to show that the properties notice: each property fails
when `X` is replaced.

## Runs

The runs of `Onboard` use `maxRetry` = 1 in place of 10: one repetition already
separates "applied, answered with an error, repeated" from the rest, and the
counter is proved to stay within any bound. "Faults" are both refused and lost
calls. Deadlock is checked where a user can always start a command; it is not
for `Show`, which ends with its table, nor for `LogLevel`, whose bound
`MaxEntries` stops the users. A run of several *habits* or *scenes* (see
`MCOnboard`, `MCFleet`, `MCRedeploy`) explores the histories of each and no
mixture of them.

| run | instance | properties |
|---|---|---|
| `OnboardAlone` | one process, one cluster; `OneByOne`: push, workload identity or pull, each with two or three choices of labels, shard, data and release, and with deregister; or registrations of all modes without deregister; faults, crashes | `TypeOK`, `CredentialsBacked`, `CleanSlate`, `RegisteredAsAsked` |
| `OnboardRace` | two processes on one cluster; `Racers`: push, workload identity and deregister, or pull and deregister; faults, crashes | `CredentialsBacked`, `PullUsable`, `Termination` |
| `OnboardPull` | `Pullers`: two releases of pull mode with overlapping deregisters, or two clusters of one namespace; deregister may be killed | `CleanSlate`, `PulledAsAsked` |
| `Redeploy` | three scenes, with faults and crashes. `sort`: one invocation, all 512 graphs over three summaries of a cluster, a fourth elsewhere. `watched`: one invocation beside the controller and users who create, delete, edit and write statuses. `race`: two invocations beside users whose edits make and break a cycle | `TypeOK`, `CyclesRefused`, `Redeployed`, `KeepsOrder`, `InvocationsEnd` |
| `LogLevelRace` | two invocations of set, unset and show, two components, every list to start from; faults, kubectl deletes the object, blank entries accepted or not; lists of at most 4 | `TypeOK`, `OneLevel`, `AllOrNothing` |
| `FleetContexts` | two processes, two contexts and one that is not in the file; fleet registrations beside each other and beside generations, or generations for two accounts with and without `--create` and Secret; faults | `TypeOK`, `Usable`, `ContextRestored`, `RegistersAskedCluster`, `WaitEnds` |
| `Show` | each command line of `AllLines` over up to five objects of its kinds, some of them two forms of one object, of which three come or go meanwhile; failing calls | `TypeOK`, `Complete`, `Sound`, `Selective` |

Five more runs end with a counterexample: `OnboardKubeconfigDeleted`,
`OnboardSharedName`, `LogLevelSet`, `GenerateGranted` and `ShowUsageNamespace`.
Each checks one statement of the repository about itself that does not hold; see
below. None of the five needs a failing call, a crash or two processes.

Why the bounds are enough. Commands keep nothing and are not numbered, so
histories of any length are explored: all state spaces are finite and explored
to the end. Two processes give every pairwise race, and the safety properties
are proved for any number of processes and clusters. Two values of each option
tell "kept" from "replaced". Two clusters in one namespace show sharing.
For the sort, three nodes give chains, one summary with two
dependencies or two dependents, self-loops, and cycles with a tail; the fourth
summary shows that dependencies across clusters count for nothing, and the
proofs cover graphs of any size. For log levels, of two components either may
be set, so that the other sorts before or after it, and 4 entries let two
commands both append to a list of two. `FleetContexts` needs two processes for a
context that is switched under another, two accounts for a binding that is
somebody else's, and two clusters; the proofs are for any number of each. In
`Show` no line depends on more than three objects (a report, a classifier,
another that conflicts with it; a namespace and two objects in it), and three
that come or go are enough for one object to be replaced by its other form
between two reads while a third goes.

What the bounds leave out, to keep the runs small:

* `OnboardAlone`: the habit that changes modes has no deregister.
  Deregisters after changes of mode are in the first habit of `OnboardRace`
  (push and workload identity), and `CredentialsAreBacked` covers all of them;
  `CleanSlate` does not hold there (`KubeconfigDeleted`).
* `OnboardRace`, in its pull-mode half (`PullRace`): one of the two processes
  only registers, a call that fails is not repeated, and a deletion fails only
  where the resource is gone already. The proofs cover the rest.
* `Redeploy`: in `watched` and `race` there are two graphs (a chain and a ring of
  two) and the third summary of the cluster is missing; in `race` the
  controller writes no status. The proofs cover any of these.

What the properties say:

* `CredentialsBacked` (invariant): no SveltosCluster outside `torn` names a
  kubeconfig Secret, a CA Secret or pull-mode resources that are missing. The
  exception is as wide as `torn` is: it includes a deregister that was
  interrupted, and one that ended while a registration of the same cluster was
  under way. There the code does leave a dangling reference for good: push writes
  the Secret, a deregister that finds no SveltosCluster yet deletes it and ends,
  push writes the SveltosCluster and ends. No text of the repository promises
  anything about a register and a deregister of one cluster side by side.
* `CleanSlate`: a deregister that succeeds without a warning leaves none of the
  resources any register makes, whatever earlier commands left behind. One
  exception is the code's own: if the SveltosCluster is already gone only the
  Secrets are looked for.
* `RegisteredAsAsked`: a push or workload-identity registration that succeeds
  leaves the labels, the shard, the reference to the kubeconfig Secret, the
  Secret it uploaded and, for workload identity, the kind of identity as *this*
  invocation asks, whatever was there. A SveltosCluster it has created is as asked
  in every part. One that was there keeps what `patchSveltosCluster` does not
  touch: the renewal option and `pullMode`, and under push the workload
  identity. For the first no text says what is meant; what comes of the last is
  the counterexample `KubeconfigDeleted`.
* `PulledAsAsked`: a pull-mode registration that succeeds adds the labels and
  leaves the shard, the rules of the ClusterRole and the subject of the
  ClusterRoleBinding as asked. It is checked without faults:
  `createClusterRole` takes any error of its Get for "absent", so a refused Get
  leaves the old rules and the command succeeds.
* `PullUsable`: YAML is printed only with a filled token and, unless the cluster
  is in `torn`, with ServiceAccount, Role, ClusterRole and ClusterRoleBinding in
  place. The RoleBinding is not asked for: `createRoleBinding` drops every error.
* `CyclesRefused`, `KeepsOrder`: as above.
* `Redeployed`: a success leaves no summary of the cluster with a status, except
  those the controller has written since the List (`written`): of these the patch
  removes only what the listed object had.
* `OneLevel`: however commands interleave, no component is listed twice or
  without a level.
* `AllOrNothing`: an invocation during which nobody else writes changes nothing
  or does its work, whichever call fails and whatever the server accepts. The
  work of `unset` leaves every other component alone; that of `set` leaves alone
  those that sort before its component and, if its component is new, all. Those
  that sort after a component it changes are exempt: `set` wipes them
  (`SetsOnlyItsOwn`). "Changes nothing" is allowed also to a command that
  reports success, because `set` drops the error of its first read.
* `Usable`: a kubeconfig that is handed out is for an account that exists in the
  cluster it points to, with the token it was asked for; with `--create` the
  ClusterRole is there, bound to an account that exists. Whether that is the
  account of the kubeconfig is the question of `Granted`, and the answer is no.
* `ContextRestored`: a fleet registration that nobody else's switch disturbs
  leaves the file as it found it, and at worst on the fleet cluster if it fails.
* `RegistersAskedCluster`: it registers the cluster that was asked for, in the
  cluster the user was in.
* `Complete`, `Sound`: the table of a `show` command has every line it ought to
  have of the objects that stayed, and none but of objects that were there. What
  it ought to have follows the help texts, with three named exceptions.
  `InCluster`: under `--cluster` a configuration without a cluster label is not
  owed, although without the option it is shown as of the cluster of its own
  name. `ListedProfiles`: a row of `show addons` owes one profile, although the
  comment (`addons.go:40-41`) says that one row lists all those that deploy the
  resource. `ProfilesElsewhere`: `show usage --namespace` may show Profiles of
  other namespaces; that it does is the counterexample `NamespaceOnly`.
* `Selective`: it fails only for what it was asked for, and does not succeed
  over something it ought to fail for.
* `Termination` (`Onboard`), `InvocationsEnd` (`Redeploy`): every command ends,
  that is, the retries are counted, and the sort drains its queue.
* `WaitEnds` (`Fleet`): every command ends; the wait for the token controller
  does, in particular. Excepted is a command of which a Get in `getToken` has
  failed, because of the loop that does not count.

**Fairness.** `Termination`, `InvocationsEnd` and `WaitEnds` assume weak fairness
of the steps of each process: a process that is running and not killed makes its
next call, and every call is answered (client-go calls are synchronous and have
timeouts). In `Fleet` the token controller is weakly fair too: it is a control
loop that gets round to every Secret. Nothing else is assumed of users,
controllers or of calls succeeding.

## Where the code and what it says differ

Each is a run that TLC ends with a counterexample.

* `KubeconfigDeleted`: register with workload identity, then in push mode, then
  deregister. `patchSveltosCluster` leaves `Spec.WorkloadIdentity` set, so the
  deregister takes the cluster for a workload-identity one and leaves the
  kubeconfig Secret, which the help text lists as deleted.
* `AccountsBound`: two clusters whose namespace and name join to the same string
  (a-b/c and a/b-c) are registered in pull mode. They share a ClusterRoleBinding,
  and AlreadyExists counts as success (`pullmode.go:335`): the ServiceAccount of
  the second is not bound, although the comment above says "This binds
  serviceAccount with clusterRole". All other runs and the proofs take names that
  tell clusters apart (`DistinctNames`).
* `SetsOnlyItsOwn`: `log-level set` for a component that is listed already
  breaks out of its loop there, and writes the entries after it as zero values:
  the levels of those components are lost, or, if the server refuses entries
  without a name, nothing is set. The help text says that it sets the level of
  the specified component.
* `Granted`: `generate kubeconfig --create` for one account and then for another.
  The ClusterRoleBinding has the same name for all accounts and is never updated,
  so that the second gets a kubeconfig without permissions. The help text
  promises "A ClusterRoleBinding granting the ServiceAccount cluster-admin
  permissions".
* `NamespaceOnly`: `show usage --namespace` shows the Profiles of all namespaces,
  because `showUsageForProfiles` takes no namespace. The help text says
  "resources in this namespace only".

Seen while modelling, and not among the runs. In registration:
`--pullmode` on a cluster registered otherwise succeeds and leaves
`Spec.PullMode` false; `createRole` looks for the Role without a namespace,
never finds it, and so never updates it to a new release's rules;
`createRoleBinding` returns nil whatever happened; a deregister that finds no
SveltosCluster cleans up only the two Secrets, so that pull-mode resources
whose deletion failed once stay; a register and a deregister of one cluster at
the same time may leave a SveltosCluster that names what is deleted; the list of
deleted resources a deregister prints includes those that were not there;
re-registering does not change the renewal option; a fleet registration that
fails after its switch leaves the file on the fleet cluster, and two at a time
may each register the cluster of the other.

In `generate kubeconfig`: `retries` in `getToken` is never incremented
(`generate_kubeconfig.go:150-157`), so a Get that keeps failing is repeated for
ever.

In `log-level`: `set` drops the error of its first read (`set.go:33-34`) and
succeeds; what another command writes between the first and the second read of
an invocation is overwritten.

In `redeploy`: a reset whose List was made before the controller wrote the
status leaves that status.

In `show`: the RESOURCE NAMES column of `admin-rbac` prints the resources; the
pattern `p--` by which `dryrun` tells Profiles from ClusterProfiles is not
anchored (`pdash` is a field of its own in the model); in `addons` the pointer
LastAppliedTime is part of a map key, so that one resource of two profiles is
two rows, and a nil pointer panics; `addons --helm-charts --resources` shows
nothing at all.

## Proofs

`OnboardProofs`, for any sets of processes, clusters, command lines, labels,
faults and any `MaxRetry`:

* `TypeCorrect`: `Spec => []TypeOK`. From the assumptions of `Onboard` only.
* `CredentialsAreBacked`: `Spec => []CredentialsBacked`, assuming
  `DistinctNames` (different clusters have different cluster-scoped names).
* `PullIsUsable`: `Spec => PullUsable`, under the same assumption.

Both say nothing of clusters in `torn`, as the properties do.

`CredentialsBacked` is not inductive: between writing a Secret and writing the
SveltosCluster a process *relies* on the Secret still being there, and only
where it is in its sequence says so. The inductive invariant is the conjunction
of the type invariant (with `HeldIsPresent`: an object whose latest version a
process holds exists), `CredentialsBacked` and `SecuredIsPresent`: for every
process and its position in the sequence, the resources that all earlier
functions of the sequence have made are present, unless a deregister has torn
the cluster since (`torn`). The proof goes by actions: a step that writes makes
its own kind present; a step that deletes puts the cluster into `torn`; `torn`
loses a cluster only when no other process works on it and the SveltosCluster
is gone. The shared operators (`Get`, `Write`, `Patch`, `CreateOrRefresh`) have
lemmas of their own, so that every action is one citation. `PullUsable` follows
from the same invariant at the last call of a pull-mode registration.

`OutcomeProofs`, again for any number of processes, clusters and command lines,
and with crashes, is about the state a command leaves:

* `LeftAsAsked`: `Spec => RegisteredAsAsked`, with any faults, if push and
  workload-identity registrations overlap with no other command.
* `SlateIsClean`: `Spec => CleanSlate`, with any faults, assuming
  `DistinctNames`, `OneModeEach` and that no registration overlaps.
* `LeftAsPulled`: `Spec => PulledAsAsked`, assuming `DistinctNames`,
  `OneModeEach`, that pull-mode registrations do not overlap, and no faults.

Each hypothesis is one without which the code does not keep the property. Two
clusters whose names join to one share objects, and the one deletes or uses
those of the other (`DistinctNames`, `AccountsBound`). Of two registrations of a cluster at the
same time the last writer wins, and a deregister beside a registration misses
what is made after its reads, hence no overlap of these; deregisters may overlap
with one another. `OneModeEach` says that a cluster is only ever registered in
one way, though with any options and any number of times: deregister deletes
what the mode it reads stands for, and after a change of mode that is not all
there is (`KubeconfigDeleted`), nor does pull mode set `Spec.PullMode` of a
SveltosCluster it finds. A refused Get of the ClusterRole is taken for its
absence, so `LeftAsPulled` needs calls that do not fail. The instances of
`OnboardAlone` with a deregister and of `OnboardPull` are histories of this kind;
the habit that changes modes is not, and `CleanSlate` holds in it because it has
no deregister. `LeftAsAsked` allows changes of mode.

First it is proved what any step can do to the store (`Orderly`): it leaves it
alone, or writes one object of the cluster of its command and of a kind its
operation has to do with (`Effect`, `MayWrite`); all later proofs use that for the steps of the others. Commands run what
fits them and side by side only where they may (`Base`). For `RegisteredAsAsked`
the invariant `Stored` carries the Secret from the call that wrote it to the
patch of the SveltosCluster. For `CleanSlate` three invariants relate an object
to the commands there may have been: what there is of a cluster was made by a
registration of that cluster (`Made`), its SveltosCluster says of which mode
(`Modes`), so that the list of kinds a deregister makes from it misses none; and
what is not deleted yet is on the list unless there was a warning (`Deleting`).
For `PulledAsAsked` the invariant (`Pulled`) says function by function which of
the ClusterRole, the binding and the SveltosCluster are as asked, and `Bound`
that a binding found is that of its own cluster. All were checked by TLC as
invariants of the instances named above.

`RedeployProofs`, for any set of invocations, any finite set of summaries, any
dependencies between them, and any faults and changes from outside:

* `TypeCorrect`: `Spec => []TypeOK`.
* `CyclesAreRefused`: `Spec => []CyclesRefused`.
* `OrderIsKept`: `Spec => KeepsOrder`, that is, `Redeploy` implements
  `ResetOrder` under the mapping of `plan`, `reset` and `outcome`.
* `StatusesAreCleared`: `Spec => Redeployed`, whatever the controller, users and
  other invocations do meanwhile.

What the sort does is in no single state: the two maps and the queue only make
sense together. The inductive invariant says it per invocation (`Steady`).
While it sorts (`Sorting`), the order so far lists every summary after its
dependencies; `outgoingCount` is the number of a summary's dependencies *not
yet in the order*; the queue has no repetitions and holds exactly the summaries
outside the order whose dependencies are all in it; and no circle lies within
the order (`KahnState`, kept by one round: `KahnRound`). So when
the queue is empty, either the order is everything and there is no circle, or
what it lacks is one; comparing two lengths tells which, because a sequence
without repetitions is as long as the set of its elements. While it resets
(`Resetting`), what is patched and what is left of the order make up the list,
and the rest is still ordered given what is patched, which is the guard of the
abstract `Reset`.

For `StatusesAreCleared` the patch of an invocation removes the fields the
summary had when it was listed, so the invariant (`Remembered`) says that a
summary the controller has not written since has not gained a field since:
whatever it holds, the copy holds as well, and a patched one holds nothing. New
summaries come without a status, and other invocations only remove.

`FleetProofs`, for any processes, contexts, accounts, command lines and faults:

* `TypeCorrect`: `Spec => []TypeOK`.
* `KubeconfigsAreUsable`: `Spec => []Usable`.
* `ContextIsRestored`: `Spec => []ContextRestored`.
* `AskedClusterIsRegistered`: `Spec => []RegistersAskedCluster`.

None of the three is inductive: what a process may rely on grows call by call.
The inductive invariant says it for each process. `Progress`: by where it is,
which objects of its target are there and what kubeconfig it has. `Way`: for a
registration nobody has disturbed, where the file points before, during and
after its switch, and that the contexts it remembers are the one it found. A
step of one process is `Considerate` of the others: what was created stays
(`Grows`, which these commands guarantee because they delete nothing), their
local state is left alone, and the file is either left or they count as
disturbed. So each action has to be looked at only for the process that takes
it.

`LogLevelProofs`, for any set of invocations, any finite set of components, any
levels, faults and deletions, and any answer of the server to blank entries:

* `TypeCorrect`: `Spec => []TypeOK`.
* `OneLevelEach`: `Spec => []OneLevel`.
* `Atomic`: `Spec => []AllOrNothing`.

`OneLevel` speaks of the stored list; what an invocation is about to store is
what keeps it true, so the invariant (`Levelled`) says the same of every list an
invocation holds. It is kept because `set` and `unset` write from *one* read of
the list: a second command that added the component meanwhile is overwritten
and not appended to. For `AllOrNothing` the invariant (`Faithful`) follows an
undisturbed invocation: up to its write the store is what it began with
(`Progress`), from the first read on the list it holds is that list with its
work done (`Effect`), and a write whose answer is lost leaves either. The lemmas
underneath say what sorting, `set` and `unset` do to the level of a component
when the list has one for each. The invariant is checked by TLC on the instance
of `LogLevelRace` as well. `ComponentsAssumption` says that components are
finitely many, as the list of them in the code is.

`ShowProofs`, for any set of objects that keep `ObjectsAssumption`, any command
lines of the six subcommands, and any comings and goings:

* `TypeCorrect`: `Spec => []TypeOK`.
* `Completeness`: `Spec => []Complete`.
* `Soundness`: `Spec => []Sound`.
* `Selectivity`: `Spec => []Selective`.

A subcommand is shown to keep a contract, and the process is shown right for
every subcommand that keeps it. The contract names the reads that may be made
(`Legit`), the lines a read and those that follow from it still owe (`Owed`),
the reads that have to end the command (`Doomed`), and, for
`classifier-labels`, whose rows need what earlier reads found, when a read may
be made (`Ready`). `First` says that the first reads owe the whole table;
`Answered` that a read, whatever it is answered, adds only lines of the table
and either gives what it owes or hands it on to the reads that follow.
The inductive invariant then is that lines and pending reads together make up
the table (`Owes`), not for the objects that have stayed so far only but for
*every* smaller set that may stay in the end and every larger set that may be
seen: an object that goes after it was read must not be missed. At the end no
read is pending, and `Owes` is `Complete`. For the labels the invariant also
says which classifiers have been read at each point of the sequence
(`LabelsStage`). TLC checks the invariant on a reduced instance of `Show`. What
the proof does not need is any bound on the objects that come and go.

`TLAPS` does not reach liveness under fairness, `ENABLED`, or
induction over recursively defined data; those stay with TLC.

## Only model-checked, or not modelled

Every safety property that holds in a run is the statement of a theorem.
Model-checked only: `Termination`, `InvocationsEnd` and `WaitEnds`, which are
liveness.

Not modelled: the router, which parses a command line and builds the client (its
effect is the `Begin` of `Fleet`); `version`, a constant; the agent manifest and
its generator, which are text; the API types; `show log-level`'s layout and the
layout of tables altogether; helpers for lists that no command calls. Of
`k8sAccess` only the operations the commands use are modelled.

## Plan

1. Done: `Onboard` and `Redeploy` with their abstract specification; `LogLevel`;
   `Generate` and `Fleet`; the six subcommands of `show`; and the proofs of all
   safety properties the runs check.
2. `LogLevel` as an implementation of an atomic map from component to level,
   for the histories in which that holds.
3. Weaker hypotheses for `OutcomeProofs`: `Overlap` there is about operations,
   and commands on clusters with different names write different objects
   (`Orderly`), so that only those on one cluster need be apart.
4. The renewal option, which registering again does not change: a property, once
   the source says what is intended.
