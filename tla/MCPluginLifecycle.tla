-------------------------- MODULE MCPluginLifecycle --------------------------
EXTENDS PluginLifecycle, TLC

CONSTANTS auth, store, stripe

MCFiles == <<auth, store, stripe>>

\* PLUGIN_DEPENDENCIES, as the code has it.
MCDependencies == {<<store, stripe>>}

MCSymmetry == Permutations(Admins)
=============================================================================
