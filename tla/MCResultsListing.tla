-------------------------- MODULE MCResultsListing --------------------------
(* Three jobs of two plugins; every listing, one plugin, what is running.   *)
EXTENDS ResultsListing

MCPluginOf == <<"p", "q", "p">>

MCFilters == {[plugin |-> NoFilter, status |-> NoFilter],
              [plugin |-> "p", status |-> NoFilter],
              [plugin |-> NoFilter, status |-> "RUNNING"]}

=============================================================================
