------------------------------ MODULE MC_LogWalk -----------------------------
(* One log read of a few devices: small pages, a budget of two or three members. *)
EXTENDS LogWalk

Plain == [order |-> "oldest", numbered |-> "yes", skip |-> "honored",
          filter |-> "unadvertised", counts |-> "yes", links |-> "good",
          steps |-> "never"]
PagedDevices ==
    {[Plain EXCEPT !.skip = s] : s \in {"honored", "ignored", "refused"}}
      \cup {[Plain EXCEPT !.order = "newest", !.numbered = n] : n \in {"yes", "no"}}
      \cup {[Plain EXCEPT !.counts = "no"], [Plain EXCEPT !.links = "broken"]}

NumberedDevices == {d \in PagedDevices : d.numbered = "yes"}

FilterDevices ==
    {[Plain EXCEPT !.filter = f] : f \in {"honored", "ignored", "refused"}}
      \cup {[Plain EXCEPT !.filter = "honored", !.steps = "told"]}

SafetyDevices ==
    PagedDevices \cup FilterDevices \cup {[Plain EXCEPT !.filter = "honored", !.steps = "untold"]}
=============================================================================
