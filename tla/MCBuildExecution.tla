-------------------------- MODULE MCBuildExecution --------------------------
(* Tarballs with and without a Dockerfile, of every framework the code     *)
(* knows by a config file or a manifest, and of none.                      *)
EXTENDS BuildExecution

Files ==
    {"Dockerfile", "nuxt.config", "next.config", "artisan", "routes.rb", "Gemfile",
     "Gemfile:rails", "Rakefile", "package.json:nuxt", "package.json:next",
     "composer.json:laravel", "other", "outside"}

Tarballs ==
    {{"Dockerfile", "other", "outside"},
     {"nuxt.config", "next.config"},
     {"Gemfile", "Rakefile"},
     {"package.json:next", "outside"},
     {"composer.json:laravel", "Gemfile"},
     {"Gemfile:rails"},
     {"Gemfile", "outside"},
     {}}
=============================================================================
